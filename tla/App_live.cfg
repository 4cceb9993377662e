CONSTANTS
  Callers = {c1}
  Poller = poller
  MaxJobs = 3
  AnswersLost = TRUE
SPECIFICATION FairSpec
INVARIANT TypeOK
PROPERTIES ProgressClears ForgetsWhatEnded
