CONSTANTS
  Callers = {c1}
  Poller = poller
  Statuses = {"none", "IDLE"}
  MaxJobs = 2
  MaxVersion = 2
  AnswersLost = TRUE
SPECIFICATION FairSpec
INVARIANTS TypeOK ShownIsTracked
PROPERTIES ProgressClears ShowsVersions
