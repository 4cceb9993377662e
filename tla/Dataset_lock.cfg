CONSTANTS
  c1 = c1
  c2 = c2
  Poller = Poller
  Callers = {c1}
  Ops <- One
  AnswersLost = TRUE
  MaxMissing = 2
SPECIFICATION FairHistorySpec
INVARIANTS TypeOK DoneIsDone
PROPERTIES AlreadyIsRight EveryCallEnds ShowsTruth
