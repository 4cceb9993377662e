CONSTANTS
  c1 = c1
  c2 = c2
  p1 = p1
  p2 = p2
  Callers = {c1, c2}
  Polls = {p1, p2}
  Tasks = {"cloudsync", "replication"}
  CallersOf <- TwoCallers
  PollsOf <- BothPolls
  OpsOf <- Calls
  MaxJobs = 2
  Scheduled = {"replication"}
  TaskReported = FALSE
SPECIFICATION FairSpec
INVARIANTS TypeOK NoSecondJob 
PROPERTY RunningClears
