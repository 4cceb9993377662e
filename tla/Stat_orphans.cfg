CONSTANTS
  Ids = {a, b}
  Polls = {p1, p2}
SPECIFICATION FairStatSpec
INVARIANTS StatTypeOK IgnoredIsQuiet
PROPERTY ShowsOrphans
