CONSTANTS
  None = None
  p1 = p1
  p2 = p2
  unload = unload
  Threads = {p1, unload}
  Sockets = {s1, s2}
  Calls <- PollOnceAndClose
SPECIFICATION Spec
INVARIANT ClosedForGood
