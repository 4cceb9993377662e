CONSTANTS
  None = None
  p1 = p1
  p2 = p2
  unload = unload
  spare = spare
  Threads = {p1, p2, unload}
  Sockets = {s1, s2, spare}
  Calls <- AnyCalls
SPECIFICATION ClientSpec
INVARIANTS TypeOK RequestSocketIsCurrent NoStaleAnswer
INVARIANTS FlowTestVerdict
PROPERTIES UndisturbedIsSafe ImplementsChannel EveryCallReturns
