CONSTANTS
  Cap = 2
  Values = {0, 1}
  Parity = 2
  Unit = 8
  None = None
  Unread = Unread
  Others = FALSE
  CoolDown = 2
  Tolerance = 1
  Jump = 3
  Far = 4
SPECIFICATION ReadingsSpec
INVARIANTS ReadingsTypeOK PoolFollowsDataset CompleteRefresh
PROPERTIES FiguresSettle ReadingsSettle
