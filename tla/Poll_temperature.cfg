CONSTANTS
  Cap = 2
  Values = {0, 1}
  Parity = 2
  Unit = 8
  None = None
  Unread = Unread
  Others = FALSE
SPECIFICATION FairSpec

PROPERTY TemperatureCurrent
