CONSTANTS
  Ids = {a}
  Polls = {p1}
SPECIFICATION FairStatSpec
PROPERTY DoNotNotifyAgain
