CONSTANTS
  Objects = {o1, o2}
  Handlers = {h1, h2}
  Setup = h1
  Rare = {}
SPECIFICATION FairSpec
INVARIANTS TypeOK NeverReAdded DisabledGroupIsGone
PROPERTIES CleanUpKeepsTheLiving OrphansGo EveryObjectShown
