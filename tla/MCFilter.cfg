SPECIFICATION FairSpec
CONSTANTS
  Static = {custom}
  Subs = {s1}
  DATCache = TRUE
  NoDAT = NoDAT
  MaxLoads = 2
  MaxEdits = 1
  MaxRequests = 1
  MaxRestarts = 1
INVARIANTS
  TypeOK
  IInv
  LatestLoadAlive
  LatestLoadIsCurrent
  DATMatchesEngine
PROPERTY EveryLoadServed
CHECK_DEADLOCK FALSE
