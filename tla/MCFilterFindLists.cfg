SPECIFICATION FairSpec
CONSTANTS
  Static = {custom}
  Subs = {s1}
  DATCache = TRUE
  NoDAT = NoDAT
  MaxLoads = 3
  MaxEdits = 1
  MaxRequests = 0
  MaxRestarts = 0
INVARIANT EnabledListsQueried
CHECK_DEADLOCK FALSE
