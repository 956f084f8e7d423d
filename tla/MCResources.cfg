SPECIFICATION Spec
CONSTANTS
  Key = {1, 2}
  Name = {a, b}
  Content = {good, bad}
  Malformed = {bad}
  Engine = {default}
  MaxEdits = 3
  MaxLoads = 2
INVARIANTS
  TypeOK
  AckedEditsStored
  NamesUnique
  CacheFollowsStore
  EnginesFollowStore
SYMMETRY Symmetry
CHECK_DEADLOCK FALSE
