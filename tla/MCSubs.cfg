SPECIFICATION FairSpec
CONSTANTS
  Url = {u1}
  Slot = {j1, j2}
  NoInfo = NoInfo
  MaxEvents = 3
INVARIANTS
  ProvidersMatchPrefs
  IInv
PROPERTIES
  RecordsOutcomes
  NoResurrection
  DueIsAttempted
