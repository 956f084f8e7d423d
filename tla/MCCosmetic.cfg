SPECIFICATION FairSpec
CONSTANTS
  lenient = lenient
  bare = bare
  quiet = quiet
  ad = ad
  box = box
  None = None
  Url <- MCUrl
  Name <- MCName
  Default <- MCDefault
  Additional <- MCAdditional
  DefaultGeneric <- MCDefaultGeneric
  ForcedGeneric <- MCForcedGeneric
  MaxLoads = 2
  MaxWaiting = 2
INVARIANTS
  TypeOK
  RulesOfTheirDocument
  ExceptionsKept
  WatchedOnce
PROPERTY EveryNameAsked
CHECK_DEADLOCK FALSE
