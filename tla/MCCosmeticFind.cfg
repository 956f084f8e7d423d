SPECIFICATION Spec
CONSTANTS
  lenient = lenient
  bare = bare
  quiet = quiet
  ad = ad
  box = box
  None = None
  Url <- MCUrl
  Name <- MCName
  Default <- MCDefault
  Additional <- MCAdditional
  DefaultGeneric <- MCDefaultGeneric
  ForcedGeneric <- MCForcedGeneric
  MaxLoads = 2
  MaxWaiting = 2
INVARIANT NothingFromEarlierLoads
CHECK_DEADLOCK FALSE
