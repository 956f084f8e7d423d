SPECIFICATION FairSpec
CONSTANTS
  plain = plain
  banned = banned
  strict = strict
  tracked = tracked
  both = both
  Url <- MCUrl
  Host <- MCHost
  Default <- MCDefault
  Additional <- MCAdditional
  MaxNavigations = 3
  MaxRedirects = 1
INVARIANTS
  TypeOK
  NothingBlockedLoads
  ProceedSucceeds
  ExemptWarnsOnlyIfImportant
PROPERTY Settles
CHECK_DEADLOCK FALSE
