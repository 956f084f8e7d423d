SPECIFICATION Spec
CONSTANTS
  plain = plain
  banned = banned
  strict = strict
  tracked = tracked
  both = both
  Url <- MCUrl
  Host <- MCHost
  Default <- MCDefault
  Additional <- MCAdditional
  MaxNavigations = 2
  MaxRedirects = 0
INVARIANT FlagMeansProceeding
CHECK_DEADLOCK FALSE
