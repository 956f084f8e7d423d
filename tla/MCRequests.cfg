SPECIFICATION FairSpec
CONSTANTS
  plain = plain
  banned = banned
  stubbed = stubbed
  tracked = tracked
  cloaked = cloaked
  spared = spared
  Url <- MCUrl
  Default <- MCDefault
  Additional <- MCAdditional
  Alias <- MCAlias
  MaxFollows = 2
INVARIANTS
  TypeOK
  NothingBlockedIsSent
  BlockedByRule
  PolicyKept
  ContinuesOnce
  PausedWhileWaiting
  FactoryStaysAsNeeded
PROPERTIES
  FollowsProtocol
  EveryRequestAnswered
CHECK_DEADLOCK FALSE
