SPECIFICATION FairSpec
CONSTANTS
  MaxChallenges = 2
INVARIANTS
  TypeOK
  CallbacksAnswered
  PausedWhileChecked
PROPERTIES
  ImplementsHandshake
  HandshakeEnds
CHECK_DEADLOCK FALSE
