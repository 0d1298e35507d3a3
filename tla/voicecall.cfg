SPECIFICATION FairSpec
CONSTANT MaxCalls = 3
INVARIANTS
  TypeOK
  MicHeld
  CallIsLive
  OneAttempt
  ShownIsOwn
PROPERTIES
  CallMovesOn
CHECK_DEADLOCK FALSE
