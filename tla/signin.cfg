SPECIFICATION FairSpec
CONSTANTS
  Token = {S, T}
  None = None
  MaxMoves = 5
INVARIANTS
  TypeOK
  RejectedTokenGone
  SignedOutStays
PROPERTIES
  NothingSpins
CHECK_DEADLOCK FALSE
