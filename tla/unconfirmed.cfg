SPECIFICATION Spec
CONSTANTS
  Token = {S, T}
  None = None
  MaxMoves = 3
PROPERTY TokenConfirmed
CHECK_DEADLOCK FALSE
