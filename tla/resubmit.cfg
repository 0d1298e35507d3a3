SPECIFICATION Spec
CONSTANTS
  Ref = {A, B}
  Decision = {uphold, refer}
  None = None
  MaxMoves = 4
INVARIANT OneSubmitInFlight
CHECK_DEADLOCK FALSE
