SPECIFICATION FairSpec
CONSTANTS
  Ref = {A, B}
  Decision = {uphold, refer}
  None = None
  MaxMoves = 3
INVARIANTS
  TypeOK
  RecordedIsReal
  NoLockedSubmit
PROPERTIES
  Settles
  DecisionSeen
  SubmitSettles
CHECK_DEADLOCK FALSE
