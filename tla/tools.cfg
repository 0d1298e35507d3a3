SPECIFICATION Spec
CONSTANTS
  w1 = w1
  w2 = w2
  k1 = k1
  k2 = k2
  c1 = c1
  c2 = c2
  r1 = r1
  refer = refer
  uphold = uphold
  Req = {r1, r2, r3}
  Conv = {c1, c2}
  Worker = {w1, w2}
  Case = {k1, k2}
  Decision = {refer, uphold}
  CaseOf <- MCCaseOf
  Bound <- FirstBound
  None = None
  Calls <- ToolCalls
  Outcomes <- FewOutcomes
  MaxCrashes = 1
SYMMETRY Symmetry
INVARIANTS
  BoundByCredentials
  BindOnce
  TwoFailuresLock
  LockoutHolds
  OwnRecordsOnly
  CaseworkProved
  EvidenceIsRecords
  EvidenceComplete
  AllegationsKept
  TierFloor
  AuditTrail
PROPERTIES
  PageKeepsUp
