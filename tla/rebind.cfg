SPECIFICATION Spec
CONSTANTS
  w1 = w1
  w2 = w2
  k1 = k1
  k2 = k2
  c1 = c1
  c2 = c2
  r1 = r1
  refer = refer
  uphold = uphold
  Req = {r1, r2, r3}
  Conv = {c1}
  Worker = {w1, w2}
  Case = {k1, k2}
  Decision = {refer, uphold}
  CaseOf <- MCCaseOf
  Bound <- NobodyBound
  None = None
  Calls <- FirstPhone
  Outcomes <- FewOutcomes
  MaxCrashes = 0
SYMMETRY Symmetry
PROPERTIES
  OneCallOneCase
