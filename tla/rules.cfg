SPECIFICATION Spec
CONSTANTS
  Records <- MCRecords
  Periods <- MCPeriods
  None = None
INVARIANTS
  NoNumberOutOfScope
  TimingByLaw
  GapCloses
PROPERTIES
  GratuityGrows
CHECK_DEADLOCK FALSE
