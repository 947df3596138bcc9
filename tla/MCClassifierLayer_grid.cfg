SPECIFICATION Spec
CONSTANTS
  NF = 2
  Value = {0, 1, 2}
  Unit = 10
  Setup <- GridSetups
  MaxCalls = 4
CHECK_DEADLOCK FALSE
INVARIANTS
  EnforcesMonotonicity
