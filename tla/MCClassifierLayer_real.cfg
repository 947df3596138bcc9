SPECIFICATION Spec
CONSTANTS
  NF = 2
  Value = {0, 1, 2}
  Unit = 1000000
  Setup <- RealSetups
  MaxCalls = 4
CHECK_DEADLOCK FALSE
INVARIANTS
  ReadsReals
