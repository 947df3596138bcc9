SPECIFICATION Spec
CONSTANTS
  NF = 2
  Value = {0, 1, 2}
  Unit = 10
  Setup <- AllSetups
  MaxCalls = 5
CHECK_DEADLOCK FALSE
INVARIANTS
  TypeOK
  ChainMonotone
  SingleValued
  Transparent
  PlainOrderKept
