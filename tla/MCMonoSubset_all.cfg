SPECIFICATION Spec
CONSTANTS
  NF = 2
  Setup <- SmallDataSets
INVARIANT
  MonotoneSubset
