SPECIFICATION Spec
CONSTANTS
  NF = 3
  Value = {0, 1, 2}
  Class = {0, 1, 2}
  LBs <- LowerBounds
  UBs <- UpperBounds
  Classifier <- SomeClassifiers
  Instance <- SomeInstances
  Options <- LiteralOptions
  SolverMayFail = FALSE
INVARIANTS
  LiteralsAreXps
