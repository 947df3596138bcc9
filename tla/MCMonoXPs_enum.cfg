SPECIFICATION FairSpec
CONSTANTS
  NF = 3
  Value = {0, 1, 2}
  Class = {0, 1, 2}
  LBs <- LowerBounds
  UBs <- UpperBounds
  Classifier <- SomeClassifiers
  Instance <- SomeInstances
  Options <- AllOptions
  SolverMayFail = TRUE
INVARIANTS
  TypeOK
  LoopInv
  SoundReport
  EnumInv
  NoRepeat
  FirstIsAbductive
  Complete
  Duality
  DigestMatches
  InterruptedDigest
  OracleCost
PROPERTIES
  FreshRegion
  Termination
  ImplementsXpEnum
