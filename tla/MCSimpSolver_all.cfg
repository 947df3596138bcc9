SPECIFICATION Spec
CONSTANTS
  NV = 5
  RestartGap = 1
  MaxReduce = 1
  MinimizeSize = 30
  MinimizeLBD = 6
  Grow = 0
  ClauseLim = 2
  Setup <- AllSetups
INVARIANTS
  TypeOK
  Soundness
  SatSound
  PropagationComplete
  ReasonsKept
  EliminatedGone
PROPERTIES
  LearntIsNew
  Termination
