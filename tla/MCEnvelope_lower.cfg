SPECIFICATION Spec
CONSTANTS
  NF = 2
  Value = {0, 1, 2}
  Mono <- Both
  Lo <- BoundLo
  Hi <- BoundHi
  Eps = 1
  Setup <- SoundSetups
INVARIANTS
  LowerOfInstance
