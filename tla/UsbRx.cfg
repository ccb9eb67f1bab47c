SPECIFICATION Spec
CONSTANTS
  NumUrbs = 2
  NumBufs = 3
  MaxTriggers = 2
  MaxStranded = 1
  Faults <- AllFaults
INVARIANTS TypeOK FramesAreSeen
PROPERTY WaysToGoDeaf
