SPECIFICATION Spec
CONSTANTS
  Frames = {1, 2}
  NumBufs = 4
  Faults = {"submit", "suspend"}
  MaxTriggers = 2
INVARIANTS BuffersConserved
PROPERTIES InOrder
