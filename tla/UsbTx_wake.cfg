SPECIFICATION FairSpec
CONSTANTS
  Frames = {1}
  NumBufs = 8
  Faults = {"suspend"}
  MaxTriggers = 3
INVARIANTS BusyHasWaker PostedHasTrigger
PROPERTIES QueuesWake
