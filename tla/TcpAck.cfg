SPECIFICATION FairSpec
CONSTANTS
  f1 = f1  f2 = f2  timer = timer  none = none
  Flows = {f1, f2}
  NumEntries = 2
  MaxDrop = 2
  SeqMod = 4
  MaxN = 2
  MaxDrift = 1
  Timer = timer  None = none
INVARIANTS HeldHasTimer AllocSound
PROPERTIES AcksArrive
CONSTRAINT Sound
