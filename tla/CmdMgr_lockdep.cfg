SPECIFICATION Spec
CONSTANTS
  c1 = c1  c2 = c2  wq = wq  rx = rx  none = none  a = a  b = b
  Callers = {c1, c2}
  Worker = wq
  Rx = rx
  None = none
  Ids = {a}
  Requests <- SameId
  RxRequests = {}
  Killable = {}
  Unplugs = TRUE
  PoolSize = 7
  MaxQueued = 2
INVARIANT LockdepAssertHeld
SYMMETRY Symmetry
CHECK_DEADLOCK FALSE
