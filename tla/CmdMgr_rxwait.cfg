SPECIFICATION Spec
CONSTANTS
  c1 = c1  c2 = c2  wq = wq  rx = rx  none = none  a = a  b = b
  Callers = {c1, c2}
  Worker = wq
  Rx = rx
  None = none
  Ids = {a, b}
  Requests <- SameId
  RxRequests <- RxPlain
  Killable = {}
  Unplugs = TRUE
  PoolSize = 7
  MaxQueued = 2
INVARIANT RxNeverWaits
SYMMETRY Symmetry
CHECK_DEADLOCK FALSE
