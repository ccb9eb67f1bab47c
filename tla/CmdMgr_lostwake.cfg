SPECIFICATION FairSpec
CONSTANTS
  c1 = c1  c2 = c2  wq = wq  rx = rx  none = none  a = a  b = b
  Callers = {c1, c2}
  Worker = wq
  Rx = rx
  None = none
  Ids = {a}
  Requests <- Traffic
  RxRequests = {}
  Killable = {}
  Unplugs = TRUE
  PoolSize = 7
  MaxQueued = 2
PROPERTY DeferredArePushed
CHECK_DEADLOCK FALSE
