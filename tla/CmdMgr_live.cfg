SPECIFICATION FairSpec
CONSTANTS
  c1 = c1  c2 = c2  wq = wq  rx = rx  none = none  a = a  b = b
  Callers = {c1}
  Worker = wq
  Rx = rx
  None = none
  Ids = {a}
  Requests <- NoBuffer
  RxRequests = {}
  Killable = {}
  Unplugs = TRUE
  PoolSize = 5
  MaxQueued = 2
PROPERTIES DeferredArePushed CallsReturn
CHECK_DEADLOCK FALSE
