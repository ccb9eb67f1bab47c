SPECIFICATION Spec
CONSTANTS
  c1 = c1  c2 = c2  wq = wq  rx = rx  none = none  a = a  b = b
  Callers = {c1, c2}
  Worker = wq
  Rx = rx
  None = none
  Ids = {a}
  Requests <- Mixed
  RxRequests = {}
  Killable = {c1, c2}
  Unplugs = FALSE
  PoolSize = 4
  MaxQueued = 2
INVARIANTS TypeOK QueueSound AnswersRouted BufferHasOwner SlotsAccounted PushedInOrder HeadHasPusher
PROPERTY InService
SYMMETRY Symmetry
CHECK_DEADLOCK FALSE
