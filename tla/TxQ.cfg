SPECIFICATION Spec
CONSTANTS
  NumTxqs = 2
  NumHwqs = 1
  HwqOf <- OneHwq
  Senders = {"s1"}
  Task = "task"
  None = "none"
  Credits = 2
  FlowStop = 2
  FlowRestart = 1
  HwqSize = 1
  VifReasons = {"CHAN", "CSA"}
  Churn = TRUE
  MaxLen <- Lengths
INVARIANTS ListSound StoppedStaysOff ReadyIsListed SpAccounted SubqueueHasWaker ListedHasServer
