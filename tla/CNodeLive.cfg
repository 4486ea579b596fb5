SPECIFICATION CNFairSpec
CONSTANTS
  fn = fn
  other = other
  p1 = p1
  p2 = p2
  w1 = w1
  w2 = w2
  Task <- MCTask
  Sig = {"i", "s"}
  FnSig <- MCFnSigInt
  Serial = {1, 2}
  Source <- MCSource
  Inst <- MCInst
  Worker <- MCWorker
  MAX_TASKS = 1
  MAX_INSTANCES = 2
  UINT32 = 3
  NULL = NULL
  Garbage = Garbage
  TaskId = {1}
  Unregistered = {}
  Message <- MCMessageBadArgs
  ByRef = {"s"}
  QUEUE_LENGTH = 1
  MaxReceived = 3
PROPERTIES
  EveryCommandHandled
  UsesBoard
