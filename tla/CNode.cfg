SPECIFICATION CNSpec
CONSTANTS
  fn = fn
  other = other
  p1 = p1
  p2 = p2
  w1 = w1
  w2 = w2
  Task <- MCTask
  Sig = {"i", "s"}
  FnSig <- MCFnSigText
  Serial = {1, 2}
  Source <- MCSource
  Inst <- MCInst
  Worker <- MCWorker1
  MAX_TASKS = 1
  MAX_INSTANCES = 2
  UINT32 = 3
  NULL = NULL
  Garbage = Garbage
  TaskId = {1, 2}
  Unregistered = {other}
  Message <- MCMessageAll
  ByRef = {"s"}
  QUEUE_LENGTH = 2
  MaxReceived = 3
SYMMETRY Symmetry
INVARIANTS
  CNTypeOK
  CommandOwnership
  WaitTargetIndexed
  RepliesInOrder
  OwnMessagesIgnored
PROPERTIES
  ImplementsRemoteExec
