SPECIFICATION TBSpec
CONSTANTS
  t1 = t1
  t2 = t2
  p1 = p1
  p2 = p2
  p3 = p3
  w1 = w1
  w2 = w2
  Task <- MCTask
  Sig = {"i"}
  FnSig <- MCFnSig
  Serial = {1, 2}
  Source = {"call"}
  Inst <- MCInst
  Worker <- MCWorker
  MAX_TASKS = 1
  MAX_INSTANCES = 2
  UINT32 = 2
  NULL = NULL
  Garbage = Garbage
SYMMETRY Symmetry
INVARIANTS
  TBTypeOK
  InstanceTable
  CountMatches
  ActiveWorkerOwns
  NoLostDeadCount
