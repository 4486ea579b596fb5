----------------------------- MODULE CNode_proofs -----------------------------
(***************************************************************************)
(* Proofs about the cnode: it uses the task board only as the board's      *)
(* specification allows, so that every theorem about the board holds of    *)
(* the board of a cnode.                                                   *)
(***************************************************************************)
EXTENDS CNode, TaskBoard_proofs, SequenceTheorems

(* What the processing task and its queue know of the commands.            *)
CommandsKnown ==
  /\ received \in Seq(Message)
  /\ Len(received) <= MaxReceived
  /\ commandQueue \in Seq(1..Len(received))
  /\ pending \in 0..Len(received)
  /\ proc.cmd \in 0..Len(received)
  /\ proc.pc # "idle" => proc.cmd # 0
  /\ proc.pc = "wait" => proc.instance \in Inst

(* The board's invariant, what the cnode knows of its commands, and the    *)
(* lookup that the processing task's wait rests on.                        *)
CIInv ==
  /\ IInv
  /\ CommandsKnown
  /\ WaitTargetIndexed

(* A started cnode has an empty queue and an idle processing task.         *)
LEMMA CInitIInv == CNInit => CIInv
<1> SUFFICES ASSUME CNInit PROVE CIInv
  OBVIOUS
<1>1. IInv
  BY InitIInv DEF CNInit
<1>2. CommandsKnown
  BY QueueAssumption DEF CNInit, CommandsKnown, Idle
<1>3. WaitTargetIndexed
  BY DEF CNInit, WaitTargetIndexed, Idle
<1>4. QED
  BY <1>1, <1>2, <1>3 DEF CIInv

(* A message and its narrowed task id have the types the board expects.    *)
LEMMA MessageType ==
  ASSUME CommandsKnown, NEW k \in 1..Len(received)
  PROVE  /\ received[k] \in AnyMessage
         /\ Uint32(received[k].id) \in Serial
         /\ received[k].sig \in Sig \cup {NULL}
         /\ k \in Source
<1>1. received[k] \in Message
  BY DEF CommandsKnown
<1>2. received[k] \in AnyMessage
  BY <1>1, MessageAssumption
<1>3. QED
  BY <1>2, QueueAssumption DEF AnyMessage, Uint32, CommandsKnown

(* Only a task that is on the board is found.                              *)
LEMMA FoundNameIsTask ==
  ASSUME TBTypeOK, NEW t, t # NULL, tboard_find_task_name(t)
  PROVE  t \in Task
  BY DEF TBTypeOK, tboard_find_task_name

(* A worker's step is a step of the board.                                 *)
LEMMA WorkerStepIsBoardStep ==
  ASSUME NEW w \in Worker, WorkerStep(w)
  PROVE  TBNext
<1>1. CASE FunctionReturns(w)
  BY <1>1 DEF FunctionReturns, TBNext
<1>2. CASE BeginEntry(w)
  BY <1>2 DEF TBNext
<1>3. CASE Epilogue(w)
  BY <1>3 DEF TBNext
<1>4. QED
  BY <1>1, <1>2, <1>3 DEF WorkerStep

-----------------------------------------------------------------------------
(* The cnode uses the board as specified *)

(* The command at the head of the queue is one that was received.          *)
LEMMA DequeuedKnown ==
  ASSUME CommandsKnown, NEW k, NEW c, Dequeue(k, c)
  PROVE  /\ k \in 1..Len(received)
         /\ commandQueue' \in Seq(1..Len(received))
         /\ UNCHANGED <<received, pending>>
<1>1. commandQueue \in Seq(1..Len(received)) /\ commandQueue # <<>>
  BY DEF CommandsKnown, Dequeue
<1>2. Head(commandQueue) \in 1..Len(received)
      /\ Tail(commandQueue) \in Seq(1..Len(received))
  BY <1>1, HeadTailProperties
<1>3. QED
  BY <1>2 DEF Dequeue

(* A request to execute starts a task, or leaves the board alone.          *)
LEMMA RexecUsesBoard ==
  ASSUME CIInv, NEW k \in Command, ProcRexec(k)
  PROVE  TBNext \/ UNCHANGED tbvars
<1> DEFINE m == received[k]
<1>1. k \in 1..Len(received) /\ CommandsKnown /\ TBTypeOK
  BY DequeuedKnown DEF ProcRexec, CIInv, IInv
<1>2. m \in AnyMessage /\ Uint32(m.id) \in Serial /\ m.sig \in Sig \cup {NULL}
        /\ k \in Source
  BY <1>1, MessageType
<1>3. m.fn # NULL
  BY <1>2, QueueAssumption, SetsAssumption DEF AnyMessage
<1>4. CASE \E p \in Inst, w \in Worker \cup {NULL} :
             tboard_start_task(m.fn, Uint32(m.id), m.sig, k, p, w)
  <2>1. PICK p \in Inst, w \in Worker \cup {NULL} :
               tboard_start_task(m.fn, Uint32(m.id), m.sig, k, p, w)
    BY <1>4
  <2>2. m.fn \in Task
    BY <1>1, <1>3, <2>1, FoundNameIsTask DEF tboard_start_task
  <2>3. QED
    BY <1>2, <2>1, <2>2 DEF TBNext
<1>5. CASE UNCHANGED tbvars
  BY <1>5
<1>6. QED
  BY <1>4, <1>5 DEF ProcRexec

(* The end of the wait collects the instance a lookup finds.               *)
LEMMA ReturnUsesBoard ==
  ASSUME CIInv, ReturnTask
  PROVE  TBNext
<1> DEFINE m == received[proc.cmd]
<1>1. proc.pc = "wait" /\ Collect(proc.instance)
  BY DEF ReturnTask
<1>2. proc.cmd \in 1..Len(received) /\ proc.instance \in Inst
  BY <1>1 DEF CIInv, CommandsKnown
<1>3. m \in AnyMessage /\ Uint32(m.id) \in Serial
  BY <1>2, MessageType DEF CIInv
<1>4. Found(m.fn, Uint32(m.id), proc.instance)
  BY <1>1 DEF CIInv, WaitTargetIndexed
<1>5. m.fn \in Task
  BY <1>3, <1>4, FoundNameIsTask, QueueAssumption, SetsAssumption
     DEF AnyMessage, Found, CIInv, IInv
<1>6. QED
  BY <1>1, <1>2, <1>3, <1>4, <1>5 DEF TBNext

(* Every step of the cnode is a step of the board, or leaves it alone.     *)
LEMMA StepUsesBoard == CIInv /\ [CNNext]_allvars => [TBNext]_tbvars
<1> SUFFICES ASSUME CIInv, [CNNext]_allvars PROVE TBNext \/ UNCHANGED tbvars
  OBVIOUS
<1>1. CASE \E t \in Task : tboard_register_task(t) /\ UNCHANGED cnvars
  BY <1>1 DEF TBNext
<1>2. CASE (\E m \in Message : DataHandler(m)) \/ DataHandlerEmpty \/ Handler
  BY <1>2 DEF DataHandler, DataHandlerEmpty, Handler, Enqueue, EnqueueTimeout
<1>3. CASE Processor
  <2>1. CASE \E k \in Command : ProcRexec(k)
    BY <2>1, RexecUsesBoard
  <2>2. CASE \E k \in Command : ProcGet(k) \/ ProcUnknown(k)
    BY <2>2 DEF ProcGet, ProcUnknown
  <2>3. CASE ReturnTask
    BY <2>3, ReturnUsesBoard
  <2>4. CASE SendAck \/ SendResponse \/ SendError
    BY <2>4 DEF SendAck, SendResponse, SendAckOrResponse, SendError
  <2>5. QED
    BY <1>3, <2>1, <2>2, <2>3, <2>4 DEF Processor
<1>4. CASE \E w \in Worker : WorkerStep(w) /\ UNCHANGED cnvars
  BY <1>4, WorkerStepIsBoardStep
<1>5. CASE UNCHANGED allvars
  BY <1>5 DEF allvars
<1>6. QED
  BY <1>1, <1>2, <1>3, <1>4, <1>5 DEF CNNext

-----------------------------------------------------------------------------
(* What the processing task knows *)

(* What has been received stays received.                                  *)
LEMMA ReceivedKept ==
  ASSUME CommandsKnown, [CNNext]_allvars
  PROVE  \/ UNCHANGED received
         \/ \E m \in Message : /\ DataHandler(m)
                               /\ received' = Append(received, m)
                               /\ Len(received) < MaxReceived
                               /\ UNCHANGED <<tbvars, commandQueue, proc>>
<1>1. CASE \E m \in Message : DataHandler(m)
  BY <1>1 DEF DataHandler
<1>2. CASE ~\E m \in Message : DataHandler(m)
  BY <1>2 DEF CNNext, cnvars, allvars, DataHandlerEmpty, Handler, Enqueue, EnqueueTimeout,
     Processor, ProcRexec, ProcGet, ProcUnknown, Dequeue, ReturnTask,
     SendAck, SendResponse, SendAckOrResponse, SendError
<1>3. QED
  BY <1>1, <1>2

(* The processing task's locals after each of its steps: it goes back to   *)
(* idle, stays with its command, or takes the one at the head of the queue.*)
LEMMA ProcessorLocals ==
  ASSUME CommandsKnown, Processor
  PROVE  /\ UNCHANGED <<received, pending>>
         /\ commandQueue' \in Seq(1..Len(received))
         /\ proc'.cmd \in 0..Len(received)
         /\ proc'.pc # "idle" => proc'.cmd # 0
         /\ proc'.pc = "wait" =>
              \E p \in Inst : /\ proc'.instance = p
                              /\ Found(received[proc'.cmd].fn,
                                       Uint32(received[proc'.cmd].id), p)
                              /\ UNCHANGED tbvars
<1>1. CASE \E k \in Command : ProcRexec(k)
  <2>1. PICK k \in Command : ProcRexec(k)
    BY <1>1
  <2>2. k \in 1..Len(received) /\ commandQueue' \in Seq(1..Len(received))
        /\ UNCHANGED <<received, pending>>
    BY <2>1, DequeuedKnown DEF ProcRexec
  <2>3. proc'.cmd = k /\ proc'.pc \in {"ack", "err"}
    BY <2>1 DEF ProcRexec, FreeThenError, At, Idle
  <2>4. QED
    BY <2>2, <2>3
<1>2. CASE \E k \in Command : ProcGet(k)
  <2>1. PICK k \in Command : ProcGet(k)
    BY <1>2
  <2>2. k \in 1..Len(received) /\ commandQueue' \in Seq(1..Len(received))
        /\ UNCHANGED <<received, pending>>
    BY <2>1, DequeuedKnown DEF ProcGet
  <2>3. proc'.cmd = k /\ UNCHANGED tbvars
    BY <2>1 DEF ProcGet, FreeThenError, At, Idle
  <2>4. \/ proc'.pc = "err"
        \/ \E p \in Inst : /\ proc'.instance = p
                           /\ Found(received[k].fn, Uint32(received[k].id), p)
    BY <2>1 DEF ProcGet, FreeThenError, At, Idle
  <2>5. QED
    BY <2>2, <2>3, <2>4
<1>3. CASE \E k \in Command : ProcUnknown(k)
  <2>1. PICK k \in Command : ProcUnknown(k)
    BY <1>3
  <2>2. k \in 1..Len(received) /\ commandQueue' \in Seq(1..Len(received))
        /\ UNCHANGED <<received, pending>>
    BY <2>1, DequeuedKnown DEF ProcUnknown
  <2>3. proc'.cmd = k /\ proc'.pc = "err"
    BY <2>1 DEF ProcUnknown, At, Idle
  <2>4. QED
    BY <2>2, <2>3
<1>4. CASE ReturnTask
  <2>1. proc'.cmd = proc.cmd /\ proc'.pc = "res" /\ proc.pc = "wait"
        /\ UNCHANGED <<received, pending, commandQueue>>
    BY <1>4 DEF ReturnTask, At, Idle
  <2>2. QED
    BY <2>1 DEF CommandsKnown
<1>5. CASE SendAck \/ SendResponse \/ SendError
  <2>1. proc' = Idle /\ UNCHANGED <<received, pending, commandQueue>>
    BY <1>5 DEF SendAck, SendResponse, SendAckOrResponse, SendError
  <2>2. QED
    BY <2>1 DEF CommandsKnown, Idle
<1>6. QED
  BY <1>1, <1>2, <1>3, <1>4, <1>5 DEF Processor

(* Every command that anybody holds is one that was received.              *)
LEMMA CommandsKnownKept ==
  ASSUME CommandsKnown, [CNNext]_allvars
  PROVE  CommandsKnown'
<1>1. CASE \E m \in Message : DataHandler(m)
  <2>1. PICK m \in Message : DataHandler(m)
    BY <1>1
  <2>2. /\ received' = Append(received, m)
        /\ Len(received) < MaxReceived
        /\ pending' \in {pending, Len(received')}
        /\ UNCHANGED <<commandQueue, proc>>
    BY <2>1 DEF DataHandler
  <2>3. received' \in Seq(Message) /\ Len(received') = Len(received) + 1
    BY <2>2, AppendProperties DEF CommandsKnown
  <2>4. Len(received) \in Nat /\ commandQueue \in Seq(1..Len(received))
    BY LenProperties DEF CommandsKnown
  <2>5. commandQueue' \in Seq(1..Len(received'))
    BY <2>2, <2>3, <2>4
  <2>6. QED
    BY <2>2, <2>3, <2>4, <2>5, QueueAssumption DEF CommandsKnown
<1>2. CASE DataHandlerEmpty
  BY <1>2 DEF DataHandlerEmpty, CommandsKnown
<1>3. CASE Handler
  <2>1. Len(received) \in Nat
    BY LenProperties DEF CommandsKnown
  <2>2. CASE Enqueue
    <3>1. pending \in 1..Len(received)
      BY <2>1, <2>2 DEF Enqueue, CommandsKnown
    <3>2. commandQueue' \in Seq(1..Len(received))
      BY <2>2, <3>1, AppendProperties DEF Enqueue, QueueSend, CommandsKnown
    <3>3. QED
      BY <2>1, <2>2, <3>2 DEF Enqueue, CommandsKnown
  <2>3. CASE EnqueueTimeout
    BY <2>1, <2>3 DEF EnqueueTimeout, CommandsKnown
  <2>4. QED
    BY <1>3, <2>2, <2>3 DEF Handler
<1>4. CASE Processor
  BY <1>4, ProcessorLocals DEF CommandsKnown
<1>5. CASE UNCHANGED cnvars
  BY <1>5 DEF cnvars, CommandsKnown
<1>6. QED
  BY <1>1, <1>2, <1>3, <1>4, <1>5 DEF CNNext, allvars

-----------------------------------------------------------------------------
(* What the processing task waits for *)

(* Nothing but serial ids decides a lookup, and names stay on the board.   *)
LEMMA FoundKept ==
  ASSUME NEW t, NEW id, NEW p, Found(t, id, p),
         tboard_find_task_name(t) => tboard_find_task_name(t)',
         UNCHANGED instances,
         \A u \in Slot : instances[t][u] # NULL =>
            inst'[instances[t][u]].serial_id = inst[instances[t][u]].serial_id
  PROVE  Found(t, id, p)'
<1>1. PICK i \in Slot : IsInstanceIndex(t, id, i) /\ instances[t][i] = p
  BY DEF Found
<1>2. IsInstanceIndex(t, id, i)'
  BY <1>1 DEF IsInstanceIndex
<1>3. QED
  BY <1>1, <1>2 DEF Found

(* No worker changes a serial id, an entry of an array or the board.       *)
LEMMA WorkerKeepsIds ==
  ASSUME IInv, NEW w \in Worker, WorkerStep(w)
  PROVE  /\ UNCHANGED <<tasks, instances, allocated>>
         /\ \A p \in Inst : inst'[p].serial_id = inst[p].serial_id
<1> DEFINE q == worker[w].inst
<1>1. UNCHANGED <<tasks, instances, allocated>>
  BY DEF WorkerStep, FunctionReturns, BeginEntry, EntryReturns, Epilogue, SetFinished,
         ClearRunning, StoreReturn, TakeMutex, MutexTimeout, LoadDead, CountDead,
         boardvars, tablevars
<1>2. \/ UNCHANGED inst
      \/ inst' = [inst EXCEPT ![q].is_running = TRUE]
      \/ inst' = [inst EXCEPT ![q].is_running = FALSE]
      \/ inst' = [inst EXCEPT ![q].has_finished = TRUE]
      \/ \E v \in Value : inst' = [inst EXCEPT ![q].return_arg = v]
  BY DEF WorkerStep, FunctionReturns, BeginEntry, EntryReturns, Epilogue, SetFinished,
         ClearRunning, StoreReturn, TakeMutex, MutexTimeout, LoadDead, CountDead, Value
<1>3. inst \in [Inst -> InstRec]
  BY DEF IInv, TBTypeOK
<1> HIDE DEF q
<1>4. \A p \in Inst : inst'[p].serial_id = inst[p].serial_id
  <2>1. CASE \E b \in BOOLEAN : inst' = [inst EXCEPT ![q].is_running = b]
    BY <1>3, <2>1 DEF InstRec
  <2>2. CASE inst' = [inst EXCEPT ![q].has_finished = TRUE]
    BY <1>3, <2>2 DEF InstRec
  <2>3. CASE \E v \in Value : inst' = [inst EXCEPT ![q].return_arg = v]
    BY <1>3, <2>3 DEF InstRec
  <2>4. CASE UNCHANGED inst
    BY <2>4
  <2>5. QED
    BY <1>2, <2>1, <2>2, <2>3, <2>4
<1>5. QED
  BY <1>1, <1>4

(* A task that was registered is still found after another registration.   *)
LEMMA RegisteredKept ==
  ASSUME NEW t \in Task, tboard_register_task(t), NEW u, u # NULL,
         TBTypeOK, tboard_find_task_name(u)
  PROVE  tboard_find_task_name(u)'
<1>1. PICK j \in TaskSlot : tasks[j] = u
  BY DEF tboard_find_task_name
<1>2. tasks'[j] = u
  BY <1>1 DEF tboard_register_task, PlaceFirst, IsFirstFree, TBTypeOK
<1>3. QED
  BY <1>2 DEF tboard_find_task_name

(* The instance that is waited for stays the one a lookup finds: while the *)
(* processing task waits nobody else creates or destroys instances.        *)
LEMMA WaitTargetKept ==
  ASSUME CIInv, [CNNext]_allvars
  PROVE  WaitTargetIndexed'
<1> SUFFICES ASSUME proc'.pc = "wait"
             PROVE  /\ proc'.instance \in allocated'
                    /\ Found(received[proc.cmd].fn, Uint32(received[proc.cmd].id),
                             proc.instance)'
  BY DEF WaitTargetIndexed
<1> DEFINE m == received[proc.cmd]
<1>0. IInv /\ CommandsKnown /\ CommandsKnown' /\ SlotsSound
  BY CommandsKnownKept DEF CIInv, IInv, InstanceTable
<1>1. CASE Processor
  <2>1. PICK p \in Inst : /\ proc'.instance = p
                          /\ Found(received[proc'.cmd].fn,
                                   Uint32(received[proc'.cmd].id), p)
                          /\ UNCHANGED <<tbvars, received>>
    BY <1>0, <1>1, ProcessorLocals
  <2>2. Found(received[proc.cmd].fn, Uint32(received[proc.cmd].id), proc.instance)'
    BY <2>1 DEF Found, IsInstanceIndex, tboard_find_task_name, tbvars
  <2>3. PICK i \in Slot : IsInstanceIndex(received[proc'.cmd].fn,
                                          Uint32(received[proc'.cmd].id), i)
                          /\ instances[received[proc'.cmd].fn][i] = p
    BY <2>1 DEF Found
  <2>4. received[proc'.cmd].fn \in Task
    <3>1. proc'.cmd \in 1..Len(received)
      BY <1>0, <1>1, ProcessorLocals
    <3>2. QED
      BY <1>0, <2>1, <3>1, MessageType, FoundNameIsTask, QueueAssumption, SetsAssumption
         DEF Found, AnyMessage, IInv
  <2>5. p \in allocated
    BY <1>0, <2>3, <2>4 DEF SlotsSound, UsedSlots, IsInstanceIndex
  <2>6. QED
    BY <2>1, <2>2, <2>5 DEF tbvars
<1>2. CASE ~Processor
  <2>1. /\ UNCHANGED proc
        /\ \/ UNCHANGED tbvars
           \/ \E t \in Task : tboard_register_task(t)
           \/ \E w \in Worker : WorkerStep(w)
    BY <1>2 DEF CNNext, DataHandler, DataHandlerEmpty, Handler, Enqueue, EnqueueTimeout,
                cnvars, allvars
  <2>2. /\ proc.instance \in allocated
        /\ Found(m.fn, Uint32(m.id), proc.instance)
        /\ proc.cmd \in 1..Len(received)
    BY <2>1 DEF CIInv, CommandsKnown, WaitTargetIndexed
  <2>3. m \in AnyMessage /\ m.fn \in Task
    BY <1>0, <2>2, MessageType, FoundNameIsTask, QueueAssumption, SetsAssumption
       DEF Found, AnyMessage, IInv
  <2>4. received'[proc.cmd] = m
    <3>1. CASE UNCHANGED received
      BY <3>1
    <3>2. CASE \E x \in Message : received' = Append(received, x)
      BY <1>0, <2>2, <3>2, AppendProperties DEF CommandsKnown
    <3>3. QED
      BY <1>0, <3>1, <3>2, ReceivedKept
  <2>5. /\ \A i \in Slot : instances[m.fn][i] # NULL => instances[m.fn][i] \in Inst
        /\ m.fn # NULL
    BY <1>0, <2>3, SetsAssumption DEF IInv, TBTypeOK
  <2>6. /\ UNCHANGED <<instances, allocated>>
        /\ \A p \in Inst : inst'[p].serial_id = inst[p].serial_id
        /\ \A u : u # NULL /\ tboard_find_task_name(u) => tboard_find_task_name(u)'
    <3>1. CASE UNCHANGED tbvars
      BY <3>1 DEF tbvars, tboard_find_task_name
    <3>2. CASE \E t \in Task : tboard_register_task(t)
      BY <1>0, <2>4, <2>5, <3>2, RegisteredKept DEF tboard_register_task, tablevars, IInv
    <3>3. CASE \E w \in Worker : WorkerStep(w)
      BY <1>0, <3>3, WorkerKeepsIds DEF tboard_find_task_name
    <3>4. QED
      BY <2>1, <3>1, <3>2, <3>3
  <2>7. QED
    BY <2>1, <2>2, <2>4, <2>5, <2>6, FoundKept
<1>3. QED
  BY <1>1, <1>2

(* Every step of the cnode keeps its invariant.                            *)
LEMMA CNextIInv == CIInv /\ [CNNext]_allvars => CIInv'
<1> SUFFICES ASSUME CIInv, [CNNext]_allvars PROVE CIInv'
  OBVIOUS
<1>1. IInv'
  BY StepUsesBoard, NextIInv DEF CIInv
<1>2. CommandsKnown'
  BY CommandsKnownKept DEF CIInv
<1>3. WaitTargetIndexed'
  BY WaitTargetKept
<1>4. QED
  BY <1>1, <1>2, <1>3 DEF CIInv

-----------------------------------------------------------------------------
(* The theorems *)

(* The invariant holds in every state a started cnode can reach.           *)
THEOREM CNodeInvariant == CNSpec => []CIInv
  BY CInitIInv, CNextIInv, PTL DEF CNSpec

(* The cnode uses the board as the board's own specification allows, so    *)
(* that what is proved of the board holds inside every cnode.              *)
THEOREM CNodeUsesBoard == CNSpec => UsesBoard
<1>1. CNInit => TBInit
  BY DEF CNInit
<1>2. QED
  BY <1>1, StepUsesBoard, CNodeInvariant, PTL DEF CNSpec, UsesBoard, TBSpec

(* While the processing task polls has_finished, nobody frees the instance *)
(* it polls or hides it behind another with the same serial id.            *)
THEOREM WaitCorrect == CNSpec => []WaitTargetIndexed
<1>1. CIInv => WaitTargetIndexed
  BY DEF CIInv
<1>2. QED
  BY <1>1, CNodeInvariant, PTL
=============================================================================
