-------------------------- MODULE Refinement_proofs --------------------------
(***************************************************************************)
(* A cnode implements RemoteExec, for any messages whose task ids stay     *)
(* apart when they are narrowed, any length of the queue and any numbers   *)
(* of instances and workers.                                               *)
(***************************************************************************)
EXTENDS Ownership_proofs

(* The narrowing of task ids does not make two of them one.                *)
IdsDistinct == \A a, b \in TaskId : Uint32(a) = Uint32(b) => a = b

(* What an instance has to do with the message that started it.            *)
RunKnown(p) ==
  /\ inst[p].src \in Foreign
  /\ inst[p].parent_task = received[inst[p].src].fn
  /\ inst[p].serial_id = Uint32(received[inst[p].src].id)
  /\ tboard_find_task_name(inst[p].parent_task)
  /\ inst[p].task_handle_frtos # NULL =>
       SetArgsOk(inst[p].parent_task, received[inst[p].src].sig)
  /\ inst[p].has_finished => inst[p].task_handle_frtos # NULL

RunsKnown == \A p \in allocated : RunKnown(p)

(* What waits to be processed is newer than all that was started.          *)
Waiting    == (Queued \cup {pending}) \ {0}
SourcesOld == \A p \in allocated : \A k \in Waiting : inst[p].src < k

SourcesDistinct ==
  \A p, q \in allocated : inst[p].src = inst[q].src => p = q

IsRunOf(p, m) ==
  inst[p].parent_task = m.fn /\ inst[p].serial_id = Uint32(m.id)

(* The instances that took their arguments.                                *)
Started ==
  {p \in allocated : SetArgsOk(inst[p].parent_task, received[inst[p].src].sig)}

(* What the processing task is about to answer is true.                    *)
AnswerKnown ==
  /\ proc.pc = "ack" => /\ received[proc.cmd].cmd = "REXEC"
                        /\ \E p \in Started : inst[p].src = proc.cmd
  /\ proc.pc \in {"wait", "res"} => received[proc.cmd].cmd = "GET"
  /\ proc.pc = "res" =>
       /\ proc.exec \in Foreign
       /\ received[proc.exec].fn = received[proc.cmd].fn
       /\ Uint32(received[proc.exec].id) = Uint32(received[proc.cmd].id)
       /\ \A p \in allocated : inst[p].src # proc.exec
  /\ (proc.pc = "err" /\ received[proc.cmd].cmd = "GET") =>
       \A p \in allocated : ~IsRunOf(p, received[proc.cmd])

RunInv == RunsKnown /\ SourcesOld /\ SourcesDistinct /\ AnswerKnown

(* Only a result names an execution.                                       *)
NoExec == proc.pc # "res" => proc.exec = NULL

RInv == OwnInv /\ CNTypeOK /\ RunInv /\ NoExec

-----------------------------------------------------------------------------
(* Steps that neither start nor destroy an instance *)

(* What such a step may do to the instances.                               *)
SameRuns ==
  /\ UNCHANGED allocated
  /\ \A p \in allocated :
       /\ inst'[p].src = inst[p].src
       /\ inst'[p].parent_task = inst[p].parent_task
       /\ inst'[p].serial_id = inst[p].serial_id
       /\ inst'[p].task_handle_frtos = inst[p].task_handle_frtos
       /\ inst'[p].has_finished =>
            inst[p].has_finished \/ inst[p].task_handle_frtos # NULL
  /\ \A t \in Task : tboard_find_task_name(t) => tboard_find_task_name(t)'

(* What was received is still there.                                       *)
SameMessages ==
  /\ Foreign \subseteq Foreign'
  /\ \A k \in DOMAIN received : received'[k] = received[k]

(* No worker changes what an instance was started for; it marks the one it *)
(* was created for as finished.                                            *)
LEMMA WorkerSameRuns ==
  ASSUME IInv, NEW w \in Worker, WorkerStep(w)
  PROVE  SameRuns
<1> DEFINE q == worker[w].inst
<1>1. UNCHANGED <<tasks, allocated>>
  BY DEF WorkerStep, FunctionReturns, BeginEntry, EntryReturns, Epilogue, SetFinished,
         ClearRunning, StoreReturn, TakeMutex, MutexTimeout, LoadDead, CountDead,
         boardvars
<1>2. \/ UNCHANGED inst
      \/ \E b \in BOOLEAN : inst' = [inst EXCEPT ![q].is_running = b]
      \/ worker[w].pc = "returned" /\ inst' = [inst EXCEPT ![q].has_finished = TRUE]
      \/ \E v \in Value : inst' = [inst EXCEPT ![q].return_arg = v]
  BY DEF WorkerStep, FunctionReturns, BeginEntry, EntryReturns, Epilogue, SetFinished,
         ClearRunning, StoreReturn, TakeMutex, MutexTimeout, LoadDead, CountDead, Value,
         Goto
<1>3. inst \in [Inst -> InstRec] /\ allocated \subseteq Inst
  BY DEF IInv, TBTypeOK
<1>4. worker[w].pc = "returned" => inst[q].task_handle_frtos = w /\ w # NULL
  BY SetsAssumption DEF IInv, ActiveWorkerOwns, Rightful
<1> HIDE DEF q
<1>5. \A p \in allocated :
         /\ inst'[p].src = inst[p].src
         /\ inst'[p].parent_task = inst[p].parent_task
         /\ inst'[p].serial_id = inst[p].serial_id
         /\ inst'[p].task_handle_frtos = inst[p].task_handle_frtos
         /\ inst'[p].has_finished =>
              inst[p].has_finished \/ inst[p].task_handle_frtos # NULL
  <2>1. CASE \E b \in BOOLEAN : inst' = [inst EXCEPT ![q].is_running = b]
    BY <1>3, <2>1 DEF InstRec
  <2>2. CASE /\ worker[w].pc = "returned"
             /\ inst' = [inst EXCEPT ![q].has_finished = TRUE]
    BY <1>3, <1>4, <2>2 DEF InstRec
  <2>3. CASE \E v \in Value : inst' = [inst EXCEPT ![q].return_arg = v]
    BY <1>3, <2>3 DEF InstRec
  <2>4. QED
    BY <1>2, <2>1, <2>2, <2>3
<1>6. \A t \in Task : tboard_find_task_name(t) => tboard_find_task_name(t)'
  BY <1>1 DEF tboard_find_task_name
<1>7. QED
  BY <1>1, <1>5, <1>6 DEF SameRuns

(* A registration adds a name.                                             *)
LEMMA RegisterSameRuns ==
  ASSUME TBTypeOK, NEW t \in Task, tboard_register_task(t)
  PROVE  SameRuns
<1>1. UNCHANGED <<inst, allocated>>
  BY DEF tboard_register_task
<1>2. \A u \in Task : tboard_find_task_name(u) => tboard_find_task_name(u)'
  BY RegisteredKept, SetsAssumption
<1>3. QED
  BY <1>1, <1>2 DEF SameRuns

(* Such a step, while the processing task does nothing, keeps what is      *)
(* known of the instances and of the answer.                               *)
LEMMA SameRunsKeep ==
  ASSUME RInv, SameRuns, SameMessages, UNCHANGED proc,
         \A k \in Waiting' : k \in Waiting \/ k = Len(received) + 1
  PROVE  RunInv'
<1>1. /\ CommandsKnown /\ TBTypeOK /\ Len(received) \in Nat
      /\ DOMAIN received = 1..Len(received)
      /\ Foreign \subseteq 1..Len(received)
  BY Held DEF RInv, OwnInv, CIInv, IInv
<1>2. \A p \in allocated : /\ p \in allocated'
                           /\ inst[p].src \in Foreign
                           /\ received'[inst'[p].src] = received[inst[p].src]
  BY <1>1 DEF RInv, RunInv, RunsKnown, RunKnown, SameRuns, SameMessages
<1>3. \A p \in allocated : inst[p].parent_task \in Task
  <2>1. ASSUME NEW p \in allocated PROVE inst[p].parent_task \in Task
    <3>1. inst[p].parent_task = received[inst[p].src].fn /\ inst[p].src \in 1..Len(received)
          /\ tboard_find_task_name(inst[p].parent_task)
      BY <1>1 DEF RInv, RunInv, RunsKnown, RunKnown
    <3>2. inst[p].parent_task # NULL
      BY <1>1, <3>1, MessageType, QueueAssumption, SetsAssumption DEF AnyMessage
    <3>3. QED
      BY <1>1, <3>1, <3>2, FoundNameIsTask
  <2>2. QED
    BY <2>1
<1>4. RunsKnown'
  BY <1>2, <1>3 DEF RInv, RunInv, RunsKnown, RunKnown, SameRuns, SameMessages
<1>5. SourcesOld'
  <2>1. \A k \in Foreign : k < Len(received) + 1
    BY <1>1
  <2>2. ASSUME NEW p \in allocated', NEW k \in Waiting'
        PROVE  inst'[p].src < k
    <3>1. p \in allocated /\ inst'[p].src = inst[p].src
      BY DEF SameRuns
    <3>2. CASE k \in Waiting
      BY <3>1, <3>2 DEF RInv, RunInv, SourcesOld
    <3>3. CASE k = Len(received) + 1
      BY <1>2, <2>1, <3>1, <3>3
    <3>4. QED
      BY <3>2, <3>3
  <2>3. QED
    BY <2>2 DEF SourcesOld
<1>6. SourcesDistinct'
  BY DEF RInv, RunInv, SourcesDistinct, SameRuns
<1>7. AnswerKnown'
  <2>1. proc.pc # "idle" => received'[proc.cmd] = received[proc.cmd]
    BY <1>1 DEF CommandsKnown, SameMessages
  <2>2. proc.pc = "res" => proc.exec \in Foreign'
                             /\ received'[proc.exec] = received[proc.exec]
    BY <1>1 DEF RInv, RunInv, AnswerKnown, SameMessages
  <2>3. Started' = Started
    BY <1>2 DEF Started, SameRuns
  <2>4. \A p \in allocated : \A m : IsRunOf(p, m)' <=> IsRunOf(p, m)
    BY DEF IsRunOf, SameRuns
  <2>5. \A p \in Started : inst'[p].src = inst[p].src
    BY DEF Started, SameRuns
  <2>6. proc'.pc = "ack" => /\ received'[proc'.cmd].cmd = "REXEC"
                            /\ \E p \in Started' : inst'[p].src = proc'.cmd
    BY <2>1, <2>3, <2>5 DEF RInv, RunInv, AnswerKnown
  <2>7. (proc'.pc = "err" /\ received'[proc'.cmd].cmd = "GET") =>
           \A p \in allocated' : ~IsRunOf(p, received[proc.cmd])'
    BY <2>1, <2>4 DEF RInv, RunInv, AnswerKnown, SameRuns, IsRunOf
  <2>8. QED
    BY <2>1, <2>2, <2>6, <2>7 DEF RInv, RunInv, AnswerKnown, SameRuns, IsRunOf
<1>8. QED
  BY <1>4, <1>5, <1>6, <1>7 DEF RunInv

-----------------------------------------------------------------------------
(* Starting and collecting *)

(* The command at the head of the queue was waiting; the others still are. *)
LEMMA TakenWaited ==
  ASSUME RInv, NEW k, NEW c, Dequeue(k, c), proc'.cmd = k, released \subseteq released'
  PROVE  /\ k \in Waiting /\ k \in Foreign /\ k \in 1..Len(received)
         /\ Waiting' \subseteq Waiting
         /\ \A j \in Waiting' : k < j
         /\ SameMessages
         /\ received[k].cmd = c
<1>1. /\ k \in 1..Len(received)
      /\ \A j \in DOMAIN commandQueue' : k < commandQueue'[j]
      /\ Queued = Queued' \cup {k}
      /\ pending # 0 => k < pending
      /\ UNCHANGED <<received, pending>>
  BY DequeueMoves DEF RInv
<1>2. Foreign' = Foreign /\ k \in InFlight
  <2>1. InFlight' = InFlight /\ Foreign' = Foreign
    BY DequeueMoves DEF RInv
  <2>2. k \in InFlight'
    BY <1>1 DEF InFlight
  <2>3. QED
    BY <2>1, <2>2
<1>3. k \in Waiting /\ Waiting' \subseteq Waiting
  BY <1>1 DEF Waiting
<1>4. \A j \in Waiting' : k < j
  BY <1>1 DEF Waiting, Queued
<1>5. QED
  BY <1>1, <1>2, <1>3, <1>4 DEF SameMessages, Dequeue, RInv, OwnInv

(* A command that starts nothing leaves the instances as they were.        *)
LEMMA NoStartKeeps ==
  ASSUME RInv, NEW k, NEW c, Dequeue(k, c), proc'.cmd = k, released \subseteq released',
         UNCHANGED tbvars, AnswerKnown'
  PROVE  RunInv'
<1>1. Waiting' \subseteq Waiting /\ SameMessages /\ UNCHANGED received
  BY TakenWaited DEF Dequeue
<1>2. SameRuns
  <2>1. UNCHANGED <<inst, allocated, tasks>>
    BY DEF tbvars
  <2>2. QED
    BY <2>1 DEF SameRuns, tboard_find_task_name
<1>3. RunsKnown' /\ SourcesOld' /\ SourcesDistinct'
  <2>1. UNCHANGED <<inst, allocated, tasks>> /\ Foreign' = Foreign
    BY <1>1 DEF tbvars, Foreign
  <2>2. QED
    BY <1>1, <2>1 DEF RInv, RunInv, RunsKnown, RunKnown, SourcesOld, SourcesDistinct,
       tboard_find_task_name
<1>4. QED
  BY <1>3 DEF RunInv

(* A new instance belongs to the command that was just taken, which is     *)
(* newer than the sources of all others.                                   *)
LEMMA StartRuns ==
  ASSUME RInv, NEW k \in Command, NEW p \in Inst, NEW w \in Worker \cup {NULL},
         Dequeue(k, "REXEC"), proc'.cmd = k, released \subseteq released',
         tboard_start_task(received[k].fn, Uint32(received[k].id), received[k].sig, k, p, w),
         IF SetArgsOk(received[k].fn, received[k].sig) THEN proc'.pc = "ack"
         ELSE proc'.pc = "err"
  PROVE  /\ RunInv'
         /\ \A q \in allocated : inst'[q] = inst[q] /\ inst[q].src # k
         /\ allocated' = allocated \cup {p} /\ p \notin allocated
         /\ inst'[p].parent_task = received[k].fn /\ inst'[p].src = k
<1> DEFINE m == received[k]
           r == NewInstance(m.fn, Uint32(m.id), m.sig, k, w)
<1>1. /\ k \in Waiting /\ k \in Foreign /\ k \in Nat
      /\ Waiting' \subseteq Waiting
      /\ \A j \in Waiting' : k < j
      /\ UNCHANGED received /\ Foreign' = Foreign
      /\ m.cmd = "REXEC"
  BY TakenWaited DEF Dequeue, Foreign
<1>2. /\ allocated' = allocated \cup {p} /\ p \notin allocated
      /\ inst' = [inst EXCEPT ![p] = r]
      /\ UNCHANGED tasks
      /\ tboard_find_task_name(m.fn)
      /\ w # NULL => SetArgsOk(m.fn, m.sig)
  BY DEF tboard_start_task, boardvars
<1>3. inst \in [Inst -> InstRec] /\ allocated \subseteq Inst
  BY DEF RInv, CNTypeOK, TBTypeOK
<1>4. /\ r.src = k /\ r.parent_task = m.fn /\ r.serial_id = Uint32(m.id)
      /\ r.task_handle_frtos = w /\ ~r.has_finished
  BY DEF NewInstance
<1> HIDE DEF m, r
<1>5. inst'[p] = r /\ \A q \in allocated : inst'[q] = inst[q]
  BY <1>2, <1>3
<1>6. \A q \in allocated : inst[q].src < k /\ inst[q].src \in Nat
  <2>1. \A q \in allocated : inst[q].src \in Foreign
    BY DEF RInv, RunInv, RunsKnown, RunKnown
  <2>2. Foreign \subseteq Nat
    BY Held DEF RInv, OwnInv, CIInv
  <2>3. QED
    BY <1>1, <2>1, <2>2 DEF RInv, RunInv, SourcesOld
<1>7. RunsKnown'
  <2>1. RunKnown(p)'
    BY <1>1, <1>2, <1>4, <1>5 DEF m, RunKnown, tboard_find_task_name
  <2>2. ASSUME NEW q \in allocated PROVE RunKnown(q)'
    <3>1. RunKnown(q) /\ inst'[q] = inst[q]
      BY <1>5 DEF RInv, RunInv, RunsKnown, RunKnown
    <3>2. QED
      BY <1>1, <1>2, <3>1 DEF RunKnown, tboard_find_task_name
  <2>3. QED
    BY <1>2, <2>1, <2>2 DEF RunsKnown
<1>8. SourcesOld'
  <2>1. ASSUME NEW q \in allocated', NEW j \in Waiting' PROVE inst'[q].src < j
    <3>1. CASE q = p
      BY <1>1, <1>4, <1>5, <2>1, <3>1
    <3>2. CASE q \in allocated
      BY <1>1, <1>5, <2>1, <3>2 DEF RInv, RunInv, SourcesOld
    <3>3. QED
      BY <1>2, <3>1, <3>2
  <2>2. QED
    BY <2>1 DEF SourcesOld
<1>9. SourcesDistinct'
  BY <1>2, <1>4, <1>5, <1>6 DEF RInv, RunInv, SourcesDistinct
<1>10. AnswerKnown'
  <2>1. SetArgsOk(m.fn, m.sig) => p \in Started'
    BY <1>1, <1>2, <1>4, <1>5 DEF Started, m
  <2>2. proc'.pc = "ack" => SetArgsOk(m.fn, m.sig)
    BY DEF m
  <2>3. proc'.pc \in {"ack", "err"}
    OBVIOUS
  <2>4. QED
    BY <1>1, <1>4, <1>5, <2>1, <2>2, <2>3 DEF AnswerKnown, m
<1>11. QED
  BY <1>2, <1>4, <1>5, <1>6, <1>7, <1>8, <1>9, <1>10 DEF RunInv, m

(* What a lookup finds is an instance of that task with that serial id.    *)
LEMMA FoundIsRun ==
  ASSUME IInv, NEW t, t # NULL, NEW id, NEW p, Found(t, id, p)
  PROVE  /\ t \in Task /\ p \in allocated
         /\ inst[p].parent_task = t /\ inst[p].serial_id = id
<1>1. t \in Task
  BY FoundNameIsTask DEF Found, IInv
<1>2. PICK i \in Slot : IsInstanceIndex(t, id, i) /\ instances[t][i] = p
  BY DEF Found
<1>3. i \in UsedSlots(t) /\ inst[p].serial_id = id
  BY <1>2 DEF IsInstanceIndex, UsedSlots
<1>4. p \in allocated /\ inst[p].parent_task = t
  BY <1>1, <1>2, <1>3 DEF IInv, InstanceTable, SlotsSound
<1>5. QED
  BY <1>1, <1>3, <1>4

(* A lookup that finds nothing has nothing to find: the instance would be  *)
(* in the array of its task, which is on the board.                        *)
LEMMA FoundIfAny ==
  ASSUME IInv, NEW p \in allocated, NEW t, NEW id, tboard_find_task_name(t),
         inst[p].parent_task = t, inst[p].serial_id = id
  PROVE  \E q \in Inst : Found(t, id, q)
<1>1. PICK u \in Task, i \in Slot : instances[u][i] = p
  BY DEF IInv, InstanceTable, NoOrphan
<1>2. p \in Inst /\ p # NULL
  BY SetsAssumption DEF IInv, TBTypeOK
<1>3. u = t /\ i \in Slot /\ instances[t][i] # NULL
      /\ inst[instances[t][i]].serial_id = id
  BY <1>1, <1>2 DEF IInv, InstanceTable, SlotsSound, UsedSlots
<1> DEFINE S == {j \in Slot : instances[t][j] # NULL
                                /\ inst[instances[t][j]].serial_id = id}
<1>4. PICK j \in S : \A h \in S : j <= h
  <2>1. S \in SUBSET Nat /\ S # {}
    BY <1>3, SizesAssumption DEF Slot
  <2> HIDE DEF S
  <2>2. QED
    BY <2>1, LeastElement
<1>5. IsInstanceIndex(t, id, j)
  <2>1. \A h \in Slot : h < j => h \notin S
    BY <1>4, SizesAssumption DEF Slot
  <2>2. QED
    BY <1>4, <2>1 DEF IsInstanceIndex
<1>6. instances[t][j] \in Inst
  BY <1>1, <1>3, <1>4 DEF IInv, TBTypeOK
<1>7. QED
  BY <1>4, <1>5, <1>6 DEF Found

(* The name in a message is not NULL.                                      *)
LEMMA NamesNotNull ==
  ASSUME CommandsKnown, NEW k \in 1..Len(received)
  PROVE  received[k].fn # NULL /\ received[k].id \in TaskId
  BY MessageType, QueueAssumption, SetsAssumption DEF AnyMessage

(* The instance that is collected ran what was asked for, with arguments   *)
(* that were accepted; the others stay.                                    *)
LEMMA CollectRuns ==
  ASSUME RInv, ReturnTask
  PROVE  LET p == proc.instance IN
         /\ RunInv'
         /\ p \in Started /\ IsRunOf(p, received[proc.cmd])
         /\ allocated' = allocated \ {p}
         /\ \A q \in allocated' : inst'[q] = inst[q]
         /\ proc'.exec = inst[p].src /\ proc'.pc = "res" /\ proc'.cmd = proc.cmd
<1> DEFINE p == proc.instance
           m == received[proc.cmd]
<1>1. /\ proc.pc = "wait" /\ proc.cmd \in 1..Len(received) /\ p \in Inst
      /\ IInv /\ CommandsKnown /\ WaitTargetIndexed
  BY DEF RInv, OwnInv, CIInv, CommandsKnown, ReturnTask
<1>2. p \in allocated /\ Found(m.fn, Uint32(m.id), p)
  BY <1>1 DEF WaitTargetIndexed
<1>3. IsRunOf(p, m)
  <2>1. m.fn # NULL
    BY <1>1, NamesNotNull
  <2> HIDE DEF p, m
  <2>2. IInv /\ m.fn # NULL /\ Found(m.fn, Uint32(m.id), p)
    BY <1>1, <1>2, <2>1
  <2>3. \A t, id, q : (IInv /\ t # NULL /\ Found(t, id, q)) =>
           (inst[q].parent_task = t /\ inst[q].serial_id = id)
    BY FoundIsRun
  <2>4. inst[p].parent_task = m.fn /\ inst[p].serial_id = Uint32(m.id)
    BY <2>2, <2>3
  <2>5. QED
    BY <2>4 DEF IsRunOf
<1>4. p \in Started
  <2>1. inst[p].has_finished
    BY DEF ReturnTask, Collect, ResultReady
  <2>2. QED
    BY <1>2, <2>1 DEF RInv, RunInv, RunsKnown, RunKnown, Started
<1>5. /\ proc'.exec = inst[p].src /\ proc'.pc = "res" /\ proc'.cmd = proc.cmd
      /\ UNCHANGED <<received, pending, commandQueue, released, tasks>>
  BY DEF ReturnTask, At, Idle, Collect, boardvars
<1>6. /\ allocated' = allocated \ {p}
      /\ inst' = [inst EXCEPT ![p] = NoInstance]
  BY DEF ReturnTask, Collect, task_instance_destroy
<1> HIDE DEF p, m
<1>7. \A q \in allocated' : q \in allocated /\ q # p /\ inst'[q] = inst[q]
  BY <1>1, <1>6 DEF IInv, TBTypeOK
<1>8. RunsKnown'
  <2>1. ASSUME NEW q \in allocated' PROVE RunKnown(q)'
    <3>1. RunKnown(q) /\ inst'[q] = inst[q]
      BY <1>7 DEF RInv, RunInv, RunsKnown
    <3>2. Foreign' = Foreign
      BY <1>5 DEF Foreign
    <3>3. QED
      BY <1>5, <3>1, <3>2 DEF RunKnown, tboard_find_task_name
  <2>2. QED
    BY <2>1 DEF RunsKnown
<1>9. SourcesOld'
  BY <1>5, <1>7 DEF RInv, RunInv, SourcesOld, Waiting, Queued
<1>10. SourcesDistinct'
  BY <1>7 DEF RInv, RunInv, SourcesDistinct
<1>11. AnswerKnown'
  <2>1. received[proc.cmd].cmd = "GET"
    BY <1>1 DEF RInv, RunInv, AnswerKnown
  <2>2. RunKnown(p)
    BY <1>2 DEF RInv, RunInv, RunsKnown
  <2>3. \A q \in allocated' : inst'[q].src # inst[p].src
    BY <1>2, <1>7 DEF RInv, RunInv, SourcesDistinct
  <2>4. Foreign' = Foreign
    BY <1>5 DEF Foreign
  <2>5. QED
    BY <1>3, <1>5, <2>1, <2>2, <2>3, <2>4 DEF AnswerKnown, RunKnown, IsRunOf, m
<1>12. RunInv'
  BY <1>8, <1>9, <1>10, <1>11 DEF RunInv
<1>13. QED
  BY <1>3, <1>4, <1>5, <1>6, <1>7, <1>12 DEF p, m

(* A request for a result that is refused has no instance; one that is     *)
(* granted waits for an instance that a lookup found.                      *)
LEMMA GetRuns ==
  ASSUME RInv, NEW k \in Command, ProcGet(k)
  PROVE  /\ RunInv' /\ proc'.cmd = k /\ proc'.pc \in {"wait", "err"}
         /\ UNCHANGED tbvars
<1>1. /\ Dequeue(k, "GET") /\ proc'.cmd = k /\ proc'.pc \in {"wait", "err"}
      /\ released \subseteq released' /\ UNCHANGED tbvars
      /\ proc'.pc = "err" =>
           \A q \in Inst : ~Found(received[k].fn, Uint32(received[k].id), q)
  BY DEF ProcGet, FreeThenError, At, Idle, Release
<1>2. /\ k \in 1..Len(received) /\ received[k].cmd = "GET" /\ UNCHANGED received
  BY <1>1, TakenWaited DEF Dequeue
<1>3. IInv /\ allocated \subseteq Inst
  BY DEF RInv, OwnInv, CIInv, IInv, TBTypeOK
<1>4. proc'.pc = "err" => \A p \in allocated : ~IsRunOf(p, received[k])
  <2>1. ASSUME proc'.pc = "err", NEW p \in allocated, IsRunOf(p, received[k])
        PROVE  FALSE
    <3>1. tboard_find_task_name(inst[p].parent_task)
      BY DEF RInv, RunInv, RunsKnown, RunKnown
    <3>2. \E q \in Inst : Found(received[k].fn, Uint32(received[k].id), q)
      BY <1>3, <2>1, <3>1, FoundIfAny DEF IsRunOf
    <3>3. QED
      BY <1>1, <2>1, <3>2
  <2>2. QED
    BY <2>1
<1>5. AnswerKnown'
  <2>1. UNCHANGED <<inst, allocated>>
    BY <1>1 DEF tbvars
  <2>2. QED
    BY <1>1, <1>2, <1>4, <2>1 DEF AnswerKnown, IsRunOf
<1>6. QED
  BY <1>1, <1>5, NoStartKeeps

(* A request that is not known changes nothing but the processing task.    *)
LEMMA UnknownRuns ==
  ASSUME RInv, NEW k \in Command, ProcUnknown(k)
  PROVE  RunInv' /\ proc'.cmd = k /\ proc'.pc = "err" /\ UNCHANGED tbvars
<1>1. /\ Dequeue(k, "OTHER") /\ proc'.cmd = k /\ proc'.pc = "err"
      /\ released' = released /\ UNCHANGED tbvars
  BY DEF ProcUnknown, At, Idle
<1>2. received[k].cmd = "OTHER" /\ UNCHANGED received
  BY <1>1 DEF Dequeue
<1>3. AnswerKnown'
  BY <1>1, <1>2 DEF AnswerKnown
<1>4. QED
  BY <1>1, <1>3, NoStartKeeps

(* A request to execute starts an instance for itself, or nothing.         *)
LEMMA RexecRuns ==
  ASSUME RInv, NEW k \in Command, ProcRexec(k)
  PROVE  /\ RunInv' /\ proc'.cmd = k /\ UNCHANGED received
         /\ \/ UNCHANGED tbvars /\ proc'.pc = "err"
            \/ \E p \in Inst :
                 /\ allocated' = allocated \cup {p} /\ p \notin allocated
                 /\ \A q \in allocated : inst'[q] = inst[q] /\ inst[q].src # k
                 /\ inst'[p].parent_task = received[k].fn /\ inst'[p].src = k
                 /\ IF SetArgsOk(received[k].fn, received[k].sig)
                    THEN proc'.pc = "ack" ELSE proc'.pc = "err"
<1> DEFINE m == received[k]
<1>1. Dequeue(k, "REXEC") /\ UNCHANGED received
  BY DEF ProcRexec, Dequeue
<1>2. CASE \E p \in Inst, w \in Worker \cup {NULL} :
             /\ tboard_start_task(m.fn, Uint32(m.id), m.sig, k, p, w)
             /\ IF SetArgsOk(m.fn, m.sig)
                THEN proc' = At("ack", k) /\ UNCHANGED released
                ELSE FreeThenError(k)
  <2>1. PICK p \in Inst, w \in Worker \cup {NULL} :
             /\ tboard_start_task(m.fn, Uint32(m.id), m.sig, k, p, w)
             /\ IF SetArgsOk(m.fn, m.sig)
                THEN proc' = At("ack", k) /\ UNCHANGED released
                ELSE FreeThenError(k)
    BY <1>2
  <2>2. /\ proc'.cmd = k /\ released \subseteq released'
        /\ IF SetArgsOk(m.fn, m.sig) THEN proc'.pc = "ack" ELSE proc'.pc = "err"
    BY <2>1 DEF FreeThenError, At, Idle, Release
  <2>3. /\ RunInv'
        /\ \A q \in allocated : inst'[q] = inst[q] /\ inst[q].src # k
        /\ allocated' = allocated \cup {p} /\ p \notin allocated
        /\ inst'[p].parent_task = received[k].fn /\ inst'[p].src = k
    BY <1>1, <2>1, <2>2, StartRuns
  <2>4. QED
    BY <1>1, <2>2, <2>3
<1>3. CASE FreeThenError(k) /\ UNCHANGED tbvars
  <2>1. proc'.cmd = k /\ proc'.pc = "err" /\ released \subseteq released'
    BY <1>3 DEF FreeThenError, At, Idle, Release
  <2>2. received'[k].cmd = "REXEC"
    BY <1>1 DEF Dequeue
  <2>3. AnswerKnown'
    BY <2>1, <2>2 DEF AnswerKnown
  <2>4. QED
    BY <1>1, <1>3, <2>1, <2>3, NoStartKeeps
<1>4. QED
  BY <1>2, <1>3 DEF ProcRexec

(* Once a reply was sent, nothing is known of the processing task.         *)
LEMMA SendRuns ==
  ASSUME RInv, SendAck \/ SendResponse \/ SendError
  PROVE  RunInv'
<1>1. /\ UNCHANGED <<tasks, inst, allocated, received, pending, commandQueue>>
      /\ proc'.pc = "idle"
  BY DEF SendAck, SendResponse, SendAckOrResponse, SendError, Idle, tbvars
<1>2. RunsKnown' /\ SourcesOld' /\ SourcesDistinct' /\ AnswerKnown'
  BY <1>1 DEF RInv, RunInv, RunsKnown, RunKnown, SourcesOld, SourcesDistinct,
     AnswerKnown, Foreign, Waiting, Queued, tboard_find_task_name
<1>3. QED
  BY <1>2 DEF RunInv

(* The steps of the data handler, the workers and the registration.        *)
LEMMA QuietSteps ==
  ASSUME RInv, [CNNext]_allvars, ~Processor
  PROVE  /\ SameRuns /\ SameMessages /\ UNCHANGED proc
         /\ \A k \in Waiting' : k \in Waiting \/ k = Len(received) + 1
<1>1. CommandsKnown /\ IInv /\ TBTypeOK /\ commandQueue \in Seq(1..Len(received))
  BY DEF RInv, OwnInv, CIInv, IInv, CommandsKnown
<1>2. CASE \E m \in Message : DataHandler(m)
  <2>1. PICK m \in Message : DataHandler(m)
    BY <1>2
  <2>2. /\ UNCHANGED <<tbvars, commandQueue, proc>> /\ pending = 0
        /\ received' = Append(received, m)
        /\ pending' \in {0, Len(received')}
    BY <2>1 DEF DataHandler
  <2>3. /\ Len(received') = Len(received) + 1
        /\ DOMAIN received \subseteq DOMAIN received'
        /\ \A k \in DOMAIN received : received'[k] = received[k]
    BY <1>1, <2>2, AppendProperties, LenProperties DEF CommandsKnown
  <2>4. SameRuns
    BY <2>2 DEF tbvars, SameRuns, tboard_find_task_name
  <2>5. SameMessages
    BY <2>3 DEF SameMessages, Foreign
  <2>6. QED
    BY <2>2, <2>3, <2>4, <2>5 DEF Waiting, Queued
<1>3. CASE Enqueue
  <2>1. /\ pending \in 1..Len(received) /\ pending' = 0
        /\ commandQueue' = Append(commandQueue, pending)
        /\ UNCHANGED <<tbvars, received, proc>>
    BY <1>1, <1>3, Held DEF Enqueue, QueueSend, CommandsKnown
  <2>2. \A j \in DOMAIN commandQueue' :
           commandQueue'[j] = pending \/ commandQueue'[j] \in Queued
    BY <1>1, <2>1, AppendProperties, LenProperties DEF Queued
  <2>3. SameRuns /\ SameMessages
    BY <2>1 DEF tbvars, SameRuns, SameMessages, Foreign, tboard_find_task_name
  <2>4. QED
    BY <2>1, <2>2, <2>3 DEF Waiting, Queued
<1>4. CASE EnqueueTimeout \/ DataHandlerEmpty \/ UNCHANGED allvars
  <2>1. /\ UNCHANGED <<tbvars, received, commandQueue, proc>>
        /\ pending' \in {0, pending}
    BY <1>4 DEF EnqueueTimeout, DataHandlerEmpty, allvars, cnvars
  <2>2. SameRuns /\ SameMessages
    BY <2>1 DEF tbvars, SameRuns, SameMessages, Foreign, tboard_find_task_name
  <2>3. QED
    BY <2>1, <2>2 DEF Waiting, Queued
<1>5. ASSUME UNCHANGED cnvars, SameRuns
      PROVE  /\ SameMessages /\ UNCHANGED proc
             /\ \A k \in Waiting' : k \in Waiting
  BY <1>5 DEF cnvars, SameMessages, Foreign, Waiting, Queued
<1>6. CASE \E t \in Task : tboard_register_task(t) /\ UNCHANGED cnvars
  BY <1>1, <1>5, <1>6, RegisterSameRuns
<1>7. CASE \E w \in Worker : WorkerStep(w) /\ UNCHANGED cnvars
  BY <1>1, <1>5, <1>7, WorkerSameRuns
<1>8. QED
  BY <1>2, <1>3, <1>4, <1>6, <1>7 DEF CNNext, Handler

(* Every step keeps what is known of the instances and of the answer.      *)
LEMMA RunsInductive ==
  ASSUME RInv, [CNNext]_allvars
  PROVE  RunInv' /\ NoExec'
<1>1. RunInv'
  <2>1. CASE Processor
    BY <2>1, RexecRuns, GetRuns, UnknownRuns, CollectRuns, SendRuns DEF Processor
  <2>2. CASE ~Processor
    BY <2>2, QuietSteps, SameRunsKeep
  <2>3. QED
    BY <2>1, <2>2
<1>2. NoExec'
  <2>1. CASE Processor
    <3>1. CASE \E k \in Command : ProcRexec(k) \/ ProcGet(k) \/ ProcUnknown(k)
      <4>1. PICK k \in Command : ProcRexec(k) \/ ProcGet(k) \/ ProcUnknown(k)
        BY <3>1
      <4>2. \/ proc' \in {At("ack", k), At("err", k)}
            \/ \E p \in Inst : proc' = [At("wait", k) EXCEPT !.instance = p]
        BY <4>1 DEF ProcRexec, ProcGet, ProcUnknown, FreeThenError
      <4>3. QED
        BY <4>2 DEF At, Idle, NoExec
    <3>2. CASE ReturnTask \/ SendAck \/ SendResponse \/ SendError
      BY <3>2, CollectRuns
         DEF SendAck, SendResponse, SendAckOrResponse, SendError, Idle, NoExec
    <3>3. QED
      BY <2>1, <3>1, <3>2 DEF Processor
  <2>2. CASE ~Processor
    BY <2>2, QuietSteps DEF RInv, NoExec
  <2>3. QED
    BY <2>1, <2>2
<1>3. QED
  BY <1>1, <1>2

-----------------------------------------------------------------------------
(* Sequences *)

(* What is behind an element that was put in front.                        *)
LEMMA FrontPut ==
  ASSUME NEW S, NEW s \in Seq(S), NEW k \in S
  PROVE  /\ <<k>> \o s \in Seq(S) /\ <<k>> \o s # <<>>
         /\ Head(<<k>> \o s) = k /\ Tail(<<k>> \o s) = s
<1> DEFINE t == <<k>> \o s
<1>1. <<k>> \in Seq(S) /\ Len(<<k>>) = 1 /\ <<k>>[1] = k
  OBVIOUS
<1>2. /\ t \in Seq(S) /\ Len(t) = 1 + Len(s)
      /\ \A i \in 1..(1 + Len(s)) : t[i] = IF i <= 1 THEN <<k>>[i] ELSE s[i - 1]
  BY <1>1, ConcatProperties
<1>3. Len(s) \in Nat
  BY LenProperties
<1> HIDE DEF t
<1>4. t # <<>> /\ t[1] = k
  BY <1>1, <1>2, <1>3, EmptySeq
<1>5. Head(t) = k
  BY <1>2, <1>4
<1>6. Tail(t) = s
  <2>1. Tail(t) \in Seq(S) /\ Len(Tail(t)) = Len(s)
        /\ \A i \in 1..Len(Tail(t)) : Tail(t)[i] = t[i + 1]
    BY <1>2, <1>3, <1>4, HeadTailProperties
  <2>2. \A i \in 1..Len(s) : Tail(t)[i] = s[i]
    BY <1>2, <1>3, <2>1
  <2>3. QED
    BY <2>1, <2>2, SeqEqual
<1>7. QED
  BY <1>2, <1>4, <1>5, <1>6 DEF t

(* A sequence is its head in front of its tail.                            *)
LEMMA FrontTaken ==
  ASSUME NEW S, NEW s \in Seq(S), s # <<>>
  PROVE  s = <<Head(s)>> \o Tail(s) /\ Tail(s) \in Seq(S) /\ Head(s) \in S
<1>1. /\ Head(s) \in S /\ Tail(s) \in Seq(S) /\ Len(Tail(s)) = Len(s) - 1
      /\ \A i \in 1..Len(Tail(s)) : Tail(s)[i] = s[i + 1]
      /\ Len(s) \in Nat \ {0}
  BY HeadTailProperties, EmptySeq
<1> DEFINE h == Head(s)
           u == Tail(s)
<1>2. h = s[1]
  BY <1>1
<1>3. <<h>> \in Seq(S) /\ Len(<<h>>) = 1 /\ <<h>>[1] = h
  BY <1>1
<1> HIDE DEF h, u
<1>4. /\ <<h>> \o u \in Seq(S) /\ Len(<<h>> \o u) = 1 + Len(u)
      /\ \A i \in 1..(1 + Len(u)) :
            (<<h>> \o u)[i] = IF i <= 1 THEN <<h>>[i] ELSE u[i - 1]
  BY <1>1, <1>3, ConcatProperties DEF u
<1>5. s = <<h>> \o u
  <2>1. Len(s) = Len(<<h>> \o u)
    BY <1>1, <1>4 DEF u
  <2>2. \A i \in 1..Len(s) : s[i] = (<<h>> \o u)[i]
    BY <1>1, <1>2, <1>3, <1>4 DEF u
  <2>3. QED
    BY <1>4, <2>1, <2>2, SeqEqual
<1>6. QED
  BY <1>1, <1>5 DEF h, u

(* What is before an element that was put behind.                          *)
LEMMA BackPut ==
  ASSUME NEW S, NEW s \in Seq(S), NEW k \in S
  PROVE  /\ s \o <<k>> = Append(s, k)
         /\ Len(s \o <<k>>) = Len(s) + 1
         /\ SubSeq(s \o <<k>>, 1, Len(s \o <<k>>) - 1) = s
<1> DEFINE t == Append(s, k)
<1>1. s \o <<k>> = t
  BY AppendIsConcat
<1>2. /\ t \in Seq(S) /\ Len(t) = Len(s) + 1
      /\ \A i \in 1..Len(s) : t[i] = s[i]
      /\ Len(s) \in Nat /\ \A i \in 1..Len(s) : s[i] \in S
  BY AppendProperties, LenProperties
<1> HIDE DEF t
<1>3. SubSeq(t, 1, Len(t) - 1) = s
  <2>1. \A i \in 1..Len(s) : t[i] \in S
    BY <1>2
  <2>2. /\ SubSeq(t, 1, Len(s)) \in Seq(S)
        /\ Len(SubSeq(t, 1, Len(s))) = IF 1 <= Len(s) THEN Len(s) - 1 + 1 ELSE 0
        /\ \A i \in 1..(Len(s) - 1 + 1) : SubSeq(t, 1, Len(s))[i] = t[1 + i - 1]
    BY <1>2, <2>1, SubSeqProperties
  <2>3. \A i \in 1..Len(s) : SubSeq(t, 1, Len(s))[i] = s[i]
    BY <1>2, <2>2
  <2>4. Len(SubSeq(t, 1, Len(s))) = Len(s) /\ Len(t) - 1 = Len(s)
    BY <1>2, <2>2
  <2>5. QED
    BY <2>2, <2>3, <2>4, SeqEqual
<1>4. QED
  BY <1>1, <1>2, <1>3 DEF t

-----------------------------------------------------------------------------
(* The mapping *)

(* What ImplementsRemoteExec maps backlog and answers to.                  *)
Backlog == NonZero(proc.cmd) \o commandQueue \o NonZero(pending)
AnswerOf(r) == [re |-> r.re, kind |-> r.kind, exec |-> r.exec]
Answers == [j \in DOMAIN published |-> AnswerOf(published[j])]

(* The sources of the instances that took their arguments.                 *)
StartedBy == {inst[p].src : p \in Started}

(* The executions whose result may be asked for, case by case.             *)
LEMMA ExecsAre ==
  /\ proc.pc = "ack" => Execs = StartedBy \ {proc.cmd}
  /\ proc.pc = "res" => Execs = StartedBy \cup {proc.exec}
  /\ proc.pc \notin {"ack", "res"} => Execs = StartedBy
BY DEF Execs, StartedBy, Started

(* The pieces of the backlog are sequences of numbers.                     *)
LEMMA BacklogPieces ==
  ASSUME CommandsKnown
  PROVE  /\ commandQueue \in Seq(Nat)
         /\ proc.cmd \in Nat /\ pending \in Nat /\ Len(received) \in Nat
         /\ \A k \in Nat : NonZero(k) \in Seq(Nat)
         /\ NonZero(proc.cmd) \o commandQueue \in Seq(Nat)
         /\ Backlog \in Seq(Nat)
<1>1. Len(received) \in Nat /\ 1..Len(received) \subseteq Nat
  BY Held
<1>2. commandQueue \in Seq(Nat) /\ proc.cmd \in Nat /\ pending \in Nat
  BY <1>1 DEF CommandsKnown
<1>3. \A k \in Nat : NonZero(k) \in Seq(Nat)
  BY DEF NonZero
<1>4. NonZero(proc.cmd) \o commandQueue \in Seq(Nat)
  BY <1>2, <1>3, ConcatProperties
<1>5. Backlog \in Seq(Nat)
  BY <1>2, <1>3, <1>4, ConcatProperties DEF Backlog
<1>6. QED
  BY <1>1, <1>2, <1>3, <1>4, <1>5

(* Without a command that is being queued the backlog has no last piece,   *)
(* and without one that is being answered no first piece.                  *)
BacklogForms ==
  /\ pending = 0 => Backlog = NonZero(proc.cmd) \o commandQueue
  /\ pending # 0 => Backlog = (NonZero(proc.cmd) \o commandQueue) \o <<pending>>
  /\ proc.cmd = 0 => Backlog = commandQueue \o NonZero(pending)
  /\ proc.cmd # 0 => Backlog = <<proc.cmd>> \o (commandQueue \o NonZero(pending))
  /\ commandQueue \o NonZero(pending) \in Seq(Nat)

(* The backlog has these forms, and has them after a step.                 *)
LEMMA BacklogShort == CommandsKnown => BacklogForms
<1> SUFFICES ASSUME CommandsKnown PROVE BacklogForms
  OBVIOUS
<1>1. /\ commandQueue \in Seq(Nat) /\ NonZero(pending) \in Seq(Nat)
      /\ NonZero(proc.cmd) \in Seq(Nat)
      /\ NonZero(proc.cmd) \o commandQueue \in Seq(Nat)
  BY BacklogPieces
<1>2. pending = 0 => Backlog = NonZero(proc.cmd) \o commandQueue
  <2>1. (NonZero(proc.cmd) \o commandQueue) \o <<>> = NonZero(proc.cmd) \o commandQueue
    BY <1>1, ConcatEmptySeq
  <2>2. pending = 0 => NonZero(pending) = <<>>
    BY DEF NonZero
  <2>3. QED
    BY <2>1, <2>2 DEF Backlog
<1>3. pending # 0 => Backlog = (NonZero(proc.cmd) \o commandQueue) \o <<pending>>
  <2>1. pending # 0 => NonZero(pending) = <<pending>>
    BY DEF NonZero
  <2>2. QED
    BY <2>1 DEF Backlog
<1>4. proc.cmd = 0 => Backlog = commandQueue \o NonZero(pending)
  <2>1. <<>> \o commandQueue = commandQueue
    BY <1>1, ConcatEmptySeq
  <2>2. proc.cmd = 0 => NonZero(proc.cmd) = <<>>
    BY DEF NonZero
  <2>3. QED
    BY <2>1, <2>2 DEF Backlog
<1>5. proc.cmd # 0 => Backlog = <<proc.cmd>> \o (commandQueue \o NonZero(pending))
  <2>1. Backlog = NonZero(proc.cmd) \o (commandQueue \o NonZero(pending))
    BY <1>1, ConcatAssociative DEF Backlog
  <2>2. proc.cmd # 0 => NonZero(proc.cmd) = <<proc.cmd>>
    BY DEF NonZero
  <2>3. QED
    BY <2>1, <2>2
<1>6. commandQueue \o NonZero(pending) \in Seq(Nat)
  BY <1>1, ConcatProperties
<1>7. QED
  BY <1>2, <1>3, <1>4, <1>5, <1>6 DEF BacklogForms

(* The same of the state after a step.                                     *)
LEMMA BacklogShortNext == CommandsKnown' => BacklogForms'
  BY BacklogShort, PTL

-----------------------------------------------------------------------------
(* Steps that RemoteExec does not see *)

(* Without a start or a collection the executions stay.                    *)
LEMMA ExecsKept ==
  ASSUME RInv, SameRuns, SameMessages, UNCHANGED proc
  PROVE  Execs' = Execs
<1>1. Started' = Started
  BY DEF Started, SameRuns, SameMessages, RInv, RunInv, RunsKnown, RunKnown, Foreign
<1>2. \A p \in Started : inst'[p].src = inst[p].src
  BY DEF Started, SameRuns
<1>3. StartedBy' = StartedBy
  BY <1>1, <1>2 DEF StartedBy
<1>4. QED
  BY <1>3, ExecsAre DEF Execs, StartedBy, Started

(* The command that is queued goes from behind the queue to its end.       *)
LEMMA EnqueueHidden ==
  ASSUME RInv, RInv', Enqueue
  PROVE  Backlog' = Backlog
<1>1. /\ CommandsKnown /\ CommandsKnown' /\ pending # 0 /\ pending' = 0
      /\ commandQueue' = Append(commandQueue, pending) /\ UNCHANGED proc
  BY DEF RInv, OwnInv, CIInv, Enqueue, QueueSend
<1> DEFINE X == NonZero(proc.cmd)
<1>2. /\ commandQueue \in Seq(Nat) /\ X \in Seq(Nat) /\ pending \in Nat
      /\ <<pending>> \in Seq(Nat)
  BY <1>1, BacklogPieces
<1>3. Backlog = (X \o commandQueue) \o <<pending>>
  BY <1>1, BacklogShort DEF BacklogForms
<1>4. Backlog' = X \o commandQueue'
  BY <1>1, BacklogShortNext DEF BacklogForms
<1> HIDE DEF X
<1>5. commandQueue' = commandQueue \o <<pending>>
  BY <1>1, <1>2, BackPut
<1>6. X \o (commandQueue \o <<pending>>) = (X \o commandQueue) \o <<pending>>
  BY <1>2, ConcatAssociative
<1>7. QED
  BY <1>3, <1>4, <1>5, <1>6

(* The command that is taken goes from the head of the queue before it.    *)
LEMMA TakeHidden ==
  ASSUME RInv, RInv', NEW k, NEW c, Dequeue(k, c), proc'.cmd = k
  PROVE  Backlog' = Backlog
<1>1. /\ CommandsKnown /\ CommandsKnown' /\ proc.cmd = 0 /\ commandQueue # <<>>
      /\ k = Head(commandQueue) /\ commandQueue' = Tail(commandQueue)
      /\ UNCHANGED pending
  BY DEF RInv, OwnInv, CIInv, OldestFirst, Dequeue
<1> DEFINE Z == NonZero(pending)
<1>2. commandQueue \in Seq(Nat) /\ Z \in Seq(Nat)
  BY <1>1, BacklogPieces
<1>3. Backlog = commandQueue \o Z
  BY <1>1, BacklogShort DEF BacklogForms
<1>4. k # 0
  BY <1>1, HeadTailProperties DEF CommandsKnown
<1>5. Backlog' = <<k>> \o (commandQueue' \o Z)
  BY <1>1, <1>4, BacklogShortNext DEF BacklogForms
<1> HIDE DEF Z
<1>6. /\ commandQueue = <<k>> \o Tail(commandQueue)
      /\ <<k>> \in Seq(Nat) /\ Tail(commandQueue) \in Seq(Nat)
  BY <1>1, <1>2, FrontTaken
<1>7. (<<k>> \o Tail(commandQueue)) \o Z = <<k>> \o (Tail(commandQueue) \o Z)
  BY <1>2, <1>6, ConcatAssociative
<1>8. QED
  BY <1>1, <1>3, <1>5, <1>6, <1>7

(* The executions after a step, case by case.                              *)
LEMMA ExecsAreNext ==
  /\ proc'.pc = "ack" => Execs' = StartedBy' \ {proc'.cmd}
  /\ proc'.pc = "res" => Execs' = StartedBy' \cup {proc'.exec}
  /\ proc'.pc \notin {"ack", "res"} => Execs' = StartedBy'
BY DEF Execs, StartedBy, Started

(* An execution that is not acknowledged yet cannot be asked for.          *)
LEMMA RexecHidden ==
  ASSUME RInv, RInv', NEW k \in Command, ProcRexec(k)
  PROVE  Execs' = Execs
<1>1. proc.pc = "idle" /\ proc'.cmd = k /\ UNCHANGED received
  BY RexecRuns DEF ProcRexec, Dequeue
<1>2. Execs = StartedBy
  BY <1>1, ExecsAre
<1>3. CASE UNCHANGED tbvars /\ proc'.pc = "err"
  BY <1>1, <1>2, <1>3, ExecsAreNext DEF StartedBy, Started, tbvars
<1>4. ASSUME NEW p \in Inst,
             allocated' = allocated \cup {p}, p \notin allocated,
             \A q \in allocated : inst'[q] = inst[q] /\ inst[q].src # k,
             inst'[p].parent_task = received[k].fn, inst'[p].src = k,
             IF SetArgsOk(received[k].fn, received[k].sig)
             THEN proc'.pc = "ack" ELSE proc'.pc = "err"
      PROVE  Execs' = Execs
  <2>1. Started' = Started \cup (IF SetArgsOk(received[k].fn, received[k].sig)
                                 THEN {p} ELSE {})
    BY <1>1, <1>4 DEF Started
  <2>2. \A q \in Started : inst'[q].src = inst[q].src /\ inst[q].src # k
    BY <1>4 DEF Started
  <2>3. StartedBy' = StartedBy \cup (IF SetArgsOk(received[k].fn, received[k].sig)
                                     THEN {k} ELSE {})
    BY <1>4, <2>1, <2>2 DEF StartedBy
  <2>4. k \notin StartedBy
    BY <2>2 DEF StartedBy
  <2>5. QED
    BY <1>1, <1>2, <1>4, <2>3, <2>4, ExecsAreNext
<1>5. QED
  BY <1>3, <1>4, RexecRuns

(* The instance whose result is taken is gone, but the result is still     *)
(* owed.                                                                   *)
LEMMA ReturnHidden ==
  ASSUME RInv, RInv', ReturnTask
  PROVE  Backlog' = Backlog /\ Execs' = Execs
<1> DEFINE p == proc.instance
<1>1. /\ p \in Started /\ allocated' = allocated \ {p}
      /\ \A q \in allocated' : inst'[q] = inst[q]
      /\ proc'.exec = inst[p].src /\ proc'.pc = "res" /\ proc'.cmd = proc.cmd
  BY CollectRuns
<1>2. proc.pc = "wait" /\ UNCHANGED <<received, pending, commandQueue>>
  BY DEF ReturnTask
<1>3. Backlog' = Backlog
  BY <1>1, <1>2 DEF Backlog, NonZero
<1> HIDE DEF p
<1>4. Started' = Started \ {p} /\ \A q \in Started' : inst'[q].src = inst[q].src
  BY <1>1, <1>2 DEF Started
<1>5. StartedBy = StartedBy' \cup {inst[p].src}
  BY <1>1, <1>4 DEF StartedBy
<1>6. QED
  BY <1>1, <1>2, <1>3, <1>5, ExecsAre, ExecsAreNext

-----------------------------------------------------------------------------
(* Steps of RemoteExec *)

(* A message from another node is submitted.                               *)
LEMMA SubmitStep ==
  ASSUME RInv, RInv', NEW m \in Message, DataHandler(m)
  PROVE  RE!Submit(m)
<1>1. /\ CommandsKnown /\ CommandsKnown' /\ m \in AnyMessage /\ pending = 0
      /\ received' = Append(received, m)
      /\ pending' = IF IsOwnMessage(m) THEN 0 ELSE Len(received')
      /\ UNCHANGED <<tbvars, commandQueue, proc, published>>
  BY MessageAssumption DEF RInv, OwnInv, CIInv, DataHandler
<1>2. IsOwnMessage(m) <=> OwnKey(m)
  BY <1>1 DEF IsOwnMessage, OwnKey, AnyMessage, Key
<1>3. Len(received') = Len(received) + 1 /\ Len(received) \in Nat
  BY <1>1, AppendProperties, LenProperties DEF CommandsKnown
<1> DEFINE X == NonZero(proc.cmd) \o commandQueue
<1>4. X \in Seq(Nat) /\ Len(received') \in Nat
  BY <1>1, <1>3, BacklogPieces
<1>5. Backlog = X
  BY <1>1, BacklogShort DEF BacklogForms
<1>6. Backlog' = IF OwnKey(m) THEN Backlog ELSE Append(Backlog, Len(received'))
  <2>1. CASE OwnKey(m)
    BY <1>1, <1>2, <1>5, <2>1, BacklogShortNext DEF BacklogForms
  <2>2. CASE ~OwnKey(m)
    <3>1. pending' = Len(received') /\ pending' # 0
      BY <1>1, <1>2, <1>3, <2>2
    <3>2. Backlog' = X \o <<Len(received')>>
      BY <1>1, <3>1, BacklogShortNext DEF BacklogForms
    <3> HIDE DEF X
    <3>3. QED
      BY <1>4, <1>5, <2>2, <3>2, BackPut
  <2>3. QED
    BY <2>1, <2>2
<1>7. Execs' = Execs
  <2>1. DataHandler(m) => [CNNext]_allvars /\ ~Processor
    <3>1. ASSUME Processor PROVE received' = received
      BY <3>1 DEF Processor, ProcRexec, ProcGet, ProcUnknown, Dequeue, ReturnTask,
         SendAck, SendResponse, SendAckOrResponse, SendError
    <3>2. QED
      BY <1>1, <1>3, <3>1 DEF CNNext
  <2>2. QED
    BY <2>1, QuietSteps, ExecsKept
<1>8. Answers' = Answers
  BY <1>1 DEF Answers
<1>9. QED
  BY <1>1, <1>6, <1>7, <1>8 DEF RE!Submit, Backlog, Answers, AnswerOf

(* The command that found the queue full is turned away: with it, the      *)
(* backlog is longer than the queue.                                       *)
LEMMA TurnAwayStep ==
  ASSUME RInv, RInv', EnqueueTimeout
  PROVE  RE!TurnAway
<1>1. /\ CommandsKnown /\ CommandsKnown' /\ pending # 0 /\ pending' = 0
      /\ Len(commandQueue) >= QUEUE_LENGTH
      /\ UNCHANGED <<tbvars, received, commandQueue, proc, published>>
  BY DEF RInv, OwnInv, CIInv, EnqueueTimeout, QueueFull
<1> DEFINE N == NonZero(proc.cmd)
           X == N \o commandQueue
<1>2. /\ X \in Seq(Nat) /\ pending \in Nat /\ N \in Seq(Nat)
      /\ commandQueue \in Seq(Nat)
  BY <1>1, BacklogPieces
<1>3. Backlog = X \o <<pending>>
  BY <1>1, BacklogShort DEF BacklogForms
<1>4. Backlog' = X
  BY <1>1, BacklogShortNext DEF BacklogForms
<1> HIDE DEF N
<1>5. Len(X) = Len(N) + Len(commandQueue) /\ Len(N) \in Nat /\ Len(commandQueue) \in Nat
  BY <1>2, ConcatProperties, LenProperties
<1> HIDE DEF X
<1>6. Len(Backlog) = Len(X) + 1 /\ SubSeq(Backlog, 1, Len(Backlog) - 1) = X
  BY <1>2, <1>3, BackPut
<1>7. Len(Backlog) > QUEUE_LENGTH
  BY <1>1, <1>5, <1>6, QueueAssumption
<1>8. Execs' = Execs
  BY <1>1 DEF Execs, tbvars
<1>9. Answers' = Answers
  BY <1>1 DEF Answers
<1>10. QED
  BY <1>1, <1>4, <1>6, <1>7, <1>8, <1>9 DEF RE!TurnAway, Backlog, Answers, AnswerOf

(* A reply that is published is one more answer.                           *)
LEMMA AnswerAdded ==
  ASSUME published \in Seq(Reply), NEW r \in Reply, published' = Append(published, r)
  PROVE  Answers' = Append(Answers, AnswerOf(r))
<1> DEFINE n == Len(published)
           A == {AnswerOf(x) : x \in Reply}
<1>1. /\ published' \in Seq(Reply) /\ Len(published') = n + 1 /\ n \in Nat
      /\ DOMAIN published = 1..n /\ DOMAIN published' = 1..(n + 1)
      /\ \A j \in 1..n : published'[j] = published[j]
      /\ published'[n + 1] = r
      /\ \A j \in 1..n : published[j] \in Reply
  BY AppendProperties, LenProperties
<1> HIDE DEF n
<1>2. /\ Answers = [j \in 1..n |-> AnswerOf(published[j])]
      /\ Answers' = [j \in 1..(n + 1) |-> AnswerOf(published'[j])]
  BY <1>1 DEF Answers, AnswerOf
<1>3. AnswerOf(r) \in A /\ \A j \in 1..n : AnswerOf(published[j]) \in A
  BY <1>1
<1> HIDE DEF A
<1>4. Answers \in Seq(A) /\ Len(Answers) = n
  BY <1>1, <1>2, <1>3
<1>5. /\ Append(Answers, AnswerOf(r)) \in Seq(A)
      /\ Len(Append(Answers, AnswerOf(r))) = n + 1
      /\ \A i \in 1..n : Append(Answers, AnswerOf(r))[i] = Answers[i]
      /\ Append(Answers, AnswerOf(r))[n + 1] = AnswerOf(r)
  BY <1>3, <1>4, AppendProperties
<1>6. \A i \in 1..(n + 1) : Answers'[i] = Append(Answers, AnswerOf(r))[i]
  BY <1>1, <1>2, <1>5
<1>7. Answers' \in Seq(A) /\ Len(Answers') = n + 1
  BY <1>1, <1>2, <1>3
<1>8. QED
  BY <1>1, <1>5, <1>6, <1>7, SeqEqual

(* A reply answers the oldest command of the backlog.                      *)
LEMMA AnswerStep ==
  ASSUME RInv, RInv', NEW kind \in {"ACK", "RES", "ERR"}, Send(kind),
         proc.pc # "idle", proc' = Idle, NEW c, c = proc.cmd, NEW e, e = proc.exec,
         UNCHANGED <<tbvars, received, pending, commandQueue>>
  PROVE  /\ RE!Answer(c, kind, e)
         /\ proc.cmd \in 1..Len(received) /\ proc.cmd \in Foreign
         /\ Execs' = StartedBy
<1>1. /\ CommandsKnown /\ CommandsKnown' /\ proc.cmd # 0 /\ proc'.cmd = 0
      /\ proc'.pc = "idle" /\ published \in Seq(Reply) /\ proc \in ProcRec
  BY DEF RInv, OwnInv, CIInv, CommandsKnown, Idle, CNTypeOK
<1>2. proc.cmd \in 1..Len(received) /\ proc.cmd \in Command /\ proc.cmd \in Foreign
  <2>1. proc.cmd \in 1..Len(received) /\ 1..Len(received) \subseteq Command
    BY <1>1, Held DEF CommandsKnown
  <2>2. QED
    BY <1>1, <2>1 DEF RInv, OwnInv, InFlight
<1> DEFINE Z == commandQueue \o NonZero(pending)
<1>3. /\ Backlog = <<proc.cmd>> \o Z /\ Z \in Seq(Nat) /\ proc.cmd \in Nat
      /\ Backlog' = Z
  BY <1>1, BacklogShort, BacklogShortNext, BacklogPieces DEF BacklogForms
<1> HIDE DEF Z
<1>4. Backlog # <<>> /\ proc.cmd = Head(Backlog) /\ Backlog' = Tail(Backlog)
  BY <1>3, FrontPut
<1>5. Answers' \in {Answers,
                    Append(Answers, [re |-> proc.cmd, kind |-> kind, exec |-> proc.exec])}
  <2> DEFINE r == [re |-> proc.cmd, kind |-> kind,
                   exec |-> proc.exec, val |-> proc.val]
  <2>1. /\ r \in Reply
        /\ AnswerOf(r) = [re |-> proc.cmd, kind |-> kind, exec |-> proc.exec]
    BY <1>1, <1>2 DEF Reply, ProcRec, AnswerOf
  <2>2. published' \in {published, Append(published, r)}
    BY DEF Send
  <2> HIDE DEF r
  <2>3. CASE published' = published
    BY <2>3 DEF Answers
  <2>4. CASE published' = Append(published, r)
    BY <1>1, <2>1, <2>4, AnswerAdded
  <2>5. QED
    BY <2>2, <2>3, <2>4
<1>6. StartedBy' = StartedBy
  BY DEF StartedBy, Started, tbvars
<1>7. Execs' = StartedBy
  BY <1>1, <1>6, ExecsAreNext
<1>8. RE!Answer(c, kind, e)
  BY <1>4, <1>5 DEF RE!Answer, Backlog, Answers, AnswerOf
<1>9. QED
  BY <1>2, <1>7, <1>8

(* An acknowledgement accepts the execution it is about.                   *)
LEMMA AcceptStep ==
  ASSUME RInv, RInv', SendAck
  PROVE  \E k \in 1..Len(received) : RE!Accept(k)
<1>1. /\ proc.pc = "ack" /\ Send("ACK") /\ proc' = Idle /\ proc.exec = NULL
      /\ UNCHANGED <<tbvars, received, pending, commandQueue>>
  BY DEF SendAck, SendAckOrResponse, RInv, NoExec
<1> PICK k : k = proc.cmd
  OBVIOUS
<1>2. RE!Answer(k, "ACK", NULL) /\ k \in 1..Len(received) /\ Execs' = StartedBy
  BY <1>1, AnswerStep
<1>3. received[k].cmd = "REXEC" /\ k \in StartedBy
  BY <1>1 DEF RInv, RunInv, AnswerKnown, StartedBy
<1>4. Execs' = Execs \cup {k}
  BY <1>1, <1>2, <1>3, ExecsAre
<1>5. RE!Accept(k)
  BY <1>2, <1>3, <1>4 DEF RE!Accept
<1>6. QED
  BY <1>2, <1>5

(* A result is the one of an execution that the request may ask for, and   *)
(* it leaves once.                                                         *)
LEMMA ReturnStep ==
  ASSUME IdsDistinct, RInv, RInv', SendResponse
  PROVE  \E k \in 1..Len(received) : \E e \in Execs : RE!Return(k, e)
<1>1. /\ proc.pc = "res" /\ Send("RES") /\ proc' = Idle /\ CommandsKnown
      /\ UNCHANGED <<tbvars, received, pending, commandQueue>>
  BY DEF SendResponse, SendAckOrResponse, RInv, OwnInv, CIInv
<1> PICK k, e : k = proc.cmd /\ e = proc.exec
  OBVIOUS
<1>2. RE!Answer(k, "RES", e) /\ k \in 1..Len(received) /\ Execs' = StartedBy
  BY <1>1, AnswerStep
<1>3. /\ received[k].cmd = "GET" /\ e \in Foreign
      /\ received[e].fn = received[k].fn
      /\ Uint32(received[e].id) = Uint32(received[k].id)
      /\ \A p \in allocated : inst[p].src # e
  BY <1>1 DEF RInv, RunInv, AnswerKnown
<1>4. received[e].id = received[k].id
  <2>1. e \in 1..Len(received)
    BY <1>1, <1>3, Held
  <2>2. received[e].id \in TaskId /\ received[k].id \in TaskId
    BY <1>1, <1>2, <2>1, NamesNotNull
  <2>3. QED
    BY <1>3, <2>2 DEF IdsDistinct
<1>5. Execs = StartedBy \cup {e} /\ e \notin StartedBy
  <2>1. e \notin StartedBy
    BY <1>3 DEF StartedBy, Started
  <2>2. QED
    BY <1>1, <2>1, ExecsAre
<1>6. Execs' = Execs \ {e} /\ e \in Execs
  BY <1>2, <1>5
<1>7. RE!Matches(e, k)
  BY <1>3, <1>4 DEF RE!Matches
<1>8. RE!Return(k, e)
  BY <1>2, <1>3, <1>6, <1>7 DEF RE!Return
<1>9. QED
  BY <1>2, <1>6, <1>8

(* An error leaves the executions alone; if it answers a request for a     *)
(* result, there is none that the request could mean.                      *)
LEMMA RefuseStep ==
  ASSUME RInv, RInv', SendError
  PROVE  \E k \in 1..Len(received) : RE!Refuse(k)
<1>1. /\ proc.pc = "err" /\ Send("ERR") /\ proc' = Idle /\ proc.exec = NULL
      /\ UNCHANGED <<tbvars, received, pending, commandQueue>>
  BY DEF SendError, RInv, NoExec
<1> PICK k : k = proc.cmd
  OBVIOUS
<1>2. RE!Answer(k, "ERR", NULL) /\ k \in 1..Len(received) /\ Execs' = StartedBy
  BY <1>1, AnswerStep
<1>3. Execs = StartedBy
  BY <1>1, ExecsAre
<1>4. ASSUME received[k].cmd = "GET", NEW e \in Execs
      PROVE  ~RE!Matches(e, k)
  <2>1. PICK p \in allocated : inst[p].src = e
    BY <1>3, <1>4 DEF StartedBy, Started
  <2>2. inst[p].parent_task = received[e].fn /\ inst[p].serial_id = Uint32(received[e].id)
    BY <2>1 DEF RInv, RunInv, RunsKnown, RunKnown
  <2>3. ~IsRunOf(p, received[k])
    BY <1>1, <1>4, <2>1 DEF RInv, RunInv, AnswerKnown
  <2>4. QED
    BY <2>2, <2>3 DEF IsRunOf, RE!Matches
<1>5. RE!Refuse(k)
  BY <1>2, <1>3, <1>4 DEF RE!Refuse
<1>6. QED
  BY <1>2, <1>5

-----------------------------------------------------------------------------
(* The theorem *)

(* Every step of a cnode is a step of RemoteExec, or one it does not see.  *)
LEMMA StepRefines ==
  ASSUME IdsDistinct, RInv, RInv', [CNNext]_allvars
  PROVE  [RE!Next]_(<<received, Backlog, Execs, Answers>>)
<1>1. CASE \E m \in Message : DataHandler(m)
  BY <1>1, SubmitStep DEF RE!Next
<1>2. CASE EnqueueTimeout
  BY <1>2, TurnAwayStep DEF RE!Next
<1>3. CASE SendAck
  BY <1>3, AcceptStep DEF RE!Next
<1>4. CASE SendResponse
  BY <1>4, ReturnStep DEF RE!Next
<1>5. CASE SendError
  BY <1>5, RefuseStep DEF RE!Next
<1>6. CASE \E k \in Command : ProcRexec(k) \/ ProcGet(k) \/ ProcUnknown(k)
  <2>1. PICK k \in Command : ProcRexec(k) \/ ProcGet(k) \/ ProcUnknown(k)
    BY <1>6
  <2>2. PICK c \in {"REXEC", "GET", "OTHER"} : Dequeue(k, c)
    BY <2>1 DEF ProcRexec, ProcGet, ProcUnknown
  <2>3. proc'.cmd = k
    BY <2>1, RexecRuns, GetRuns, UnknownRuns
  <2>4. Backlog' = Backlog
    BY <2>2, <2>3, TakeHidden
  <2>5. received' = received /\ published' = published /\ proc.pc = "idle"
    BY <2>2 DEF Dequeue
  <2>6. Execs' = Execs
    <3>1. CASE ProcRexec(k)
      BY <3>1, RexecHidden
    <3>2. CASE ProcGet(k) \/ ProcUnknown(k)
      <4>1. UNCHANGED tbvars /\ proc'.pc \in {"wait", "err"}
        BY <3>2, GetRuns, UnknownRuns
      <4>2. StartedBy' = StartedBy
        BY <2>5, <4>1 DEF StartedBy, Started, tbvars
      <4>3. QED
        BY <2>5, <4>1, <4>2, ExecsAre, ExecsAreNext
    <3>3. QED
      BY <2>1, <3>1, <3>2
  <2>7. Answers' = Answers
    BY <2>5 DEF Answers
  <2>8. QED
    BY <2>4, <2>5, <2>6, <2>7
<1>7. CASE ReturnTask
  <2>1. received' = received /\ published' = published
    BY <1>7 DEF ReturnTask
  <2>2. QED
    BY <1>7, <2>1, ReturnHidden DEF Answers
<1>8. CASE Enqueue
  <2>1. received' = received /\ published' = published /\ UNCHANGED <<tbvars, proc>>
    BY <1>8 DEF Enqueue
  <2>2. Execs' = Execs
    BY <2>1 DEF Execs, tbvars
  <2>3. QED
    BY <1>8, <2>1, <2>2, EnqueueHidden DEF Answers
<1>9. CASE DataHandlerEmpty \/ UNCHANGED allvars
  <2>1. UNCHANGED <<tbvars, received, pending, commandQueue, proc, published>>
    BY <1>9 DEF DataHandlerEmpty, allvars, cnvars
  <2>2. QED
    BY <2>1 DEF Execs, Answers, Backlog, NonZero, tbvars
<1>10. CASE /\ UNCHANGED cnvars
            /\ \/ \E t \in Task : tboard_register_task(t)
               \/ \E w \in Worker : WorkerStep(w)
  <2>1. UNCHANGED <<received, pending, commandQueue, proc, published>>
    BY <1>10 DEF cnvars
  <2>2. SameRuns
    BY <1>10, RegisterSameRuns, WorkerSameRuns DEF RInv, OwnInv, CIInv, IInv
  <2>3. SameMessages
    BY <2>1 DEF SameMessages, Foreign
  <2>4. Execs' = Execs
    BY <2>1, <2>2, <2>3, ExecsKept
  <2>5. QED
    BY <2>1, <2>4 DEF Answers, Backlog, NonZero
<1>11. QED
  BY <1>1, <1>2, <1>3, <1>4, <1>5, <1>6, <1>7, <1>8, <1>9, <1>10
     DEF CNNext, Handler, Processor

(* A cnode starts in RemoteExec's initial state, and its runs are known.   *)
LEMMA InitRefines == CNInit => RInv /\ RE!Init
<1> SUFFICES ASSUME CNInit PROVE RInv /\ RE!Init
  OBVIOUS
<1>1. OwnInv /\ CNTypeOK
  BY InitOwn
<1>2. /\ received = <<>> /\ pending = 0 /\ commandQueue = <<>> /\ proc = Idle
      /\ published = <<>> /\ allocated = {}
  BY DEF CNInit, TBInit
<1>3. RunInv /\ NoExec
  BY <1>2 DEF RunInv, RunsKnown, SourcesOld, SourcesDistinct, AnswerKnown, NoExec, Idle
<1>4. Execs = {}
  BY <1>2, ExecsAre DEF StartedBy, Started, Idle
<1>5. Answers = <<>>
  BY <1>2 DEF Answers
<1>6. Backlog = <<>>
  BY <1>1, <1>2, BacklogShort, ConcatEmptySeq, EmptySeq
     DEF BacklogForms, NonZero, Idle, OwnInv, CIInv
<1>7. RInv
  BY <1>1, <1>3 DEF RInv
<1>8. RE!Init
  BY <1>2, <1>4, <1>5, <1>6 DEF RE!Init, Backlog, Answers, AnswerOf
<1>9. QED
  BY <1>7, <1>8

(* The invariant the refinement rests on: every instance is the run of a   *)
(* message that waits no longer, and the processing task's answer is true. *)
THEOREM RunsInvariant == CNSpec => []RInv
<1>1. RInv /\ [CNNext]_allvars => RInv'
  <2> SUFFICES ASSUME RInv, [CNNext]_allvars PROVE RInv'
    OBVIOUS
  <2>1. OwnInv' /\ CNTypeOK'
    BY OwnInductive, TypesKept DEF RInv
  <2>2. QED
    BY <2>1, RunsInductive DEF RInv
<1>2. QED
  BY InitRefines, <1>1, PTL DEF CNSpec

(* The handler, the queue, the processing task and the workers keep what   *)
(* RemoteExec promises, as long as the narrowing keeps task ids apart.     *)
THEOREM Refinement ==
  ASSUME IdsDistinct
  PROVE  CNSpec => ImplementsRemoteExec
<1>1. RInv /\ RInv' /\ [CNNext]_allvars => [RE!Next]_(RE!vars)
  <2> SUFFICES ASSUME RInv, RInv', [CNNext]_allvars PROVE [RE!Next]_(RE!vars)
    OBVIOUS
  <2>1. [RE!Next]_(<<received, Backlog, Execs, Answers>>)
    BY StepRefines
  <2>2. QED
    BY <2>1 DEF RE!vars, Backlog, Answers, AnswerOf
<1>2. QED
  BY InitRefines, RunsInvariant, <1>1, PTL DEF CNSpec, ImplementsRemoteExec, RE!Spec

(* Ids of fewer bits than the board keeps are not narrowed.                *)
LEMMA SmallIdsDistinct == TaskId \subseteq 0..(UINT32 - 1) => IdsDistinct
  BY SizesAssumption DEF IdsDistinct, Uint32
=============================================================================
