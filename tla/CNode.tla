------------------------------- MODULE CNode -------------------------------
(***************************************************************************)
(* A started cnode (src/src/cnode.c): the Zenoh read task that runs        *)
(* _cnode_data_handler, the bounded command queue, the one task that runs  *)
(* cnode_cmd_processing_task, and the task board they work on.             *)
(*                                                                         *)
(* A command_t is named by the position of its message in `received`: the  *)
(* number stands for the pointer, and `released` holds those that went     *)
(* through command_free.                                                   *)
(***************************************************************************)
EXTENDS TaskBoard, Sequences

CONSTANTS
  TaskId,        \* task ids that messages carry (uint64_t)
  Unregistered,  \* function names that no task has
  Message,       \* the messages a run considers
  ByRef,         \* signatures whose arguments point into the command
  QUEUE_LENGTH,
  MaxReceived    \* bound: messages in a behaviour

ASSUME QueueAssumption ==
  /\ QUEUE_LENGTH \in Nat \ {0}
  /\ MaxReceived \in Nat
  /\ Source = 1..MaxReceived
  /\ \A id \in TaskId : id % UINT32 \in Serial
  /\ ByRef \subseteq Sig
  /\ NULL \notin Unregistered

VARIABLES
  received,          \* messages the read task was given
  message_received,  \* cnode_t.message_received
  pending,           \* the command the data handler is queueing, or 0
  commandQueue,      \* cnode_t.commandQueue
  released,          \* commands that were freed
  proc,              \* the processing task: program counter and locals
  published          \* replies that left on app/replies/up

cnvars  == <<received, message_received, pending, commandQueue, released, proc,
             published>>
allvars == <<tbvars, cnvars>>

(* Keys of CNODE_SUB_KEYEXPR: the publishers' own, one of another node     *)
(* that begins like them, and the rest.                                    *)
Key == {"app/replies/up", "app/requests/up", "app/requests/upstream",
        "app/requests/down"}

(* cmd: CMD_REXEC, CMD_GET_REXEC_RES, any other.  sig: the types of the    *)
(* decoded arguments, NULL when there are none.                            *)
AnyMessage ==
  [key : Key, cmd : {"REXEC", "GET", "OTHER"},
   fn : Task \cup Unregistered, id : TaskId, sig : Sig \cup {NULL}]

ASSUME MessageAssumption == Message \subseteq AnyMessage

Command == 1..MaxReceived

(* A reply: the command it answers, and for a result the execution it      *)
(* comes from (ghost) and the value.                                       *)
Reply == [re : Command, kind : {"ACK", "RES", "ERR"},
          exec : Source \cup {NULL}, val : Value]

(* Where cnode_cmd_processing_task is; instance is task_instance, the rest *)
(* is what goes into the reply.                                            *)
ProcRec == [pc : {"idle", "wait", "ack", "res", "err"}, cmd : Command \cup {0},
            instance : Inst \cup {NULL},
            exec : Source \cup {NULL}, val : Value]
Idle == [pc |-> "idle", cmd |-> 0, instance |-> NULL, exec |-> NULL,
         val |-> NULL]

Uint32(id) == id % UINT32

CNInit ==
  /\ TBInit
  /\ received = <<>>
  /\ message_received = FALSE
  /\ pending = 0
  /\ commandQueue = <<>>
  /\ released = {}
  /\ proc = Idle
  /\ published = <<>>

-----------------------------------------------------------------------------
(* _cnode_data_handler, run by the Zenoh read task, one message at a time *)

(* Mutant: only replies are taken for the node's own.                      *)
IsOwnReply(m) == m.key = "app/replies/up"

(* strncmp compares no more of a key than the publisher's own has: every   *)
(* key that begins with one of them is taken for it.                       *)
IsOwnMessage(m) ==
  m.key \in {"app/replies/up", "app/requests/up", "app/requests/upstream"}

(* A message arrives and is decoded, unless it is taken for the node's     *)
(* own.  Whatever the payload, the decoder makes a command of it: one that *)
(* has no cmd field is a command 0, and unknown.                           *)
DataHandler(m) ==
  /\ pending = 0
  /\ Len(received) < MaxReceived
  /\ received' = Append(received, m)
  /\ IF IsOwnMessage(m)
     THEN UNCHANGED <<pending, message_received>>
     ELSE /\ pending' = Len(received')
          /\ message_received' = TRUE
  /\ UNCHANGED <<tbvars, commandQueue, released, proc, published>>

(* An empty payload: the only one that no command is made of.              *)
DataHandlerEmpty ==
  /\ pending = 0
  /\ message_received' = TRUE
  /\ UNCHANGED <<tbvars, received, pending, commandQueue, released, proc,
                 published>>

(* Mutant: the queue takes any number of commands.                         *)
QueueNeverFull == FALSE

QueueFull == Len(commandQueue) >= QUEUE_LENGTH

(* Mutant: the command goes to the front of the queue.                     *)
QueueSendToFront(q, k) == <<k>> \o q

QueueSend(q, k) == Append(q, k)

Enqueue ==
  /\ pending # 0
  /\ ~QueueFull
  /\ commandQueue' = QueueSend(commandQueue, pending)
  /\ pending' = 0
  /\ UNCHANGED <<tbvars, received, message_received, released, proc, published>>

(* Mutant: the command that was not queued is not freed.                   *)
Forget(k) == released

Release(k) == released \cup {k}

(* The queue stays full for 10 ticks: the command is dropped.              *)
EnqueueTimeout ==
  /\ pending # 0
  /\ QueueFull
  /\ released' = Release(pending)
  /\ pending' = 0
  /\ UNCHANGED <<tbvars, received, message_received, commandQueue, proc,
                 published>>

-----------------------------------------------------------------------------
(* cnode_cmd_processing_task *)

(* xQueueReceive hands over command k, whose cmd field is c.               *)
Dequeue(k, c) ==
  /\ proc.pc = "idle"
  /\ commandQueue # <<>>
  /\ k = Head(commandQueue)
  /\ received[k].cmd = c
  /\ commandQueue' = Tail(commandQueue)
  /\ UNCHANGED <<received, message_received, pending, published>>

At(pc, k) == [Idle EXCEPT !.pc = pc, !.cmd = k]

(* command_free(cmd), then cnode_send_error(cmd): the reply is made of the *)
(* fields of a command that is released already.                           *)
FreeThenError(k) ==
  /\ released' = Release(k)
  /\ proc' = At("err", k)

ProcRexec(k) ==
  /\ Dequeue(k, "REXEC")
  /\ LET m == received[k] IN
     \/ \E p \in Inst, w \in Worker \cup {NULL} :
           /\ tboard_start_task(m.fn, Uint32(m.id), m.sig, k, p, w)
           /\ IF SetArgsOk(m.fn, m.sig)
              THEN proc' = At("ack", k) /\ UNCHANGED released
              ELSE FreeThenError(k)
     \/ /\ StartRefused(m.fn, Uint32(m.id))
        /\ FreeThenError(k)
        /\ UNCHANGED tbvars

(* _cnode_return_task: a lookup, then a wait if it finds an instance.      *)
ProcGet(k) ==
  /\ Dequeue(k, "GET")
  /\ LET m == received[k]
         hits == {p \in Inst : Found(m.fn, Uint32(m.id), p)} IN
     \/ \E p \in hits :
           /\ proc' = [At("wait", k) EXCEPT !.instance = p]
           /\ UNCHANGED released
     \/ hits = {} /\ FreeThenError(k)
  /\ UNCHANGED tbvars

ProcUnknown(k) ==
  /\ Dequeue(k, "OTHER")
  /\ proc' = At("err", k)
  /\ UNCHANGED <<tbvars, released>>

(* Mutant: the instance is collected whether it has finished or not.       *)
ReturnTaskAtOnce ==
  LET p == proc.instance IN
  /\ proc.pc = "wait"
  /\ task_instance_destroy(p)
  /\ proc' = [At("res", proc.cmd) EXCEPT !.exec = inst[p].src,
                                         !.val = inst[p].return_arg]
  /\ UNCHANGED <<boardvars, deadvars, worker, received, message_received,
                 pending, commandQueue, released, published>>

(* has_finished is seen: the result is copied and the instance destroyed.  *)
ReturnTask ==
  LET p == proc.instance IN
  /\ proc.pc = "wait"
  /\ Collect(p)
  /\ proc' = [At("res", proc.cmd) EXCEPT !.exec = inst[p].src,
                                         !.val = inst[p].return_arg]
  /\ UNCHANGED <<received, message_received, pending, commandQueue, released,
                 published>>

(* A reply is published, or publishing fails, which is only printed.       *)
Send(kind) ==
  published' \in {published,
                  Append(published, [re |-> proc.cmd, kind |-> kind,
                                     exec |-> proc.exec, val |-> proc.val])}

SendAckOrResponse(pc, kind) ==
  /\ proc.pc = pc
  /\ Send(kind)
  /\ released' = Release(proc.cmd)
  /\ proc' = Idle
  /\ UNCHANGED <<tbvars, received, message_received, pending, commandQueue>>

SendAck      == SendAckOrResponse("ack", "ACK")
SendResponse == SendAckOrResponse("res", "RES")

SendError ==
  /\ proc.pc = "err"
  /\ Send("ERR")
  /\ proc' = Idle
  /\ UNCHANGED <<tbvars, received, message_received, pending, commandQueue,
                 released>>

Handler == Enqueue \/ EnqueueTimeout

Processor ==
  \/ \E k \in Command : ProcRexec(k) \/ ProcGet(k) \/ ProcUnknown(k)
  \/ ReturnTask
  \/ SendAck
  \/ SendResponse
  \/ SendError

-----------------------------------------------------------------------------
(* A function whose arguments are values reads the instance's own copy; a  *)
(* string or nvoid argument is read where it lies, in the command.         *)
ArgumentsSound(w) ==
  LET i == inst[worker[w].inst] IN
  /\ i.args = FnSig[i.parent_task]
  /\ i.args \in ByRef => i.src \notin released

FunctionReturns(w) ==
  \E v \in Value :
     /\ EntryReturns(w, v)
     /\ v \in Results(w)
     /\ ArgumentsSound(w) => v = inst[worker[w].inst].src

WorkerStep(w) == BeginEntry(w) \/ FunctionReturns(w) \/ Epilogue(w)

CNNext ==
  \/ \E t \in Task : tboard_register_task(t) /\ UNCHANGED cnvars
  \/ \E m \in Message : DataHandler(m)
  \/ DataHandlerEmpty
  \/ Handler
  \/ Processor
  \/ \E w \in Worker : WorkerStep(w) /\ UNCHANGED cnvars

CNSpec == CNInit /\ [][CNNext]_allvars

(* FreeRTOS schedules every ready task, sends and waits are bounded, and   *)
(* remote functions return.                                                *)
CNFairSpec ==
  /\ CNSpec
  /\ WF_allvars(Handler)
  /\ WF_allvars(Processor)
  /\ \A w \in Worker : WF_allvars(WorkerStep(w) /\ UNCHANGED cnvars)

-----------------------------------------------------------------------------
(* Properties *)

(* Every variable of the cnode has its type.                               *)
CNTypeOK ==
  /\ TBTypeOK
  /\ received \in Seq(Message) /\ Len(received) <= MaxReceived
  /\ message_received \in BOOLEAN
  /\ pending \in Command \cup {0}
  /\ commandQueue \in Seq(Command) /\ Len(commandQueue) <= QUEUE_LENGTH
  /\ released \subseteq Command
  /\ proc \in ProcRec
  /\ published \in Seq(Reply)

Queued   == {commandQueue[j] : j \in DOMAIN commandQueue}
OwnKey(m) == m.key # "app/requests/down"
Foreign  == {k \in DOMAIN received : ~OwnKey(received[k])}
InFlight == ({pending, proc.cmd} \cup Queued) \ {0}

(* Every command is owned by exactly one party: a command waiting in the   *)
(* handler or in the queue was not freed and is there once; one that the   *)
(* processing task works on was not freed either, but while its error is   *)
(* reported; and once nobody has it, it was freed, unless it was unknown.  *)
CommandOwnership ==
  /\ \A i, j \in DOMAIN commandQueue :
        commandQueue[i] = commandQueue[j] => i = j
  /\ Queued \cap {pending, proc.cmd} = {}
  /\ pending # 0 => pending # proc.cmd
  /\ released \cap InFlight \subseteq IF proc.pc = "err" THEN {proc.cmd} ELSE {}
  /\ \A k \in Foreign \ (released \cup InFlight) : received[k].cmd = "OTHER"

(* While the processing task polls has_finished, the instance it polls     *)
(* stays allocated and is the one a new lookup would find, so that the     *)
(* lookup inside task_instance_destroy clears the entry of that instance.  *)
WaitTargetIndexed ==
  proc.pc = "wait" =>
    /\ proc.instance \in allocated
    /\ LET m == received[proc.cmd] IN Found(m.fn, Uint32(m.id), proc.instance)

(* Replies leave in the order in which the commands came in, at most one   *)
(* for a command.                                                          *)
RepliesInOrder ==
  \A i, j \in DOMAIN published : i < j => published[i].re < published[j].re

(* What the node publishes comes back to it through its own subscription;  *)
(* it is neither answered nor executed, so replies do not breed replies.   *)
(* Nor is what another node sends under a key that begins like its own.    *)
OwnMessagesIgnored ==
  /\ InFlight \subseteq Foreign
  /\ \A j \in DOMAIN published : published[j].re \in Foreign
  /\ \A p \in allocated : inst[p].src \in Foreign

(* The executions the controller may still ask the result of: instances    *)
(* that took their arguments, once the acknowledgement is out; the one     *)
(* whose result is being sent is still owed.                               *)
Execs ==
  LET started == {p \in allocated : SetArgsOk(inst[p].parent_task,
                                               received[inst[p].src].sig)}
      unacked == IF proc.pc = "ack" THEN {proc.cmd} ELSE {}
      owed    == IF proc.pc = "res" THEN {proc.exec} ELSE {}
  IN ({inst[p].src : p \in started} \ unacked) \cup owed

NonZero(k) == IF k = 0 THEN <<>> ELSE <<k>>

RE == INSTANCE RemoteExec WITH
        Request  <- Message,
        Capacity <- QUEUE_LENGTH,
        Ignored  <- OwnKey,
        Nothing  <- NULL,
        requests <- received,
        backlog  <- NonZero(proc.cmd) \o commandQueue \o NonZero(pending),
        execs    <- Execs,
        answers  <- [j \in DOMAIN published |->
                       [re |-> published[j].re, kind |-> published[j].kind,
                        exec |-> published[j].exec]]

(* The handler, the queue, the processing task and the workers together    *)
(* keep what RemoteExec promises the controller.                           *)
ImplementsRemoteExec == RE!Spec

(* The cnode uses the board as the board's own specification allows.       *)
UsesBoard == TBSpec

(* The processing task polls an instance that no FreeRTOS task was created *)
(* for: its arguments were refused after it was indexed, or xTaskCreate    *)
(* failed.                                                                 *)
WaitsForNobody ==
  /\ proc.pc = "wait"
  /\ inst[proc.instance].task_handle_frtos = NULL

(* Every command the handler got hold of is done with in the end, unless   *)
(* the only processing task waits for nobody.                              *)
EveryCommandHandled ==
  \A k \in Command : (k \in InFlight) ~> (k \notin InFlight \/ WaitsForNobody)

-----------------------------------------------------------------------------
(* What comments and headers say, and the code does not keep *)

(* command.c:497, in command_free: "don't free the structure if some other *)
(* thread could be referring to it": a function that has not returned and  *)
(* takes strings refers to the command it was started with.                *)
ReferredCommandKept ==
  \A w \in Worker :
     (/\ worker[w].pc \in {"created", "running"}
      /\ inst[worker[w].inst].args \in ByRef)
       => inst[worker[w].inst].src \notin released

(* task.h:125, of task_instance_get_return_args: "Returns the return       *)
(* arguments of the task instance": the value in a result is the one the   *)
(* execution it belongs to has computed.                                   *)
ResultIsComputed ==
  \A j \in DOMAIN published :
     published[j].kind = "RES" => published[j].val = published[j].exec

(* tboard.h:67: "serial id uniquely identifying which instance of this     *)
(* specific task is run": a result belongs to the execution with the task  *)
(* id that was asked for.                                                  *)
ResultOfTaskId ==
  \A j \in DOMAIN published :
     published[j].kind = "RES" =>
       received[published[j].exec].id = received[published[j].re].id
=============================================================================
