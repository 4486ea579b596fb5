--------------------------- MODULE Ownership_proofs ---------------------------
(***************************************************************************)
(* Proofs about the commands of a cnode, for any messages and any length   *)
(* of the queue: who owns a command, in which order replies leave, and     *)
(* that the node's own messages go no further than the data handler.       *)
(***************************************************************************)
EXTENDS CNode_proofs

(* Commands are numbered in the order in which they came in: the one that  *)
(* is processed is older than all that wait, and the one the data handler  *)
(* holds is the newest.                                                    *)
OldestFirst ==
  /\ \A i, j \in DOMAIN commandQueue : i < j => commandQueue[i] < commandQueue[j]
  /\ \A j \in DOMAIN commandQueue :
       /\ proc.cmd < commandQueue[j]
       /\ pending # 0 => commandQueue[j] < pending
  /\ pending # 0 => proc.cmd < pending /\ pending = Len(received)
  /\ proc.pc = "idle" => proc.cmd = 0

(* What was answered came before what is not answered yet.                 *)
AnswersOrdered ==
  /\ published \in Seq(Reply)
  /\ RepliesInOrder
  /\ \A j \in DOMAIN published :
       /\ published[j].re \in Foreign
       /\ \A k \in InFlight : published[j].re < k

(* What was freed is held by nobody, but for an error's last command; and  *)
(* what nobody holds was freed or unknown.                                 *)
FreedOnce ==
  /\ released \subseteq DOMAIN received
  /\ \A k \in released :
       k \notin Queued /\ k # pending /\ (k = proc.cmd => proc.pc = "err")
  /\ \A k \in Foreign \ (released \cup InFlight) : received[k].cmd = "OTHER"
  /\ proc.pc = "err" => proc.cmd \in released \/ received[proc.cmd].cmd = "OTHER"

OwnInv ==
  /\ CIInv
  /\ OldestFirst
  /\ AnswersOrdered
  /\ FreedOnce
  /\ InFlight \subseteq Foreign

(* The types of what a cnode in OwnInv holds.                              *)
LEMMA Held ==
  ASSUME CommandsKnown
  PROVE  /\ Len(received) \in Nat /\ DOMAIN received = 1..Len(received)
         /\ \A j \in DOMAIN commandQueue : commandQueue[j] \in 1..Len(received)
         /\ Queued \subseteq 1..Len(received)
         /\ InFlight \subseteq 1..Len(received)
         /\ Foreign \subseteq 1..Len(received)
         /\ 1..Len(received) \subseteq Command
<1>1. /\ Len(received) \in Nat /\ DOMAIN received = 1..Len(received)
      /\ \A j \in DOMAIN commandQueue : commandQueue[j] \in 1..Len(received)
  BY LenProperties, ElementOfSeq DEF CommandsKnown
<1>2. QED
  BY <1>1, QueueAssumption DEF CommandsKnown, Queued, InFlight, Foreign, Command

-----------------------------------------------------------------------------
(* The data handler *)

(* A message gets the next number: one that is not the node's own is the   *)
(* newest command, and nobody has freed or answered it.                    *)
LEMMA ReceiveKeeps ==
  ASSUME OwnInv, CIInv', NEW m \in Message, DataHandler(m)
  PROVE  OwnInv'
<1> DEFINE n == Len(received) + 1
<1>1. /\ CommandsKnown /\ received \in Seq(Message) /\ m \in AnyMessage
      /\ pending = 0 /\ received' = Append(received, m)
      /\ UNCHANGED <<commandQueue, released, proc, published>>
      /\ pending' = IF IsOwnMessage(m) THEN 0 ELSE Len(received')
  BY MessageAssumption DEF OwnInv, CIInv, CommandsKnown, DataHandler
<1>2. /\ Len(received) \in Nat /\ DOMAIN received = 1..Len(received)
      /\ Len(received') = n /\ DOMAIN received' = 1..n
      /\ received'[n] = m
      /\ \A k \in DOMAIN received : received'[k] = received[k]
  BY <1>1, AppendProperties, LenProperties
<1>3. Queued' = Queued /\ n \notin Queued /\ n # proc.cmd /\ n \notin released
  BY <1>1, <1>2, Held DEF Queued, OwnInv, FreedOnce, CommandsKnown
<1>4. IsOwnMessage(m) <=> OwnKey(m)
  BY <1>1 DEF IsOwnMessage, OwnKey, AnyMessage, Key
<1>5. /\ Foreign' = Foreign \cup (IF OwnKey(m) THEN {} ELSE {n})
      /\ InFlight' = InFlight \cup (IF OwnKey(m) THEN {} ELSE {n})
      /\ InFlight \subseteq 1..Len(received) /\ Foreign \subseteq 1..Len(received)
  <2>1. Foreign' = Foreign \cup (IF OwnKey(m) THEN {} ELSE {n})
    BY <1>2 DEF Foreign
  <2>2. InFlight' = InFlight \cup (IF OwnKey(m) THEN {} ELSE {n})
    BY <1>1, <1>2, <1>3, <1>4 DEF InFlight
  <2>3. QED
    BY <1>1, <2>1, <2>2, Held
<1>6. OldestFirst'
  BY <1>1, <1>2, <1>4, Held DEF OwnInv, OldestFirst, CommandsKnown
<1>7. AnswersOrdered'
  <2>1. \A j \in DOMAIN published : published[j].re \in Foreign /\ published[j].re < n
    <3>1. \A j \in DOMAIN published : published[j].re \in Foreign
      BY DEF OwnInv, AnswersOrdered
    <3>2. \A k \in Foreign : k < n
      BY <1>2, <1>5
    <3>3. QED
      BY <3>1, <3>2
  <2>2. \A j \in DOMAIN published :
          /\ published[j].re \in Foreign'
          /\ \A k \in InFlight' : published[j].re < k
    BY <1>5, <2>1 DEF OwnInv, AnswersOrdered
  <2>3. QED
    BY <1>1, <2>2 DEF OwnInv, AnswersOrdered, RepliesInOrder
<1>8. FreedOnce'
  <2>1. \A k \in released : k \in 1..Len(received)
    BY <1>2 DEF OwnInv, FreedOnce
  <2>2. \A k \in released :
           k \notin Queued' /\ k # pending' /\ (k = proc'.cmd => proc'.pc = "err")
    BY <1>1, <1>2, <1>3, <2>1 DEF OwnInv, FreedOnce
  <2>3. \A k \in Foreign' \ (released' \cup InFlight') : received'[k].cmd = "OTHER"
    BY <1>1, <1>2, <1>5 DEF OwnInv, FreedOnce
  <2>4. proc.pc = "err" => proc.cmd \in DOMAIN received
    BY <1>1, <1>2 DEF CommandsKnown
  <2>5. proc'.pc = "err" => proc'.cmd \in released' \/ received'[proc'.cmd].cmd = "OTHER"
    BY <1>1, <1>2, <2>4 DEF OwnInv, FreedOnce
  <2>6. released' \subseteq DOMAIN received'
    BY <1>1, <1>2, <2>1
  <2>7. QED
    BY <1>1, <2>2, <2>3, <2>5, <2>6 DEF FreedOnce
<1>9. QED
  BY <1>5, <1>6, <1>7, <1>8 DEF OwnInv

(* The newest command goes behind all that wait.                           *)
LEMMA EnqueueKeeps ==
  ASSUME OwnInv, CIInv', Enqueue
  PROVE  OwnInv'
<1>1. /\ CommandsKnown /\ pending # 0 /\ pending' = 0 /\ pending \in 1..Len(received)
      /\ commandQueue \in Seq(1..Len(received))
      /\ commandQueue' = Append(commandQueue, pending)
      /\ UNCHANGED <<received, released, proc, published>>
  BY Held DEF OwnInv, CIInv, CommandsKnown, Enqueue, QueueSend
<1> DEFINE n == Len(commandQueue) + 1
<1>2. /\ Len(commandQueue) \in Nat /\ DOMAIN commandQueue = 1..Len(commandQueue)
      /\ DOMAIN commandQueue' = 1..n /\ commandQueue'[n] = pending
      /\ \A j \in DOMAIN commandQueue : commandQueue'[j] = commandQueue[j]
  BY <1>1, AppendProperties, LenProperties
<1>3. Queued' = Queued \cup {pending}
  BY <1>2 DEF Queued
<1>4. InFlight' = InFlight /\ Foreign' = Foreign
  BY <1>1, <1>3 DEF InFlight, Foreign
<1>5. OldestFirst'
  BY <1>1, <1>2 DEF OwnInv, OldestFirst
<1>6. AnswersOrdered' /\ FreedOnce'
  BY <1>1, <1>3, <1>4 DEF OwnInv, AnswersOrdered, RepliesInOrder, FreedOnce
<1>7. QED
  BY <1>4, <1>5, <1>6 DEF OwnInv

(* The command that found the queue full is freed by the handler, and only *)
(* by it.                                                                  *)
LEMMA TimeoutKeeps ==
  ASSUME OwnInv, CIInv', EnqueueTimeout
  PROVE  OwnInv'
<1>1. /\ CommandsKnown /\ pending # 0 /\ pending' = 0 /\ pending \in 1..Len(received)
      /\ released' = released \cup {pending}
      /\ UNCHANGED <<received, commandQueue, proc, published>>
  BY Held DEF OwnInv, CIInv, CommandsKnown, EnqueueTimeout, Release
<1>2. Queued' = Queued /\ pending \notin Queued /\ pending # proc.cmd
  BY <1>1, Held DEF Queued, OwnInv, OldestFirst, CommandsKnown
<1>3. InFlight = InFlight' \cup {pending} /\ Foreign' = Foreign
  BY <1>1, <1>2 DEF InFlight, Foreign
<1>4. OldestFirst' /\ AnswersOrdered'
  BY <1>1, <1>3 DEF OwnInv, OldestFirst, AnswersOrdered, RepliesInOrder
<1>5. FreedOnce'
  BY <1>1, <1>2, <1>3, Held DEF OwnInv, FreedOnce
<1>6. QED
  BY <1>1, <1>3, <1>4, <1>5 DEF OwnInv

-----------------------------------------------------------------------------
(* The processing task *)

(* The processing task takes the command at the head of the queue: it is   *)
(* older than all that are left.                                           *)
LEMMA DequeueMoves ==
  ASSUME OwnInv, NEW k, NEW c, Dequeue(k, c), proc'.cmd = k, released \subseteq released'
  PROVE  /\ k \in 1..Len(received) /\ k \notin released
         /\ \A j \in DOMAIN commandQueue' : k < commandQueue'[j]
         /\ \A i, j \in DOMAIN commandQueue' :
              i < j => commandQueue'[i] < commandQueue'[j]
         /\ k \notin Queued' /\ Queued = Queued' \cup {k}
         /\ InFlight' = InFlight /\ Foreign' = Foreign
         /\ pending # 0 => k < pending /\ \A j \in DOMAIN commandQueue' : commandQueue'[j] < pending
         /\ UNCHANGED <<received, pending, published>>
<1>1. /\ CommandsKnown /\ commandQueue \in Seq(1..Len(received)) /\ commandQueue # <<>>
      /\ k = Head(commandQueue) /\ commandQueue' = Tail(commandQueue)
      /\ proc.cmd = 0 /\ UNCHANGED <<received, pending, published>>
  BY DEF OwnInv, CIInv, CommandsKnown, OldestFirst, Dequeue
<1>2. /\ Len(commandQueue) \in Nat \ {0} /\ DOMAIN commandQueue = 1..Len(commandQueue)
      /\ DOMAIN commandQueue' = 1..(Len(commandQueue) - 1)
      /\ k = commandQueue[1]
      /\ \A j \in DOMAIN commandQueue' : commandQueue'[j] = commandQueue[j + 1]
  BY <1>1, HeadTailProperties, LenProperties, EmptySeq
<1>3. k \in 1..Len(received) /\ k \in Queued
  BY <1>1, <1>2, Held DEF Queued
<1>4. k \notin released
  BY <1>3 DEF OwnInv, FreedOnce
<1>5. \A j \in DOMAIN commandQueue' : j + 1 \in DOMAIN commandQueue /\ k < commandQueue'[j]
  BY <1>2 DEF OwnInv, OldestFirst
<1>6. \A i, j \in DOMAIN commandQueue' : i < j => commandQueue'[i] < commandQueue'[j]
  BY <1>2, <1>5 DEF OwnInv, OldestFirst
<1>7. k \notin Queued'
  BY <1>3, <1>5 DEF Queued
<1>8. Queued = Queued' \cup {k}
  <2>1. Queued' \subseteq Queued
    BY <1>2, <1>5 DEF Queued
  <2>2. ASSUME NEW i \in DOMAIN commandQueue, i # 1
        PROVE  commandQueue[i] \in Queued'
    <3>1. i - 1 \in DOMAIN commandQueue' /\ commandQueue'[i - 1] = commandQueue[i]
      BY <1>2, <2>2
    <3>2. QED
      BY <3>1 DEF Queued
  <2>3. QED
    BY <1>2, <1>3, <2>1, <2>2 DEF Queued
<1>9. InFlight' = InFlight /\ Foreign' = Foreign
  BY <1>1, <1>3, <1>8 DEF InFlight, Foreign
<1>10. pending # 0 => k < pending /\ \A j \in DOMAIN commandQueue' : commandQueue'[j] < pending
  BY <1>2, <1>5 DEF OwnInv, OldestFirst
<1>11. QED
  BY <1>1, <1>3, <1>4, <1>5, <1>6, <1>7, <1>8, <1>9, <1>10

(* Taking a command leaves it in the hands of one party, freed only if its *)
(* error is to be reported.                                                *)
LEMMA TakeKeeps ==
  ASSUME OwnInv, CIInv', NEW k \in Command, ProcRexec(k) \/ ProcGet(k) \/ ProcUnknown(k)
  PROVE  OwnInv'
<1>1. PICK c \in {"REXEC", "GET", "OTHER"} :
        /\ Dequeue(k, c) /\ received[k].cmd = c
        /\ proc'.cmd = k /\ proc'.pc # "idle"
        /\ \/ released' = released /\ (proc'.pc = "err" => c = "OTHER")
           \/ released' = released \cup {k} /\ proc'.pc = "err"
  BY DEF ProcRexec, ProcGet, ProcUnknown, FreeThenError, Release, At, Idle, Dequeue
<1>2. /\ k \in 1..Len(received) /\ k \notin released
      /\ \A j \in DOMAIN commandQueue' : k < commandQueue'[j]
      /\ \A i, j \in DOMAIN commandQueue' :
           i < j => commandQueue'[i] < commandQueue'[j]
      /\ k \notin Queued' /\ Queued = Queued' \cup {k}
      /\ InFlight' = InFlight /\ Foreign' = Foreign
      /\ pending # 0 => k < pending /\ \A j \in DOMAIN commandQueue' : commandQueue'[j] < pending
      /\ UNCHANGED <<received, pending, published>>
  <2>1. released \subseteq released'
    BY <1>1
  <2>2. QED
    BY <1>1, <2>1, DequeueMoves
<1>3. OldestFirst'
  BY <1>1, <1>2 DEF OwnInv, OldestFirst
<1>4. AnswersOrdered'
  BY <1>2 DEF OwnInv, AnswersOrdered, RepliesInOrder
<1>5. FreedOnce'
  <2>1. k \in DOMAIN received
    BY <1>2, Held DEF OwnInv, CIInv
  <2>2. k # pending
    <3>1. k \in Nat /\ (pending # 0 => k < pending)
      BY <1>2
    <3>2. QED
      BY <1>2, <3>1, Held DEF OwnInv, CIInv, CommandsKnown
  <2>3. \A q \in released' :
           q \notin Queued' /\ q # pending' /\ (q = proc'.cmd => proc'.pc = "err")
    BY <1>1, <1>2, <2>2 DEF OwnInv, FreedOnce
  <2>4. QED
    BY <1>1, <1>2, <2>1, <2>3 DEF OwnInv, FreedOnce
<1>6. QED
  BY <1>2, <1>3, <1>4, <1>5 DEF OwnInv

(* The end of the wait changes nobody's commands.                          *)
LEMMA ReturnKeeps ==
  ASSUME OwnInv, CIInv', ReturnTask
  PROVE  OwnInv'
<1>1. /\ proc.pc = "wait" /\ proc'.pc = "res" /\ proc'.cmd = proc.cmd
      /\ UNCHANGED <<received, pending, commandQueue, released, published>>
  BY DEF ReturnTask, At, Idle
<1>2. Queued' = Queued /\ InFlight' = InFlight /\ Foreign' = Foreign
  BY <1>1 DEF Queued, InFlight, Foreign
<1>3. QED
  BY <1>1, <1>2 DEF OwnInv, OldestFirst, AnswersOrdered, RepliesInOrder, FreedOnce

(* A reply goes to the end of what was published, or is lost.              *)
LEMMA SendMoves ==
  ASSUME published \in Seq(Reply), NEW kind \in {"ACK", "RES", "ERR"}, Send(kind),
         proc \in ProcRec, proc.cmd \in Command
  PROVE  /\ published' \in Seq(Reply)
         /\ \/ published' = published
            \/ /\ DOMAIN published' = DOMAIN published \cup {Len(published) + 1}
               /\ Len(published) \in Nat /\ DOMAIN published = 1..Len(published)
               /\ published'[Len(published) + 1].re = proc.cmd
               /\ \A j \in DOMAIN published : published'[j] = published[j]
<1> DEFINE r == [re |-> proc.cmd, kind |-> kind,
                 exec |-> proc.exec, val |-> proc.val]
<1>1. r \in Reply /\ r.re = proc.cmd
  BY DEF Reply, ProcRec
<1> HIDE DEF r
<1>2. CASE published' = Append(published, r)
  BY <1>1, <1>2, AppendProperties, LenProperties
<1>3. QED
  BY <1>2 DEF Send, r

(* A reply is about the oldest command, which is freed with it unless it   *)
(* was an error that had it freed before.                                  *)
LEMMA SendKeeps ==
  ASSUME OwnInv, CNTypeOK, CIInv', SendAck \/ SendResponse \/ SendError
  PROVE  OwnInv'
<1>1. /\ CommandsKnown /\ proc.cmd # 0 /\ proc.pc # "idle"
      /\ proc'.cmd = 0 /\ proc'.pc = "idle"
      /\ UNCHANGED <<received, pending, commandQueue>>
      /\ \/ released' = released \cup {proc.cmd} /\ proc.pc # "err"
         \/ released' = released /\ proc.pc = "err"
      /\ \E kind \in {"ACK", "RES", "ERR"} : Send(kind)
  BY DEF OwnInv, CIInv, CommandsKnown, SendAck, SendResponse, SendAckOrResponse, SendError,
         Release, Idle
<1>2. /\ proc.cmd \in 1..Len(received) /\ proc.cmd \in Command /\ Len(received) \in Nat
      /\ proc.cmd \in InFlight /\ proc.cmd \in Foreign
  <2>1. Len(received) \in Nat /\ 1..Len(received) \subseteq Command
    BY <1>1, Held
  <2>2. proc.cmd \in 1..Len(received)
    BY <1>1, <2>1 DEF CommandsKnown
  <2>3. QED
    BY <1>1, <2>1, <2>2 DEF OwnInv, InFlight
<1>3. /\ published' \in Seq(Reply)
      /\ \/ published' = published
         \/ /\ DOMAIN published' = DOMAIN published \cup {Len(published) + 1}
            /\ Len(published) \in Nat /\ DOMAIN published = 1..Len(published)
            /\ published'[Len(published) + 1].re = proc.cmd
            /\ \A j \in DOMAIN published : published'[j] = published[j]
  BY <1>1, <1>2, SendMoves DEF OwnInv, AnswersOrdered, CNTypeOK
<1>4. proc.cmd \notin Queued /\ proc.cmd # pending /\ \A k \in InFlight' : proc.cmd < k
  <2>1. \A k \in Queued : proc.cmd < k
    BY DEF OwnInv, OldestFirst, Queued
  <2>2. pending # 0 => proc.cmd < pending
    BY DEF OwnInv, OldestFirst
  <2>3. proc.cmd \notin Queued /\ proc.cmd # pending
    BY <1>1, <1>2, <2>1, <2>2, Held DEF CommandsKnown
  <2>4. QED
    BY <1>1, <2>1, <2>2, <2>3 DEF InFlight, Queued
<1>5. InFlight = InFlight' \cup {proc.cmd} /\ Foreign' = Foreign /\ Queued' = Queued
  BY <1>1, <1>2 DEF InFlight, Foreign, Queued
<1>6. OldestFirst'
  BY <1>1, <1>2, <1>4, Held DEF OwnInv, OldestFirst, CommandsKnown, Queued
<1>7. AnswersOrdered'
  <2>1. \A j \in DOMAIN published :
           /\ published[j].re \in Foreign /\ published[j].re < proc.cmd
           /\ \A k \in InFlight' : published[j].re < k
    BY <1>2, <1>5 DEF OwnInv, AnswersOrdered
  <2>2. CASE published' = published
    BY <1>3, <1>5, <2>1, <2>2 DEF OwnInv, AnswersOrdered, RepliesInOrder
  <2>3. CASE published' # published
    <3>1. \A j \in DOMAIN published' :
             /\ published'[j].re \in Foreign'
             /\ \A k \in InFlight' : published'[j].re < k
      BY <1>2, <1>3, <1>4, <1>5, <2>1, <2>3
    <3>2. ASSUME NEW i \in DOMAIN published', NEW j \in DOMAIN published', i < j
          PROVE  published'[i].re < published'[j].re
      <4>1. i \in DOMAIN published
        BY <1>3, <2>3, <3>2
      <4>2. CASE j \in DOMAIN published
        BY <1>3, <2>3, <3>2, <4>1, <4>2 DEF OwnInv, AnswersOrdered, RepliesInOrder
      <4>3. CASE j = Len(published) + 1
        BY <1>3, <2>1, <2>3, <4>1, <4>3
      <4>4. QED
        BY <1>3, <2>3, <4>2, <4>3
    <3>3. QED
      BY <1>3, <3>1, <3>2 DEF AnswersOrdered, RepliesInOrder
  <2>4. QED
    BY <2>2, <2>3
<1>8. FreedOnce'
  <2>1. released' \subseteq DOMAIN received'
    BY <1>1, <1>2, Held DEF OwnInv, FreedOnce
  <2>2. \A k \in released' : k # 0 /\ k \notin Queued' /\ k # pending'
    BY <1>1, <1>4, <1>5, <2>1, Held DEF OwnInv, FreedOnce
  <2>3. \A k \in Foreign' \ (released' \cup InFlight') : received'[k].cmd = "OTHER"
    BY <1>1, <1>5 DEF OwnInv, FreedOnce
  <2>4. QED
    BY <1>1, <2>1, <2>2, <2>3 DEF FreedOnce
<1>9. InFlight' \subseteq Foreign'
  BY <1>5 DEF OwnInv
<1>10. QED
  BY <1>6, <1>7, <1>8, <1>9 DEF OwnInv

(* Every step of a cnode keeps its commands in order and in one hand.      *)
LEMMA OwnInductive ==
  ASSUME OwnInv, CNTypeOK, [CNNext]_allvars
  PROVE  OwnInv'
<1>1. CIInv'
  BY CNextIInv DEF OwnInv
<1>2. CASE \E m \in Message : DataHandler(m)
  BY <1>1, <1>2, ReceiveKeeps
<1>3. CASE DataHandlerEmpty \/ UNCHANGED cnvars
  BY <1>1, <1>3 DEF DataHandlerEmpty, cnvars, OwnInv, OldestFirst, AnswersOrdered,
     RepliesInOrder, FreedOnce, Queued, InFlight, Foreign
<1>4. CASE Handler
  BY <1>1, <1>4, EnqueueKeeps, TimeoutKeeps DEF Handler
<1>5. CASE Processor
  BY <1>1, <1>5, TakeKeeps, ReturnKeeps, SendKeeps DEF Processor
<1>6. QED
  BY <1>2, <1>3, <1>4, <1>5 DEF CNNext, allvars

-----------------------------------------------------------------------------
(* Types *)

(* The processing task's locals keep their types: what it copies out of an *)
(* instance is an execution and a value.                                   *)
LEMMA ProcTypeKept ==
  ASSUME CommandsKnown, TBTypeOK, proc \in ProcRec, [CNNext]_allvars
  PROVE  proc' \in ProcRec
<1>1. /\ \A pc \in {"wait", "ack", "err"}, k \in Command : At(pc, k) \in ProcRec
      /\ Idle \in ProcRec
  BY DEF At, Idle, ProcRec, Value
<1>2. CASE \E k \in Command : ProcRexec(k) \/ ProcGet(k) \/ ProcUnknown(k)
  <2>1. PICK k \in Command : ProcRexec(k) \/ ProcGet(k) \/ ProcUnknown(k)
    BY <1>2
  <2>2. \/ proc' \in {At("ack", k), At("err", k)}
        \/ \E p \in Inst : proc' = [At("wait", k) EXCEPT !.instance = p]
    BY <2>1 DEF ProcRexec, ProcGet, ProcUnknown, FreeThenError
  <2>3. \A r \in ProcRec, p \in Inst : [r EXCEPT !.instance = p] \in ProcRec
    BY DEF ProcRec
  <2>4. QED
    BY <1>1, <2>2, <2>3
<1>3. CASE ReturnTask
  <2>1. proc.instance \in Inst /\ proc.cmd \in Command \cup {0}
    BY <1>3 DEF ReturnTask, CommandsKnown, ProcRec
  <2>2. inst[proc.instance].src \in Source \cup {NULL}
        /\ inst[proc.instance].return_arg \in Value
    BY <2>1 DEF TBTypeOK, InstRec
  <2>3. proc' = [pc |-> "res", cmd |-> proc.cmd, instance |-> NULL,
                 exec |-> inst[proc.instance].src,
                 val |-> inst[proc.instance].return_arg]
    BY <1>3 DEF ReturnTask, At, Idle
  <2>4. QED
    BY <2>1, <2>2, <2>3 DEF ProcRec
<1>4. CASE SendAck \/ SendResponse \/ SendError
  BY <1>1, <1>4 DEF SendAck, SendResponse, SendAckOrResponse, SendError
<1>5. CASE ~Processor
  BY <1>5 DEF CNNext, DataHandler, DataHandlerEmpty, Handler, Enqueue, EnqueueTimeout,
     cnvars, allvars
<1>6. QED
  BY <1>2, <1>3, <1>4, <1>5 DEF Processor

(* The queue never holds more commands than it was created for.            *)
LEMMA QueueBounded ==
  ASSUME CommandsKnown, Len(commandQueue) <= QUEUE_LENGTH, [CNNext]_allvars
  PROVE  Len(commandQueue') <= QUEUE_LENGTH
<1>1. commandQueue \in Seq(1..Len(received)) /\ Len(commandQueue) \in Nat
  BY LenProperties DEF CommandsKnown
<1>2. CASE Enqueue
  <2>1. pending \in 1..Len(received) /\ commandQueue' = Append(commandQueue, pending)
    BY <1>2, Held DEF Enqueue, QueueSend, CommandsKnown
  <2>2. Len(commandQueue') = Len(commandQueue) + 1
    BY <1>1, <2>1, AppendProperties
  <2>3. QED
    BY <1>1, <1>2, <2>2, QueueAssumption DEF Enqueue, QueueFull
<1>3. CASE \E k \in Command, c \in {"REXEC", "GET", "OTHER"} : Dequeue(k, c)
  <2>1. commandQueue # <<>> /\ commandQueue' = Tail(commandQueue)
    BY <1>3 DEF Dequeue
  <2>2. Len(commandQueue') = Len(commandQueue) - 1
    BY <1>1, <2>1, HeadTailProperties
  <2>3. QED
    BY <1>1, <2>2, QueueAssumption
<1>4. CASE UNCHANGED commandQueue
  BY <1>4
<1>5. QED
  BY <1>2, <1>3, <1>4 DEF CNNext, DataHandler, DataHandlerEmpty, Handler, EnqueueTimeout,
     Processor, ProcRexec, ProcGet, ProcUnknown, ReturnTask,
     SendAck, SendResponse, SendAckOrResponse, SendError, cnvars, allvars

(* Every step of a cnode keeps the types of its variables.                 *)
LEMMA TypesKept ==
  ASSUME OwnInv, CNTypeOK, [CNNext]_allvars
  PROVE  CNTypeOK'
<1>1. OwnInv' /\ CommandsKnown /\ CommandsKnown' /\ TBTypeOK /\ TBTypeOK'
  <2>1. OwnInv'
    BY OwnInductive
  <2>2. QED
    BY <2>1 DEF OwnInv, CIInv, IInv
<1>2. /\ received' \in Seq(Message) /\ Len(received') \in Nat /\ Len(received') <= MaxReceived
      /\ DOMAIN received' = 1..Len(received')
      /\ pending' \in 0..Len(received')
      /\ commandQueue' \in Seq(1..Len(received'))
  BY <1>1, LenProperties DEF CommandsKnown
<1>3. 1..Len(received') \subseteq Command /\ 0 \notin Command
  BY <1>2, QueueAssumption DEF Command
<1>4. commandQueue' \in Seq(Command)
  BY <1>2, <1>3
<1>5. released' \subseteq Command /\ published' \in Seq(Reply)
  BY <1>1, <1>2, <1>3 DEF OwnInv, FreedOnce, AnswersOrdered
<1>6. message_received' \in BOOLEAN
  BY DEF CNTypeOK, CNNext, DataHandler, DataHandlerEmpty, Handler, Enqueue, EnqueueTimeout,
     Processor, ProcRexec, ProcGet, ProcUnknown, Dequeue, ReturnTask,
     SendAck, SendResponse, SendAckOrResponse, SendError, cnvars, allvars
<1>7. proc' \in ProcRec
  BY <1>1, ProcTypeKept DEF CNTypeOK
<1>8. Len(commandQueue') <= QUEUE_LENGTH
  BY <1>1, QueueBounded DEF CNTypeOK
<1>9. pending' \in Command \cup {0}
  BY <1>2, <1>3
<1>10. QED
  BY <1>1, <1>2, <1>4, <1>5, <1>6, <1>7, <1>8, <1>9 DEF CNTypeOK

-----------------------------------------------------------------------------
(* What runs on the node *)

(* Every instance was started by a command that came from another node.    *)
SourcesForeign == \A p \in allocated : inst[p].src \in Foreign

(* No worker changes who started an instance.                              *)
LEMMA WorkerKeepsSources ==
  ASSUME TBTypeOK, NEW w \in Worker, WorkerStep(w)
  PROVE  /\ UNCHANGED allocated
         /\ \A p \in Inst : inst'[p].src = inst[p].src
<1> DEFINE q == worker[w].inst
<1>1. UNCHANGED allocated
  BY DEF WorkerStep, FunctionReturns, BeginEntry, EntryReturns, Epilogue, SetFinished,
         ClearRunning, StoreReturn, TakeMutex, MutexTimeout, LoadDead, CountDead
<1>2. \/ UNCHANGED inst
      \/ \E b \in BOOLEAN : inst' = [inst EXCEPT ![q].is_running = b]
      \/ inst' = [inst EXCEPT ![q].has_finished = TRUE]
      \/ \E v \in Value : inst' = [inst EXCEPT ![q].return_arg = v]
  BY DEF WorkerStep, FunctionReturns, BeginEntry, EntryReturns, Epilogue, SetFinished,
         ClearRunning, StoreReturn, TakeMutex, MutexTimeout, LoadDead, CountDead, Value
<1>3. inst \in [Inst -> InstRec]
  BY DEF TBTypeOK
<1> HIDE DEF q
<1>4. \A p \in Inst : inst'[p].src = inst[p].src
  <2>1. CASE \E b \in BOOLEAN : inst' = [inst EXCEPT ![q].is_running = b]
    BY <1>3, <2>1 DEF InstRec
  <2>2. CASE inst' = [inst EXCEPT ![q].has_finished = TRUE]
    BY <1>3, <2>2 DEF InstRec
  <2>3. CASE \E v \in Value : inst' = [inst EXCEPT ![q].return_arg = v]
    BY <1>3, <2>3 DEF InstRec
  <2>4. QED
    BY <1>2, <2>1, <2>2, <2>3
<1>5. QED
  BY <1>1, <1>4

(* A new instance is started by the command that is taken from the queue.  *)
LEMMA StartKeepsSources ==
  ASSUME OwnInv, TBTypeOK, SourcesForeign, NEW k \in Command, ProcRexec(k)
  PROVE  SourcesForeign'
<1>1. k \in Foreign /\ Foreign' = Foreign
  <2>1. commandQueue # <<>> /\ k = Head(commandQueue) /\ CommandsKnown
        /\ received' = received
    BY DEF ProcRexec, Dequeue, OwnInv, CIInv
  <2>2. k = commandQueue[1] /\ 1 \in DOMAIN commandQueue
    BY <2>1, HeadTailProperties, LenProperties, EmptySeq DEF CommandsKnown
  <2>3. k \in InFlight
    BY <2>1, <2>2, Held DEF InFlight, Queued
  <2>4. QED
    BY <2>1, <2>3 DEF OwnInv, Foreign
<1>2. CASE UNCHANGED tbvars
  BY <1>1, <1>2 DEF SourcesForeign, tbvars
<1>3. CASE \E p \in Inst, w \in Worker \cup {NULL} :
             tboard_start_task(received[k].fn, Uint32(received[k].id), received[k].sig,
                               k, p, w)
  <2>1. PICK p \in Inst, w \in Worker \cup {NULL} :
               tboard_start_task(received[k].fn, Uint32(received[k].id), received[k].sig,
                                 k, p, w)
    BY <1>3
  <2> DEFINE r == NewInstance(received[k].fn, Uint32(received[k].id), received[k].sig, k, w)
  <2>2. allocated' = allocated \cup {p} /\ allocated \subseteq Inst
        /\ inst \in [Inst -> InstRec]
        /\ inst' = [inst EXCEPT ![p] = r]
    BY <2>1 DEF tboard_start_task, TBTypeOK
  <2>3. r.src = k
    BY DEF NewInstance
  <2> HIDE DEF r
  <2>4. QED
    BY <1>1, <2>2, <2>3 DEF SourcesForeign
<1>4. QED
  BY <1>2, <1>3 DEF ProcRexec

(* Every step keeps the instances' sources foreign: messages are only      *)
(* added, and instances start in one place.                                *)
LEMMA SourcesKept ==
  ASSUME OwnInv, TBTypeOK, SourcesForeign, [CNNext]_allvars
  PROVE  SourcesForeign'
<1>1. CommandsKnown
  BY DEF OwnInv, CIInv
<1>2. Foreign \subseteq Foreign'
  <2>1. CASE UNCHANGED received
    BY <2>1 DEF Foreign
  <2>2. CASE \E m \in Message : received' = Append(received, m)
    BY <1>1, <2>2, AppendProperties, LenProperties DEF Foreign, CommandsKnown
  <2>3. QED
    BY <1>1, <2>1, <2>2, ReceivedKept
<1>3. CASE \E k \in Command : ProcRexec(k)
  BY <1>3, StartKeepsSources
<1>4. CASE ReturnTask
  <2>1. proc.instance \in Inst /\ allocated' = allocated \ {proc.instance}
        /\ inst' = [inst EXCEPT ![proc.instance] = NoInstance]
    BY <1>1, <1>4 DEF ReturnTask, Collect, task_instance_destroy, CommandsKnown
  <2>2. QED
    BY <1>2, <2>1 DEF SourcesForeign, TBTypeOK
<1>5. CASE \E w \in Worker : WorkerStep(w)
  BY <1>2, <1>5, WorkerKeepsSources DEF SourcesForeign, TBTypeOK
<1>6. CASE UNCHANGED <<inst, allocated>>
  BY <1>2, <1>6 DEF SourcesForeign
<1>7. QED
  BY <1>3, <1>4, <1>5, <1>6 DEF CNNext, tboard_register_task, DataHandler,
     DataHandlerEmpty, Handler, Enqueue, EnqueueTimeout, Processor, ProcGet, ProcUnknown,
     SendAck, SendResponse, SendAckOrResponse, SendError, allvars, tbvars

-----------------------------------------------------------------------------
(* The theorems *)

(* A cnode starts with nothing received and nothing running.               *)
LEMMA InitOwn == CNInit => OwnInv /\ CNTypeOK /\ SourcesForeign
<1> SUFFICES ASSUME CNInit PROVE OwnInv /\ CNTypeOK /\ SourcesForeign
  OBVIOUS
<1>1. CIInv
  BY CInitIInv
<1>2. /\ received = <<>> /\ pending = 0 /\ commandQueue = <<>> /\ released = {}
      /\ proc = Idle /\ published = <<>> /\ message_received = FALSE /\ allocated = {}
  BY DEF CNInit, TBInit
<1>3. OldestFirst /\ AnswersOrdered /\ FreedOnce /\ InFlight \subseteq Foreign
  BY <1>2 DEF OldestFirst, AnswersOrdered, RepliesInOrder, FreedOnce, InFlight, Foreign,
     Queued, Idle
<1>4. CNTypeOK
  <2>1. TBTypeOK
    BY <1>1 DEF CIInv, IInv
  <2>2. <<>> \in Seq(Message) /\ <<>> \in Seq(Command) /\ <<>> \in Seq(Reply)
        /\ Len(<<>>) = 0
    OBVIOUS
  <2>3. Idle \in ProcRec
    BY DEF Idle, ProcRec, Value
  <2>4. 0 <= MaxReceived /\ 0 <= QUEUE_LENGTH
    BY QueueAssumption
  <2>5. Len(received) = 0 /\ Len(commandQueue) = 0
    BY <1>2, <2>2
  <2>6. QED
    BY <1>2, <2>1, <2>2, <2>3, <2>4, <2>5 DEF CNTypeOK
<1>5. QED
  BY <1>1, <1>2, <1>3, <1>4 DEF OwnInv, SourcesForeign

(* Commands keep the order in which they came in, replies too, and what is *)
(* freed is no longer in anybody's hands.                                  *)
THEOREM OwnershipInvariant == CNSpec => [](OwnInv /\ CNTypeOK /\ SourcesForeign)
<1>1. OwnInv /\ CNTypeOK /\ SourcesForeign /\ [CNNext]_allvars
        => (OwnInv /\ CNTypeOK /\ SourcesForeign)'
  BY OwnInductive, TypesKept, SourcesKept DEF CNTypeOK
<1>2. QED
  BY InitOwn, <1>1, PTL DEF CNSpec

(* Every variable of a cnode keeps its type, whatever is sent to it.       *)
THEOREM CNodeTypeCorrect == CNSpec => []CNTypeOK
  BY OwnershipInvariant, PTL

(* The handler, the queue and the processing task hand a command on and    *)
(* free it when they are done with it: command_free never runs twice.      *)
THEOREM CommandsOwned == CNSpec => []CommandOwnership
<1>1. OwnInv => CommandOwnership
  <2> SUFFICES ASSUME OwnInv PROVE CommandOwnership
    OBVIOUS
  <2>1. CommandsKnown /\ OldestFirst /\ FreedOnce
    BY DEF OwnInv, CIInv
  <2>2. \A i, j \in DOMAIN commandQueue : commandQueue[i] = commandQueue[j] => i = j
    <3>1. DOMAIN commandQueue \subseteq Nat
      BY <2>1, LenProperties DEF CommandsKnown
    <3>2. QED
      BY <2>1, <3>1, Held DEF OldestFirst
  <2>3. Queued \cap {pending, proc.cmd} = {} /\ (pending # 0 => pending # proc.cmd)
    BY <2>1, Held DEF OldestFirst, Queued, CommandsKnown
  <2>4. released \cap InFlight \subseteq IF proc.pc = "err" THEN {proc.cmd} ELSE {}
    BY <2>1 DEF FreedOnce, InFlight
  <2>5. QED
    BY <2>1, <2>2, <2>3, <2>4 DEF CommandOwnership, FreedOnce
<1>2. QED
  BY <1>1, OwnershipInvariant, PTL

(* Replies are published in the order of their commands, one for each.     *)
THEOREM RepliesOrdered == CNSpec => []RepliesInOrder
<1>1. OwnInv => RepliesInOrder
  BY DEF OwnInv, AnswersOrdered
<1>2. QED
  BY <1>1, OwnershipInvariant, PTL

(* What a cnode publishes and hears again is never executed nor answered.  *)
THEOREM OwnIgnored == CNSpec => []OwnMessagesIgnored
<1>1. OwnInv /\ SourcesForeign => OwnMessagesIgnored
  BY DEF OwnInv, AnswersOrdered, SourcesForeign, OwnMessagesIgnored
<1>2. QED
  BY <1>1, OwnershipInvariant, PTL
=============================================================================
