-------------------------- MODULE TaskBoard_proofs --------------------------
(***************************************************************************)
(* Proofs about the task board: its types and its safety invariants hold   *)
(* for any number of tasks, slots, addresses, workers and serial ids.      *)
(***************************************************************************)
EXTENDS TaskBoard, FiniteSetTheorems, WellFoundedInduction, TLAPS

-----------------------------------------------------------------------------
(* Lemmas about the operators *)

(* What calloc and the constructor leave in an instance is an instance.    *)
LEMMA NewInstanceType ==
  ASSUME NEW t \in Task, NEW id \in Serial, NEW a \in Sig \cup {NULL},
         NEW s \in Source, NEW w \in Worker \cup {NULL}
  PROVE  NewInstance(t, id, a, s, w) \in InstRec
  BY DEF NewInstance, InstRec, Value

(* A freed block is represented by an instance.                            *)
LEMMA NoInstanceType == NoInstance \in InstRec
  BY DEF NoInstance, InstRec, Value

(* A FreeRTOS task that does not exist is represented by a worker.         *)
LEMMA NoWorkerType == NoWorker \in WorkerRec
  BY SizesAssumption DEF NoWorker, WorkerRec, Pc

(* A non-empty set of naturals has a least element.                        *)
LEMMA LeastElement ==
  ASSUME NEW S \in SUBSET Nat, S # {}
  PROVE  \E m \in S : \A k \in S : m <= k
<1> DEFINE LT == {ss \in Nat \X Nat : ss[1] < ss[2]}
<1>1. OpToRel(<, Nat) = LT
  BY Zenon DEF OpToRel
<1>2. IsWellFoundedOn(LT, Nat)
  BY <1>1, NatLessThanWellFounded, Zenon
<1>3. \A i, j \in Nat : i < j => <<i, j>> \in LT
  OBVIOUS
<1> HIDE DEF LT
<1>4. \E m \in S : \A k \in S : <<k, m>> \notin LT
  BY <1>2, WFMin, Zenon
<1>5. PICK m \in S : \A k \in S : <<k, m>> \notin LT
  BY <1>4
<1>6. \A k \in S : m <= k
  <2> TAKE k \in S
  <2>1. k \in Nat /\ m \in Nat
    OBVIOUS
  <2>2. ~(k < m)
    BY <1>3, <1>5, <2>1
  <2>3. QED
    BY <2>1, <2>2
<1>7. QED
  BY <1>6

(* The placing loop fills exactly one entry, an empty one, if there is any.*)
LEMMA PlaceFirstFills ==
  ASSUME NEW N \in Nat, NEW slots, DOMAIN slots = 1..N, NEW x,
         \E i \in 1..N : slots[i] = NULL
  PROVE  \E i \in 1..N : /\ slots[i] = NULL
                         /\ PlaceFirst(slots, x) = [slots EXCEPT ![i] = x]
<1> DEFINE Empty == {i \in 1..N : slots[i] = NULL}
<1>1. PICK i \in Empty : \A k \in Empty : i <= k
  <2>1. Empty \in SUBSET Nat /\ Empty # {}
    OBVIOUS
  <2> HIDE DEF Empty
  <2>2. QED
    BY <2>1, LeastElement
<1>2. DOMAIN slots = 1..N
  OBVIOUS
<1>3. IsFirstFree(slots, i)
  BY <1>1, <1>2 DEF IsFirstFree
<1>4. \A j \in 1..N : IsFirstFree(slots, j) => j = i
  BY <1>1, <1>2, <1>3 DEF IsFirstFree
<1>5. PlaceFirst(slots, x) = [slots EXCEPT ![i] = x]
  BY <1>1, <1>2, <1>3, <1>4 DEF PlaceFirst
<1>6. QED
  BY <1>1, <1>5

(* A set of slots is finite, and is all of them if it is as large.         *)
LEMMA SlotsFinite ==
  ASSUME NEW S \in SUBSET Slot
  PROVE  /\ IsFiniteSet(S)
         /\ Cardinality(S) \in Nat
         /\ Cardinality(S) <= MAX_INSTANCES
         /\ Cardinality(S) = MAX_INSTANCES => S = Slot
<1>1. IsFiniteSet(Slot) /\ Cardinality(Slot) = MAX_INSTANCES
  BY FS_Interval, SizesAssumption DEF Slot
<1>2. QED
  BY <1>1, FS_Subset, FS_CardinalityType

(* An array that counts fewer instances than it has entries has room.      *)
LEMMA RoomInArray ==
  ASSUME NEW t \in Task, TBTypeOK, CountMatches,
         num_instances[t] < MAX_INSTANCES
  PROVE  \E i \in Slot : instances[t][i] = NULL
<1>1. UsedSlots(t) \in SUBSET Slot
  BY DEF UsedSlots
<1>2. Cardinality(UsedSlots(t)) < MAX_INSTANCES
  BY DEF CountMatches
<1>3. UsedSlots(t) # Slot
  <2>1. Cardinality(Slot) = MAX_INSTANCES
    BY FS_Interval, SizesAssumption DEF Slot
  <2>2. QED
    BY <1>1, <1>2, <2>1, SlotsFinite, SizesAssumption
<1>4. QED
  BY <1>1, <1>3 DEF UsedSlots

(* Only one entry is the first with a given serial id.                     *)
LEMMA InstanceIndexUnique ==
  ASSUME NEW t \in Task, NEW id, NEW i \in Slot, NEW j \in Slot,
         IsInstanceIndex(t, id, i), IsInstanceIndex(t, id, j)
  PROVE  i = j
  BY SizesAssumption DEF IsInstanceIndex, Slot

-----------------------------------------------------------------------------
(* The inductive invariant *)

(* A FreeRTOS task that exists was given an instance.                      *)
WorkerHasInst == \A w \in Worker : worker[w].pc # "none" => worker[w].inst \in Inst

(* The types need the counts, or a counter could be decremented below 0;   *)
(* the counts need the table, or destroying could clear another's entry;   *)
(* a worker's ownership needs its instance's handle, which is part of it.  *)
IInv ==
  /\ TBTypeOK
  /\ InstanceTable
  /\ CountMatches
  /\ WorkerHasInst
  /\ ActiveWorkerOwns
  /\ NoLostDeadCount

(* An empty board, no instance and no FreeRTOS task: the invariant holds.  *)
LEMMA InitIInv == TBInit => IInv
<1> SUFFICES ASSUME TBInit PROVE IInv
  OBVIOUS
<1> USE DEF TBInit
<1>1. TBTypeOK
  <2>1. 0 \in 0..(UINT32 - 1)
    BY SizesAssumption
  <2>2. inst \in [Inst -> InstRec]
    BY NoInstanceType
  <2>3. worker \in [Worker -> WorkerRec]
    BY NoWorkerType
  <2>4. QED
    BY <2>1, <2>2, <2>3 DEF TBTypeOK
<1>2. \A t \in Task : UsedSlots(t) = {}
  BY DEF UsedSlots
<1>3. InstanceTable
  BY <1>2 DEF InstanceTable, SlotsSound, SlotsDistinct, NoOrphan
<1>4. CountMatches
  BY <1>2, FS_EmptySet DEF CountMatches
<1>5. WorkerHasInst /\ ActiveWorkerOwns /\ NoLostDeadCount
  BY DEF WorkerHasInst, ActiveWorkerOwns, NoLostDeadCount, NoWorker
<1>6. QED
  BY <1>1, <1>3, <1>4, <1>5 DEF IInv

(* A step that touches neither the arrays nor the heap's bookkeeping, and  *)
(* no instance's parent, keeps the table.                                  *)
LEMMA TableKept ==
  ASSUME InstanceTable, CountMatches, UNCHANGED <<tablevars, allocated>>,
         \A p \in allocated : inst'[p].parent_task = inst[p].parent_task
  PROVE  InstanceTable' /\ CountMatches'
<1>1. \A t \in Task : UsedSlots(t)' = UsedSlots(t)
  BY DEF UsedSlots, tablevars
<1>2. SlotsSound'
  BY <1>1 DEF InstanceTable, SlotsSound, tablevars
<1>3. SlotsDistinct'
  BY <1>1 DEF InstanceTable, SlotsDistinct, tablevars
<1>4. NoOrphan'
  BY DEF InstanceTable, NoOrphan, tablevars
<1>5. CountMatches'
  BY <1>1 DEF CountMatches, tablevars
<1>6. QED
  BY <1>2, <1>3, <1>4, <1>5 DEF InstanceTable

(* Registering a task touches only tasks[] and its counter.                *)
LEMMA RegisterStep ==
  ASSUME IInv, NEW t \in Task, tboard_register_task(t)
  PROVE  IInv'
<1> USE DEF tboard_register_task, boardvars, deadvars, tablevars
<1>1. TBTypeOK'
  <2>1. tasks' \in [TaskSlot -> Task \cup {NULL}]
    BY DEF IInv, TBTypeOK, PlaceFirst
  <2>2. num_tasks' \in 0..(UINT32 - 1)
    BY SizesAssumption DEF IInv, TBTypeOK
  <2>3. QED
    BY <2>1, <2>2 DEF IInv, TBTypeOK
<1>2. InstanceTable' /\ CountMatches'
  BY TableKept DEF IInv
<1>3. WorkerHasInst' /\ NoLostDeadCount'
  BY DEF IInv, WorkerHasInst, NoLostDeadCount
<1>4. ActiveWorkerOwns'
  BY DEF IInv, ActiveWorkerOwns, Rightful
<1>5. QED
  BY <1>1, <1>2, <1>3, <1>4 DEF IInv

(* Starting places the new instance in an entry that was empty.            *)
LEMMA StartPlaces ==
  ASSUME IInv, NEW t \in Task, NEW id, NEW a, NEW s, NEW p \in Inst, NEW w,
         tboard_start_task(t, id, a, s, p, w)
  PROVE  \E i \in Slot :
            /\ instances[t][i] = NULL
            /\ instances' = [instances EXCEPT ![t] = [@ EXCEPT ![i] = p]]
<1>1. num_instances[t] < MAX_INSTANCES
  BY SizesAssumption DEF tboard_start_task, CreateRefused, IInv, TBTypeOK
<1>2. \E i \in Slot : instances[t][i] = NULL
  BY <1>1, RoomInArray DEF IInv
<1>3. instances[t] \in [1..MAX_INSTANCES -> Inst \cup {NULL}]
  BY DEF IInv, TBTypeOK, Slot
<1>4. PICK i \in Slot : /\ instances[t][i] = NULL
                        /\ PlaceFirst(instances[t], p) = [instances[t] EXCEPT ![i] = p]
  <2> DEFINE slots == instances[t]
  <2>1. /\ MAX_INSTANCES \in Nat
        /\ DOMAIN slots = 1..MAX_INSTANCES
        /\ \E i \in 1..MAX_INSTANCES : slots[i] = NULL
    BY <1>2, <1>3, SizesAssumption DEF Slot
  <2> HIDE DEF slots
  <2>2. \E i \in 1..MAX_INSTANCES :
           slots[i] = NULL /\ PlaceFirst(slots, p) = [slots EXCEPT ![i] = p]
    BY <2>1, PlaceFirstFills
  <2>3. QED
    BY <2>2 DEF slots, Slot
<1>5. QED
  BY <1>4 DEF tboard_start_task, IInv, TBTypeOK

(* Starting a task: a new address enters one table entry, and a worker that*)
(* did not exist becomes its owner.                                        *)
LEMMA StartStep ==
  ASSUME IInv, NEW t \in Task, NEW id \in Serial, NEW a \in Sig \cup {NULL},
         NEW s \in Source, NEW p \in Inst, NEW w \in Worker \cup {NULL},
         tboard_start_task(t, id, a, s, p, w)
  PROVE  IInv'
<1> DEFINE new == NewInstance(t, id, a, s, w)
<1>1. PICK i \in Slot :
         /\ instances[t][i] = NULL
         /\ instances' = [instances EXCEPT ![t] = [@ EXCEPT ![i] = p]]
  BY StartPlaces
<1>2. /\ p \notin allocated
      /\ allocated' = allocated \cup {p}
      /\ inst' = [inst EXCEPT ![p] = new]
      /\ num_instances' = [num_instances EXCEPT ![t] = @ + 1]
      /\ UNCHANGED <<boardvars, deadvars>>
  BY DEF tboard_start_task
<1>3. \/ w = NULL /\ UNCHANGED worker
      \/ /\ w \in Worker
         /\ worker[w].pc = "none"
         /\ worker' = [worker EXCEPT ![w] = [pc |-> "created", inst |-> p, tmp |-> 0]]
  BY DEF tboard_start_task
<1>4. new \in InstRec /\ new.parent_task = t /\ new.task_handle_frtos = w
        /\ new.has_finished = FALSE
  BY NewInstanceType DEF NewInstance
<1> HIDE DEF new
<1>5. TBTypeOK
  BY DEF IInv
<1>6. TBTypeOK'
  <2>1. instances' \in [Task -> [Slot -> Inst \cup {NULL}]]
    BY <1>1, <1>5 DEF TBTypeOK
  <2>2. num_instances' \in [Task -> Nat] /\ allocated' \in SUBSET Inst
    BY <1>2, <1>5 DEF TBTypeOK
  <2>3. inst' \in [Inst -> InstRec]
    BY <1>2, <1>4, <1>5 DEF TBTypeOK
  <2>4. worker' \in [Worker -> WorkerRec]
    <3>1. [pc |-> "created", inst |-> p, tmp |-> 0] \in WorkerRec
      BY SizesAssumption DEF WorkerRec, Pc
    <3>2. QED
      BY <1>3, <1>5, <3>1 DEF TBTypeOK
  <2>5. QED
    BY <1>2, <1>5, <2>1, <2>2, <2>3, <2>4 DEF TBTypeOK, boardvars, deadvars
<1>7. /\ UsedSlots(t)' = UsedSlots(t) \cup {i}
      /\ i \notin UsedSlots(t)
      /\ \A u \in Task \ {t} : UsedSlots(u)' = UsedSlots(u)
  BY <1>1, <1>5, SetsAssumption DEF TBTypeOK, UsedSlots
<1>8. SlotsSound'
  BY <1>1, <1>2, <1>4, <1>5, <1>7 DEF IInv, InstanceTable, SlotsSound, TBTypeOK, UsedSlots
<1>9. SlotsDistinct'
  BY <1>1, <1>2, <1>5, <1>7
     DEF IInv, InstanceTable, SlotsSound, SlotsDistinct, TBTypeOK, UsedSlots
<1>10. NoOrphan'
  <2> SUFFICES ASSUME NEW q \in allocated'
               PROVE  \E u \in Task, j \in Slot : instances'[u][j] = q
    BY DEF NoOrphan
  <2>1. CASE q = p
    BY <1>1, <1>5, <2>1 DEF TBTypeOK
  <2>2. CASE q # p
    <3>1. PICK u \in Task, j \in Slot : instances[u][j] = q
      BY <1>2, <2>2 DEF IInv, InstanceTable, NoOrphan
    <3>2. q # NULL
      BY <1>2, <1>5, <2>2, SetsAssumption DEF TBTypeOK
    <3>3. instances'[u][j] = q
      BY <1>1, <1>5, <3>1, <3>2 DEF TBTypeOK
    <3>4. QED
      BY <3>3
  <2>3. QED
    BY <2>1, <2>2
<1>11. CountMatches'
  <2>1. Cardinality(UsedSlots(t)') = Cardinality(UsedSlots(t)) + 1
    <3>1. UsedSlots(t) \in SUBSET Slot
      BY DEF UsedSlots
    <3>2. IsFiniteSet(UsedSlots(t))
      BY <3>1, SlotsFinite
    <3>3. QED
      BY <1>7, <3>2, FS_AddElement
  <2>2. QED
    BY <1>2, <1>5, <1>7, <2>1 DEF IInv, CountMatches, TBTypeOK
<1>12. WorkerHasInst'
  BY <1>3, <1>5 DEF IInv, WorkerHasInst, TBTypeOK
<1>13. ActiveWorkerOwns'
  BY <1>2, <1>3, <1>4, <1>5
     DEF IInv, ActiveWorkerOwns, Rightful, TBTypeOK
<1>14. NoLostDeadCount'
  BY <1>2, <1>3, <1>5 DEF IInv, NoLostDeadCount, deadvars, TBTypeOK
<1>15. QED
  BY <1>6, <1>8, <1>9, <1>10, <1>11, <1>12, <1>13, <1>14
     DEF IInv, InstanceTable

(* Destroying the instance a lookup has found clears the entry that points *)
(* to it, and no other.                                                    *)
LEMMA CollectClears ==
  ASSUME IInv, NEW t \in Task, NEW id, NEW p \in Inst, Found(t, id, p), Collect(p)
  PROVE  \E i \in Slot :
            /\ instances[t][i] = p /\ p \in allocated /\ inst[p].has_finished
            /\ instances' = [instances EXCEPT ![t][i] = NULL]
            /\ num_instances' = [num_instances EXCEPT ![t] = @ - 1]
            /\ allocated' = allocated \ {p}
            /\ inst' = [inst EXCEPT ![p] = NoInstance]
<1>1. PICK i \in Slot : IsInstanceIndex(t, id, i) /\ instances[t][i] = p
  BY DEF Found
<1>2. inst[p].serial_id = id /\ p # NULL
  BY <1>1 DEF IsInstanceIndex
<1>3. p \in allocated /\ inst[p].parent_task = t
  BY <1>1, <1>2 DEF IInv, InstanceTable, SlotsSound, UsedSlots
<1>4. PICK j \in Slot :
         /\ IsInstanceIndex(t, id, j)
         /\ instances' = [instances EXCEPT ![t][j] = NULL]
         /\ num_instances' = [num_instances EXCEPT ![t] = @ - 1]
         /\ allocated' = allocated \ {p}
         /\ inst' = [inst EXCEPT ![p] = NoInstance]
  BY <1>2, <1>3 DEF Collect, task_instance_destroy, CountedOut
<1>5. i = j
  BY <1>1, <1>4, InstanceIndexUnique
<1>6. inst[p].has_finished
  BY DEF Collect, ResultReady
<1>7. QED
  BY <1>1, <1>3, <1>4, <1>5, <1>6

(* Collecting a result: the instance leaves the heap and its one entry, and*)
(* since it has finished no active worker owned it.                        *)
LEMMA CollectStep ==
  ASSUME IInv, NEW t \in Task, NEW id \in Serial, NEW p \in Inst,
         Found(t, id, p), Collect(p)
  PROVE  IInv'
<1>1. PICK i \in Slot :
         /\ instances[t][i] = p /\ p \in allocated /\ inst[p].has_finished
         /\ instances' = [instances EXCEPT ![t][i] = NULL]
         /\ num_instances' = [num_instances EXCEPT ![t] = @ - 1]
         /\ allocated' = allocated \ {p}
         /\ inst' = [inst EXCEPT ![p] = NoInstance]
  BY CollectClears
<1>2. UNCHANGED <<boardvars, deadvars, worker>>
  BY DEF Collect
<1>3. TBTypeOK /\ p # NULL
  BY SetsAssumption DEF IInv
<1>4. /\ UsedSlots(t)' = UsedSlots(t) \ {i}
      /\ i \in UsedSlots(t)
      /\ \A u \in Task \ {t} : UsedSlots(u)' = UsedSlots(u)
  BY <1>1, <1>3 DEF TBTypeOK, UsedSlots
<1>5. /\ IsFiniteSet(UsedSlots(t))
      /\ Cardinality(UsedSlots(t)) = num_instances[t]
      /\ Cardinality(UsedSlots(t)') = num_instances[t] - 1
      /\ num_instances[t] - 1 \in Nat
  <2>1. UsedSlots(t) \in SUBSET Slot /\ UsedSlots(t) \ {i} \in SUBSET Slot
    BY DEF UsedSlots
  <2>2. IsFiniteSet(UsedSlots(t)) /\ Cardinality(UsedSlots(t) \ {i}) \in Nat
    BY <2>1, SlotsFinite
  <2>3. Cardinality(UsedSlots(t) \ {i}) = Cardinality(UsedSlots(t)) - 1
    BY <1>4, <2>2, FS_RemoveElement
  <2>4. Cardinality(UsedSlots(t)) = num_instances[t]
    BY DEF IInv, CountMatches
  <2>5. QED
    BY <1>4, <2>2, <2>3, <2>4
<1>6. TBTypeOK'
  <2>1. instances' \in [Task -> [Slot -> Inst \cup {NULL}]]
    BY <1>1, <1>3 DEF TBTypeOK
  <2>2. num_instances' \in [Task -> Nat]
    BY <1>1, <1>3, <1>5 DEF TBTypeOK
  <2>3. inst' \in [Inst -> InstRec]
    BY <1>1, <1>3, NoInstanceType DEF TBTypeOK
  <2>4. allocated' \in SUBSET Inst
    BY <1>1, <1>3 DEF TBTypeOK
  <2>5. QED
    BY <1>2, <1>3, <2>1, <2>2, <2>3, <2>4 DEF TBTypeOK, boardvars, deadvars
<1>7. \A u \in Task : \A j \in UsedSlots(u)' :
         /\ j \in UsedSlots(u)
         /\ instances'[u][j] = instances[u][j]
         /\ instances[u][j] # p
  <2> SUFFICES ASSUME NEW u \in Task, NEW j \in UsedSlots(u)'
               PROVE  /\ j \in UsedSlots(u)
                      /\ instances'[u][j] = instances[u][j]
                      /\ instances[u][j] # p
    OBVIOUS
  <2>1. j \in UsedSlots(u) /\ j \in Slot /\ <<u, j>> # <<t, i>>
    BY <1>4 DEF UsedSlots
  <2>2. instances'[u][j] = instances[u][j]
    BY <1>1, <1>3, <2>1 DEF TBTypeOK
  <2>3. instances[u][j] # p
    BY <1>1, <1>4, <2>1 DEF IInv, InstanceTable, SlotsSound, SlotsDistinct
  <2>4. QED
    BY <2>1, <2>2, <2>3
<1>8. SlotsSound'
  BY <1>1, <1>3, <1>7 DEF IInv, InstanceTable, SlotsSound, TBTypeOK
<1>9. SlotsDistinct'
  BY <1>7 DEF IInv, InstanceTable, SlotsDistinct
<1>10. NoOrphan'
  <2> SUFFICES ASSUME NEW q \in allocated'
               PROVE  \E u \in Task, j \in Slot : instances'[u][j] = q
    BY DEF NoOrphan
  <2>1. q \in allocated /\ q # p
    BY <1>1
  <2>2. PICK u \in Task, j \in Slot : instances[u][j] = q
    BY <2>1 DEF IInv, InstanceTable, NoOrphan
  <2>3. instances'[u][j] = q
    BY <1>1, <1>3, <2>1, <2>2 DEF TBTypeOK
  <2>4. QED
    BY <2>3
<1>11. CountMatches'
  BY <1>1, <1>3, <1>4, <1>5 DEF IInv, CountMatches, TBTypeOK
<1>12. WorkerHasInst'
  BY <1>2 DEF IInv, WorkerHasInst
<1>13. ActiveWorkerOwns'
  BY <1>1, <1>2, <1>3 DEF IInv, ActiveWorkerOwns, Rightful, TBTypeOK
<1>14. NoLostDeadCount'
  BY <1>2 DEF IInv, NoLostDeadCount, deadvars
<1>15. QED
  BY <1>6, <1>8, <1>9, <1>10, <1>11, <1>12, <1>13, <1>14
     DEF IInv, InstanceTable

(* A worker that moves on to the next statement is still a worker.         *)
LEMMA GotoType ==
  ASSUME TBTypeOK, NEW w \in Worker, NEW from, NEW to \in Pc, Goto(w, from, to)
  PROVE  worker' \in [Worker -> WorkerRec]
<1>1. [worker[w] EXCEPT !.pc = to] \in WorkerRec
  BY DEF TBTypeOK, WorkerRec
<1>2. worker' = [worker EXCEPT ![w] = [worker[w] EXCEPT !.pc = to]]
  BY DEF Goto
<1>3. QED
  BY <1>1, <1>2 DEF TBTypeOK

(* Setting a flag or the result of an instance leaves an instance.         *)
LEMMA FlagsType ==
  ASSUME NEW r \in InstRec, NEW b \in BOOLEAN, NEW v \in Value
  PROVE  /\ [r EXCEPT !.is_running = b] \in InstRec
         /\ [r EXCEPT !.has_finished = b] \in InstRec
         /\ [r EXCEPT !.return_arg = v] \in InstRec
  BY DEF InstRec

(* A worker begins to run its function: it was active and stays active, on *)
(* the instance it owns.                                                   *)
LEMMA BeginEntryStep ==
  ASSUME IInv, NEW w \in Worker, BeginEntry(w)
  PROVE  IInv'
<1> DEFINE p == worker[w].inst
<1>1. /\ worker[w].pc = "created"
      /\ worker' = [worker EXCEPT ![w].pc = "running"]
      /\ inst' = [inst EXCEPT ![p].is_running = TRUE]
      /\ UNCHANGED <<boardvars, deadvars, tablevars, allocated>>
  BY DEF BeginEntry, Goto
<1>2. TBTypeOK /\ p \in Inst
  BY <1>1 DEF IInv, WorkerHasInst
<1>3. TBTypeOK'
  <2>1. worker' \in [Worker -> WorkerRec]
    BY <1>2, GotoType DEF BeginEntry, Pc
  <2>2. [inst[p] EXCEPT !.is_running = TRUE] \in InstRec
    BY <1>2, FlagsType DEF TBTypeOK, Value
  <2>3. inst' \in [Inst -> InstRec]
    BY <1>1, <1>2, <2>2 DEF TBTypeOK
  <2>4. QED
    BY <1>1, <1>2, <2>1, <2>3 DEF TBTypeOK, boardvars, deadvars, tablevars
<1>4. InstanceTable' /\ CountMatches'
  BY <1>1, <1>2, TableKept DEF IInv, TBTypeOK
<1>5. WorkerHasInst'
  BY <1>1, <1>2 DEF IInv, WorkerHasInst, TBTypeOK
<1>6. ActiveWorkerOwns'
  BY <1>1, <1>2 DEF IInv, ActiveWorkerOwns, Rightful, TBTypeOK, InstRec
<1>7. NoLostDeadCount'
  BY <1>1, <1>2 DEF IInv, NoLostDeadCount, TBTypeOK, deadvars
<1>8. QED
  BY <1>3, <1>4, <1>5, <1>6, <1>7 DEF IInv

(* The function's result goes into the worker's own instance.              *)
LEMMA EntryReturnsStep ==
  ASSUME IInv, NEW w \in Worker, NEW v \in Value, EntryReturns(w, v)
  PROVE  IInv'
<1> DEFINE p == worker[w].inst
<1>1. /\ worker[w].pc = "running"
      /\ worker' = [worker EXCEPT ![w].pc = "returned"]
      /\ inst' = [inst EXCEPT ![p].return_arg = v]
      /\ UNCHANGED <<boardvars, deadvars, tablevars, allocated>>
  BY DEF EntryReturns, Goto
<1>2. TBTypeOK /\ p \in Inst
  BY <1>1 DEF IInv, WorkerHasInst
<1>3. TBTypeOK'
  <2>1. worker' \in [Worker -> WorkerRec]
    BY <1>2, GotoType DEF EntryReturns, Pc
  <2>2. [inst[p] EXCEPT !.return_arg = v] \in InstRec
    BY <1>2, FlagsType DEF TBTypeOK, Value
  <2>3. inst' \in [Inst -> InstRec]
    BY <1>1, <1>2, <2>2 DEF TBTypeOK
  <2>4. QED
    BY <1>1, <1>2, <2>1, <2>3 DEF TBTypeOK, boardvars, deadvars, tablevars
<1>4. InstanceTable' /\ CountMatches'
  BY <1>1, <1>2, TableKept DEF IInv, TBTypeOK
<1>5. WorkerHasInst'
  BY <1>1, <1>2 DEF IInv, WorkerHasInst, TBTypeOK
<1>6. ActiveWorkerOwns'
  BY <1>1, <1>2 DEF IInv, ActiveWorkerOwns, Rightful, TBTypeOK, InstRec
<1>7. NoLostDeadCount'
  BY <1>1, <1>2 DEF IInv, NoLostDeadCount, TBTypeOK, deadvars
<1>8. QED
  BY <1>3, <1>4, <1>5, <1>6, <1>7 DEF IInv

(* The only step that marks an instance finished: no other active worker   *)
(* has that instance, because its handle names one worker.                 *)
LEMMA SetFinishedStep ==
  ASSUME IInv, NEW w \in Worker, SetFinished(w)
  PROVE  IInv'
<1> DEFINE p == worker[w].inst
<1>1. /\ worker[w].pc = "returned"
      /\ worker' = [worker EXCEPT ![w].pc = "finished"]
      /\ inst' = [inst EXCEPT ![p].has_finished = TRUE]
      /\ UNCHANGED <<boardvars, deadvars, tablevars, allocated>>
  BY DEF SetFinished, Goto
<1>2. TBTypeOK /\ p \in Inst
  BY <1>1 DEF IInv, WorkerHasInst
<1>3. TBTypeOK'
  <2>1. worker' \in [Worker -> WorkerRec]
    BY <1>2, GotoType DEF SetFinished, Pc
  <2>2. [inst[p] EXCEPT !.has_finished = TRUE] \in InstRec
    BY <1>2, FlagsType DEF TBTypeOK, Value
  <2>3. inst' \in [Inst -> InstRec]
    BY <1>1, <1>2, <2>2 DEF TBTypeOK
  <2>4. QED
    BY <1>1, <1>2, <2>1, <2>3 DEF TBTypeOK, boardvars, deadvars, tablevars
<1>4. InstanceTable' /\ CountMatches'
  BY <1>1, <1>2, TableKept DEF IInv, TBTypeOK
<1>5. WorkerHasInst'
  BY <1>1, <1>2 DEF IInv, WorkerHasInst, TBTypeOK
<1>6. ActiveWorkerOwns'
  <2> SUFFICES ASSUME NEW u \in Worker,
                      worker'[u].pc \in {"created", "running", "returned"}
               PROVE  /\ Rightful(u)'
                      /\ ~inst'[worker'[u].inst].has_finished
    BY DEF ActiveWorkerOwns
  <2>1. u # w /\ worker'[u] = worker[u]
    BY <1>1, <1>2 DEF TBTypeOK
  <2>2. Rightful(u) /\ ~inst[worker[u].inst].has_finished
    BY <2>1 DEF IInv, ActiveWorkerOwns
  <2>3. Rightful(w)
    BY <1>1 DEF IInv, ActiveWorkerOwns
  <2>4. worker[u].inst # p
    BY <2>1, <2>2, <2>3 DEF Rightful
  <2>5. inst'[worker[u].inst] = inst[worker[u].inst]
    BY <1>1, <1>2, <2>2, <2>4 DEF Rightful, TBTypeOK
  <2>6. /\ worker'[u].inst = worker[u].inst
        /\ inst'[worker'[u].inst] = inst[worker[u].inst]
        /\ allocated' = allocated
    BY <1>1, <2>1, <2>5
  <2>7. QED
    BY <2>2, <2>6 DEF Rightful
<1>7. NoLostDeadCount'
  BY <1>1, <1>2 DEF IInv, NoLostDeadCount, TBTypeOK, deadvars
<1>8. QED
  BY <1>3, <1>4, <1>5, <1>6, <1>7 DEF IInv

(* Clearing is_running, in whatever block the pointer leads to, touches    *)
(* nothing the invariant speaks of.                                        *)
LEMMA ClearRunningStep ==
  ASSUME IInv, NEW w \in Worker, ClearRunning(w)
  PROVE  IInv'
<1> DEFINE p == worker[w].inst
<1>1. /\ worker[w].pc = "finished"
      /\ worker' = [worker EXCEPT ![w].pc = "stopped"]
      /\ \/ inst' = [inst EXCEPT ![p].is_running = FALSE]
         \/ inst' = inst
      /\ UNCHANGED <<boardvars, deadvars, tablevars, allocated>>
  BY DEF ClearRunning, Goto
<1>2. TBTypeOK /\ p \in Inst
  BY <1>1 DEF IInv, WorkerHasInst
<1>3. TBTypeOK'
  <2>1. worker' \in [Worker -> WorkerRec]
    BY <1>2, GotoType DEF ClearRunning, Pc
  <2>2. [inst[p] EXCEPT !.is_running = FALSE] \in InstRec
    BY <1>2, FlagsType DEF TBTypeOK, Value
  <2>3. inst' \in [Inst -> InstRec]
    BY <1>1, <1>2, <2>2 DEF TBTypeOK
  <2>4. QED
    BY <1>1, <1>2, <2>1, <2>3 DEF TBTypeOK, boardvars, deadvars, tablevars
<1>4. \A q \in Inst : /\ inst'[q].parent_task = inst[q].parent_task
                      /\ inst'[q].task_handle_frtos = inst[q].task_handle_frtos
                      /\ inst'[q].has_finished = inst[q].has_finished
  BY <1>1, <1>2 DEF TBTypeOK, InstRec
<1>5. InstanceTable' /\ CountMatches'
  BY <1>1, <1>2, <1>4, TableKept DEF IInv, TBTypeOK
<1>6. WorkerHasInst'
  BY <1>1, <1>2 DEF IInv, WorkerHasInst, TBTypeOK
<1>7. ActiveWorkerOwns'
  BY <1>1, <1>2, <1>4 DEF IInv, ActiveWorkerOwns, Rightful, TBTypeOK
<1>8. NoLostDeadCount'
  BY <1>1, <1>2 DEF IInv, NoLostDeadCount, TBTypeOK, deadvars
<1>9. QED
  BY <1>3, <1>5, <1>6, <1>7, <1>8 DEF IInv

(* Storing the result a second time, maybe into another instance, touches  *)
(* nothing the invariant speaks of.                                        *)
LEMMA StoreReturnStep ==
  ASSUME IInv, NEW w \in Worker, StoreReturn(w)
  PROVE  IInv'
<1> DEFINE p == worker[w].inst
<1>1. /\ worker[w].pc = "stopped"
      /\ worker' = [worker EXCEPT ![w].pc = "stored"]
      /\ \/ inst' = [inst EXCEPT ![p].return_arg = Garbage]
         \/ inst' = inst
      /\ UNCHANGED <<boardvars, deadvars, tablevars, allocated>>
  BY DEF StoreReturn, Goto
<1>2. TBTypeOK /\ p \in Inst
  BY <1>1 DEF IInv, WorkerHasInst
<1>3. TBTypeOK'
  <2>1. worker' \in [Worker -> WorkerRec]
    BY <1>2, GotoType DEF StoreReturn, Pc
  <2>2. [inst[p] EXCEPT !.return_arg = Garbage] \in InstRec
    BY <1>2, FlagsType DEF TBTypeOK, Value
  <2>3. inst' \in [Inst -> InstRec]
    BY <1>1, <1>2, <2>2 DEF TBTypeOK
  <2>4. QED
    BY <1>1, <1>2, <2>1, <2>3 DEF TBTypeOK, boardvars, deadvars, tablevars
<1>4. \A q \in Inst : /\ inst'[q].parent_task = inst[q].parent_task
                      /\ inst'[q].task_handle_frtos = inst[q].task_handle_frtos
                      /\ inst'[q].has_finished = inst[q].has_finished
  BY <1>1, <1>2 DEF TBTypeOK, InstRec
<1>5. InstanceTable' /\ CountMatches'
  BY <1>1, <1>2, <1>4, TableKept DEF IInv, TBTypeOK
<1>6. WorkerHasInst'
  BY <1>1, <1>2 DEF IInv, WorkerHasInst, TBTypeOK
<1>7. ActiveWorkerOwns'
  BY <1>1, <1>2, <1>4 DEF IInv, ActiveWorkerOwns, Rightful, TBTypeOK
<1>8. NoLostDeadCount'
  BY <1>1, <1>2 DEF IInv, NoLostDeadCount, TBTypeOK, deadvars
<1>9. QED
  BY <1>3, <1>5, <1>6, <1>7, <1>8 DEF IInv

(* The steps around the mutex leave table and heap alone: what is left is  *)
(* the worker that ends, waits or counts.                                  *)
LEMMA DeathStep ==
  ASSUME IInv, NEW w \in Worker,
         TakeMutex(w) \/ MutexTimeout(w) \/ LoadDead(w) \/ CountDead(w)
  PROVE  IInv'
<1>1. UNCHANGED <<boardvars, tablevars, inst, allocated>>
  BY DEF TakeMutex, MutexTimeout, LoadDead, CountDead, deadvars
<1>2. TBTypeOK
  BY DEF IInv
<1>3. /\ \A u \in Worker \ {w} : worker'[u] = worker[u]
      /\ worker'[w].pc \in {"none", "locked", "loaded"}
      /\ worker'[w].pc # "none" => worker'[w].inst = worker[w].inst /\ worker[w].pc # "none"
  BY <1>2 DEF TakeMutex, MutexTimeout, LoadDead, CountDead, Goto, NoWorker,
              TBTypeOK, WorkerRec
<1>4. TBTypeOK'
  <2>1. worker' \in [Worker -> WorkerRec]
    BY <1>2, NoWorkerType
       DEF TakeMutex, MutexTimeout, LoadDead, CountDead, Goto, TBTypeOK, WorkerRec, Pc
  <2>2. num_dead_tasks' \in 0..(UINT32 - 1)
    BY <1>2, SizesAssumption
       DEF TakeMutex, MutexTimeout, LoadDead, CountDead, TBTypeOK, WorkerRec, deadvars
  <2>3. mutex' \in Worker \cup {NULL}
    BY <1>2 DEF TakeMutex, MutexTimeout, LoadDead, CountDead, TBTypeOK, deadvars
  <2>4. last_dead_task_id' \in Serial \cup {0, Garbage}
    <3>1. CASE TakeMutex(w)
      <4>1. worker[w].inst \in allocated =>
               inst[worker[w].inst].serial_id \in Serial \cup {0}
        BY <1>2 DEF TBTypeOK, InstRec
      <4>2. QED
        BY <3>1, <4>1 DEF TakeMutex
    <3>2. CASE ~TakeMutex(w)
      BY <1>2, <3>2 DEF MutexTimeout, LoadDead, CountDead, TBTypeOK, deadvars
    <3>3. QED
      BY <3>1, <3>2
  <2>5. QED
    BY <1>1, <1>2, <2>1, <2>2, <2>3, <2>4 DEF TBTypeOK, boardvars, tablevars
<1>5. InstanceTable' /\ CountMatches'
  BY <1>1, TableKept DEF IInv
<1>6. WorkerHasInst'
  BY <1>3 DEF IInv, WorkerHasInst
<1>7. ActiveWorkerOwns'
  BY <1>1, <1>3 DEF IInv, ActiveWorkerOwns, Rightful
<1>8. NoLostDeadCount'
  <2>1. CASE TakeMutex(w)
    BY <1>2, <2>1, SetsAssumption
       DEF IInv, NoLostDeadCount, TakeMutex, Goto, MutexFree, TBTypeOK, WorkerRec
  <2>2. CASE MutexTimeout(w)
    BY <1>2, <2>2
       DEF IInv, NoLostDeadCount, MutexTimeout, NoWorker, TBTypeOK, WorkerRec, deadvars
  <2>3. CASE LoadDead(w)
    BY <1>2, <2>3
       DEF IInv, NoLostDeadCount, LoadDead, TBTypeOK, WorkerRec, deadvars
  <2>4. CASE CountDead(w)
    BY <1>2, <2>4
       DEF IInv, NoLostDeadCount, CountDead, NoWorker, TBTypeOK, WorkerRec
  <2>5. QED
    BY <2>1, <2>2, <2>3, <2>4
<1>9. QED
  BY <1>4, <1>5, <1>6, <1>7, <1>8 DEF IInv

-----------------------------------------------------------------------------
(* The theorems *)

(* Every step of the board keeps the invariant.                            *)
LEMMA NextIInv == IInv /\ [TBNext]_tbvars => IInv'
<1> SUFFICES ASSUME IInv, [TBNext]_tbvars PROVE IInv'
  OBVIOUS
<1>1. CASE \E t \in Task : tboard_register_task(t)
  BY <1>1, RegisterStep
<1>2. CASE \E t \in Task, id \in Serial, a \in Sig \cup {NULL}, s \in Source,
              p \in Inst, w \in Worker \cup {NULL} :
              tboard_start_task(t, id, a, s, p, w)
  BY <1>2, StartStep
<1>3. CASE \E t \in Task, id \in Serial, p \in Inst : Found(t, id, p) /\ Collect(p)
  BY <1>3, CollectStep
<1>4. CASE \E w \in Worker : BeginEntry(w)
  BY <1>4, BeginEntryStep
<1>5. CASE \E w \in Worker, v \in Value : EntryReturns(w, v) /\ v \in Results(w)
  BY <1>5, EntryReturnsStep
<1>6. CASE \E w \in Worker : Epilogue(w)
  BY <1>6, SetFinishedStep, ClearRunningStep, StoreReturnStep, DeathStep DEF Epilogue
<1>7. CASE UNCHANGED tbvars
  <2>1. InstanceTable' /\ CountMatches'
    BY <1>7, TableKept DEF IInv, tbvars, tablevars
  <2>2. TBTypeOK' /\ WorkerHasInst'
    BY <1>7 DEF IInv, TBTypeOK, WorkerHasInst, tbvars
  <2>3. ActiveWorkerOwns' /\ NoLostDeadCount'
    BY <1>7 DEF IInv, ActiveWorkerOwns, Rightful, NoLostDeadCount, tbvars
  <2>4. QED
    BY <2>1, <2>2, <2>3 DEF IInv
<1>8. QED
  BY <1>1, <1>2, <1>3, <1>4, <1>5, <1>6, <1>7 DEF TBNext

(* The invariant holds in every state the board can reach.                 *)
THEOREM BoardInvariant == TBSpec => []IInv
  BY InitIInv, NextIInv, PTL DEF TBSpec

(* The board's variables keep their types; in particular num_instances     *)
(* never drops below zero, whatever is created and destroyed.              *)
THEOREM TypeCorrect == TBSpec => []TBTypeOK
<1>1. IInv => TBTypeOK
  BY DEF IInv
<1>2. QED
  BY <1>1, BoardInvariant, PTL

(* No entry of an instances[] array dangles or is doubled, and every       *)
(* allocated instance is in one.                                           *)
THEOREM TableCorrect == TBSpec => []InstanceTable
<1>1. IInv => InstanceTable
  BY DEF IInv
<1>2. QED
  BY <1>1, BoardInvariant, PTL

(* num_instances is the number of entries in use.                          *)
THEOREM CountCorrect == TBSpec => []CountMatches
<1>1. IInv => CountMatches
  BY DEF IInv
<1>2. QED
  BY <1>1, BoardInvariant, PTL

(* A function that is running writes into its own, allocated instance.     *)
THEOREM RunningOwnsInstance == TBSpec => []ActiveWorkerOwns
<1>1. IInv => ActiveWorkerOwns
  BY DEF IInv
<1>2. QED
  BY <1>1, BoardInvariant, PTL

(* The deaths announced under the mutex are all counted.                   *)
THEOREM DeathsCounted == TBSpec => []NoLostDeadCount
<1>1. IInv => NoLostDeadCount
  BY DEF IInv
<1>2. QED
  BY <1>1, BoardInvariant, PTL
=============================================================================
