----------------------------- MODULE TaskBoard -----------------------------
(***************************************************************************)
(* The task board of a cnode: src/src/task.c and src/src/tboard.c.         *)
(*                                                                         *)
(* A board holds registered tasks (remote functions).  Starting a task     *)
(* allocates a task_instance_t, indexes it in its parent's instances[] and *)
(* creates a FreeRTOS task that runs the function, marks the instance      *)
(* finished and reports its own death on the board.  Whoever wants the     *)
(* result looks the instance up by serial id, waits for has_finished and   *)
(* destroys it: at that moment the FreeRTOS task may still be running its  *)
(* epilogue, and it goes on using the instance it was given.               *)
(*                                                                         *)
(* Memory is a set Inst of addresses that calloc hands out again once they *)
(* are freed.  A store through a dangling pointer changes what the block   *)
(* holds if it is allocated again; what it does to the allocator's own     *)
(* bookkeeping is outside the model.                                       *)
(***************************************************************************)
EXTENDS Naturals, FiniteSets

CONSTANTS
  Task,           \* task_t structures; a task is known by its name
  Sig,            \* argument signatures but the empty one, which is NULL
  FnSig,          \* the fn_argsig of each task
  Serial,         \* serial ids of instances
  Source,         \* the calls that start instances (ghost, see inst[p].src)
  Inst,           \* heap addresses a task_instance_t may have
  Worker,         \* FreeRTOS tasks that run functions
  MAX_TASKS,      \* size of tboard_t.tasks
  MAX_INSTANCES,  \* size of task_t.instances
  UINT32,         \* modulus of the board's uint32_t counters
  NULL,
  Garbage         \* bits read from memory that was freed

ASSUME SizesAssumption ==
  /\ MAX_TASKS \in Nat \ {0}
  /\ MAX_INSTANCES \in Nat \ {0}
  /\ UINT32 \in Nat \ {0, 1}

ASSUME SetsAssumption ==
  /\ FnSig \in [Task -> Sig \cup {NULL}]
  /\ IsFiniteSet(Inst)
  /\ NULL \notin Task /\ NULL \notin Sig /\ NULL \notin Source
  /\ NULL \notin Inst /\ NULL \notin Worker
  /\ Garbage \notin Source /\ Garbage \notin Serial /\ Garbage # NULL

VARIABLES
  tasks,              \* tboard_t.tasks
  num_tasks,          \* tboard_t.num_tasks
  num_dead_tasks,     \* tboard_t.num_dead_tasks
  last_dead_task_id,  \* tboard_t.last_dead_task_id
  mutex,              \* tboard_t.task_management_mutex: its holder, or NULL
  instances,          \* task_t.instances of every task
  num_instances,      \* task_t.num_instances of every task
  inst,               \* what each address holds
  allocated,          \* the addresses that are allocated
  worker              \* the FreeRTOS tasks: program counter and locals

boardvars == <<tasks, num_tasks>>
deadvars  == <<num_dead_tasks, last_dead_task_id, mutex>>
tablevars == <<instances, num_instances>>
tbvars    == <<tasks, num_tasks, num_dead_tasks, last_dead_task_id, mutex,
               instances, num_instances, inst, allocated, worker>>

TaskSlot == 1..MAX_TASKS
Slot     == 1..MAX_INSTANCES
Value    == Source \cup {NULL, Garbage}

(* task_instance_t.  src is a ghost: the call that started the instance.   *)
(* A function's result is identified with the src whose arguments it ran   *)
(* on; NULL is the zero that calloc leaves.                                *)
InstRec == [parent_task : Task \cup {NULL}, serial_id : Serial \cup {0},
            src : Source \cup {NULL},
            is_running : BOOLEAN, has_finished : BOOLEAN,
            task_handle_frtos : Worker \cup {NULL},
            return_arg : Value, args : Sig \cup {NULL}]

(* A block that is not allocated; the code never acts on what it holds but *)
(* through a dangling pointer, and then reads Garbage.                     *)
NoInstance == [parent_task |-> NULL, serial_id |-> 0, src |-> NULL,
               is_running |-> FALSE, has_finished |-> FALSE,
               task_handle_frtos |-> NULL, return_arg |-> NULL, args |-> NULL]

(* Where a FreeRTOS task is in _task_freertos_entrypoint_wrapper; tmp is   *)
(* the value of num_dead_tasks its increment has loaded.                   *)
Pc == {"none", "created", "running", "returned", "finished", "stopped",
       "stored", "locked", "loaded"}
WorkerRec == [pc : Pc, inst : Inst \cup {NULL}, tmp : 0..(UINT32 - 1)]
NoWorker  == [pc |-> "none", inst |-> NULL, tmp |-> 0]

-----------------------------------------------------------------------------
(* The board's tables *)

(* The first empty entry of an array of pointers is set to x.              *)
IsFirstFree(slots, i) ==
  /\ slots[i] = NULL
  /\ \A j \in DOMAIN slots : j < i => slots[j] # NULL

(* Mutant: the loop goes on after placing x.                               *)
PlaceEverywhere(slots, x) ==
  [i \in DOMAIN slots |-> IF slots[i] = NULL THEN x ELSE slots[i]]

PlaceFirst(slots, x) ==
  [i \in DOMAIN slots |-> IF IsFirstFree(slots, i) THEN x ELSE slots[i]]

tboard_find_task_name(t) == \E j \in TaskSlot : tasks[j] = t

(* task_get_instance_index(t, id) = i                                      *)
IsInstanceIndex(t, id, i) ==
  /\ instances[t][i] # NULL
  /\ inst[instances[t][i]].serial_id = id
  /\ \A j \in Slot : (j < i /\ instances[t][j] # NULL)
                        => inst[instances[t][j]].serial_id # id

(* The loop that places a new instance looks for its serial id on the way, *)
(* and stops at the first empty slot.                                      *)
MeetsSameSerial(t, id) ==
  \E i \in Slot :
     /\ instances[t][i] # NULL
     /\ inst[instances[t][i]].serial_id = id
     /\ \A j \in Slot : j < i => instances[t][j] # NULL

CreateRefused(t, id) ==
  \/ num_instances[t] >= MAX_INSTANCES
  \/ MeetsSameSerial(t, id)

(* args = NULL is accepted whatever the signature.                         *)
SetArgsOk(t, a) == a = NULL \/ a = FnSig[t]

NewInstance(t, id, a, s, w) ==
  [parent_task |-> t, serial_id |-> id, src |-> s,
   is_running |-> FALSE, has_finished |-> FALSE, task_handle_frtos |-> w,
   return_arg |-> NULL, args |-> IF SetArgsOk(t, a) THEN a ELSE NULL]

(* The worker works on the instance it was created for, not on a block     *)
(* that was freed, or freed and allocated again.                           *)
Rightful(w) ==
  /\ worker[w].inst \in allocated
  /\ inst[worker[w].inst].task_handle_frtos = w

-----------------------------------------------------------------------------
TBInit ==
  /\ tasks = [j \in TaskSlot |-> NULL]
  /\ num_tasks = 0
  /\ num_dead_tasks = 0
  /\ last_dead_task_id = 0
  /\ mutex = NULL
  /\ instances = [t \in Task |-> [i \in Slot |-> NULL]]
  /\ num_instances = [t \in Task |-> 0]
  /\ inst = [p \in Inst |-> NoInstance]
  /\ allocated = {}
  /\ worker = [w \in Worker |-> NoWorker]

(* num_tasks counts the call even when no entry was empty.                 *)
tboard_register_task(t) ==
  /\ \A j \in TaskSlot : tasks[j] # t
  /\ tasks' = PlaceFirst(tasks, t)
  /\ num_tasks' = (num_tasks + 1) % UINT32
  /\ UNCHANGED <<deadvars, tablevars, inst, allocated, worker>>

(* A call that creates an instance at address p.  When the arguments do    *)
(* not fit, the instance stays in the table and no FreeRTOS task is        *)
(* created (w = NULL); when they fit, w is NULL if xTaskCreate failed,     *)
(* which the code does not look at.                                        *)
tboard_start_task(t, id, a, s, p, w) ==
  /\ tboard_find_task_name(t)
  /\ ~CreateRefused(t, id)
  /\ p \notin allocated
  /\ allocated' = allocated \cup {p}
  /\ inst' = [inst EXCEPT ![p] = NewInstance(t, id, a, s, w)]
  /\ instances' = [instances EXCEPT ![t] = PlaceFirst(instances[t], p)]
  /\ num_instances' = [num_instances EXCEPT ![t] = @ + 1]
  /\ \/ /\ w = NULL
        /\ UNCHANGED worker
     \/ /\ w \in Worker
        /\ SetArgsOk(t, a)
        /\ worker[w].pc = "none"
        /\ worker' = [worker EXCEPT ![w] =
                        [pc |-> "created", inst |-> p, tmp |-> 0]]
  /\ UNCHANGED <<boardvars, deadvars>>

(* A call that leaves everything as it was and returns NULL: no such task, *)
(* no room, the same serial id met, or no memory for an instance.          *)
StartRefused(t, id) ==
  tboard_find_task_name(t) => \/ CreateRefused(t, id)
                              \/ Inst \subseteq allocated

(* Mutants of the counter's update: it is forgotten, or done twice.        *)
NotCounted(n)   == n
CountedTwice(n) == n - 2

CountedOut(n) == n - 1

(* The entry that is cleared is the first one with the serial id of p.     *)
task_instance_destroy(p) ==
  LET t == inst[p].parent_task IN
  \E i \in Slot :
     /\ IsInstanceIndex(t, inst[p].serial_id, i)
     /\ instances' = [instances EXCEPT ![t][i] = NULL]
     /\ num_instances' = [num_instances EXCEPT ![t] = CountedOut(@)]
     /\ allocated' = allocated \ {p}
     /\ inst' = [inst EXCEPT ![p] = NoInstance]

(* Mutant: the serial id is not compared.                                  *)
FoundAnyId(t, id, p) ==
  /\ tboard_find_task_name(t)
  /\ \E i \in Slot : instances[t][i] = p

(* What a lookup of serial id id in task t finds.                          *)
Found(t, id, p) ==
  /\ tboard_find_task_name(t)
  /\ \E i \in Slot : IsInstanceIndex(t, id, i) /\ instances[t][i] = p

(* Mutant: the instance is destroyed without waiting for its function.     *)
Unwaited(p) == TRUE

(* Mutant: both flags are polled; is_running is cleared soon after.        *)
ReadyWhileRunning(p) == inst[p].has_finished /\ inst[p].is_running

ResultReady(p) == inst[p].has_finished

(* The result of a finished instance is taken and the instance destroyed.  *)
Collect(p) ==
  /\ ResultReady(p)
  /\ task_instance_destroy(p)
  /\ UNCHANGED <<boardvars, deadvars, worker>>

-----------------------------------------------------------------------------
(* _task_freertos_entrypoint_wrapper, run by worker w *)

Goto(w, from, to) ==
  /\ worker[w].pc = from
  /\ worker' = [worker EXCEPT ![w].pc = to]

(* is_running is set; the entry point is about to run.                     *)
BeginEntry(w) ==
  /\ Goto(w, "created", "running")
  /\ inst' = [inst EXCEPT ![worker[w].inst].is_running = TRUE]
  /\ UNCHANGED <<boardvars, deadvars, tablevars, allocated>>

(* The function has computed v and stored it through ctx.return_arg.       *)
EntryReturns(w, v) ==
  /\ Goto(w, "running", "returned")
  /\ inst' = [inst EXCEPT ![worker[w].inst].return_arg = v]
  /\ UNCHANGED <<boardvars, deadvars, tablevars, allocated>>

SetFinished(w) ==
  /\ Goto(w, "returned", "finished")
  /\ inst' = [inst EXCEPT ![worker[w].inst].has_finished = TRUE]
  /\ UNCHANGED <<boardvars, deadvars, tablevars, allocated>>

(* From here on the instance may have been collected.                      *)
ClearRunning(w) ==
  /\ Goto(w, "finished", "stopped")
  /\ inst' = IF worker[w].inst \in allocated
             THEN [inst EXCEPT ![worker[w].inst].is_running = FALSE]
             ELSE inst
  /\ UNCHANGED <<boardvars, deadvars, tablevars, allocated>>

(* instance->return_arg->val = ctx.return_arg->val: the cell onto itself   *)
(* for a rightful owner; otherwise from a freed cell into whatever the     *)
(* block holds now, which may be the same cell or another one's bits.      *)
StoreReturn(w) ==
  /\ Goto(w, "stopped", "stored")
  /\ \/ UNCHANGED inst
     \/ /\ worker[w].inst \in allocated
        /\ ~Rightful(w)
        /\ inst' = [inst EXCEPT ![worker[w].inst].return_arg = Garbage]
  /\ UNCHANGED <<boardvars, deadvars, tablevars, allocated>>

(* Mutant: the result of xSemaphoreTake is not looked at.                  *)
MutexUnchecked == TRUE

MutexFree == mutex = NULL

(* The mutex is taken and the death announced.                             *)
TakeMutex(w) ==
  /\ Goto(w, "stored", "locked")
  /\ MutexFree
  /\ mutex' = w
  /\ last_dead_task_id' = IF worker[w].inst \in allocated
                          THEN inst[worker[w].inst].serial_id
                          ELSE Garbage
  /\ UNCHANGED <<boardvars, num_dead_tasks, tablevars, inst, allocated>>

(* MUTEX_WAIT ticks pass with the mutex taken: the death is not counted.   *)
MutexTimeout(w) ==
  /\ worker[w].pc = "stored"
  /\ ~MutexFree
  /\ worker' = [worker EXCEPT ![w] = NoWorker]
  /\ UNCHANGED <<boardvars, deadvars, tablevars, inst, allocated>>

LoadDead(w) ==
  /\ worker[w].pc = "locked"
  /\ worker' = [worker EXCEPT ![w].pc = "loaded", ![w].tmp = num_dead_tasks]
  /\ UNCHANGED <<boardvars, deadvars, tablevars, inst, allocated>>

(* Mutant: the dead task is deleted from the board as it is counted.       *)
CountDeadAndDelete(w) ==
  /\ worker[w].pc = "loaded"
  /\ num_dead_tasks' = (worker[w].tmp + 1) % UINT32
  /\ mutex' = NULL
  /\ worker' = [worker EXCEPT ![w] = NoWorker]
  /\ IF Rightful(w)
     THEN task_instance_destroy(worker[w].inst)
     ELSE UNCHANGED <<tablevars, inst, allocated>>
  /\ UNCHANGED <<boardvars, last_dead_task_id>>

(* The increment is stored, the mutex given back, the FreeRTOS task gone.  *)
CountDead(w) ==
  /\ worker[w].pc = "loaded"
  /\ num_dead_tasks' = (worker[w].tmp + 1) % UINT32
  /\ mutex' = NULL
  /\ worker' = [worker EXCEPT ![w] = NoWorker]
  /\ UNCHANGED <<boardvars, last_dead_task_id, tablevars, inst, allocated>>

(* What a function can return: what it computes from its arguments, or     *)
(* anything at all when it has none where it expects some, or when what    *)
(* its arguments point to was freed by the caller.                         *)
Results(w) == {inst[worker[w].inst].src, Garbage}

Epilogue(w) ==
  \/ SetFinished(w)
  \/ ClearRunning(w)
  \/ StoreReturn(w)
  \/ TakeMutex(w)
  \/ MutexTimeout(w)
  \/ LoadDead(w)
  \/ CountDead(w)

TBNext ==
  \/ \E t \in Task : tboard_register_task(t)
  \/ \E t \in Task, id \in Serial, a \in Sig \cup {NULL}, s \in Source,
        p \in Inst, w \in Worker \cup {NULL} :
        tboard_start_task(t, id, a, s, p, w)
  \/ \E t \in Task, id \in Serial, p \in Inst : Found(t, id, p) /\ Collect(p)
  \/ \E w \in Worker : BeginEntry(w)
  \/ \E w \in Worker, v \in Value : EntryReturns(w, v) /\ v \in Results(w)
  \/ \E w \in Worker : Epilogue(w)

TBSpec == TBInit /\ [][TBNext]_tbvars

-----------------------------------------------------------------------------
(* Properties *)

(* Every variable of the board has its type.                               *)
TBTypeOK ==
  /\ tasks \in [TaskSlot -> Task \cup {NULL}]
  /\ num_tasks \in 0..(UINT32 - 1)
  /\ num_dead_tasks \in 0..(UINT32 - 1)
  /\ last_dead_task_id \in Serial \cup {0, Garbage}
  /\ mutex \in Worker \cup {NULL}
  /\ instances \in [Task -> [Slot -> Inst \cup {NULL}]]
  /\ num_instances \in [Task -> Nat]
  /\ inst \in [Inst -> InstRec]
  /\ allocated \in SUBSET Inst
  /\ worker \in [Worker -> WorkerRec]

UsedSlots(t) == {i \in Slot : instances[t][i] # NULL}

(* No entry of an instances[] array dangles: it points to an instance that *)
(* is allocated and that belongs to that task.                             *)
SlotsSound ==
  \A t \in Task : \A i \in UsedSlots(t) :
     /\ instances[t][i] \in allocated
     /\ inst[instances[t][i]].parent_task = t

(* No instance is in two entries of one array.                             *)
SlotsDistinct ==
  \A t \in Task : \A i, j \in UsedSlots(t) :
     instances[t][i] = instances[t][j] => i = j

(* No instance is lost: whatever is allocated can be found in the array of *)
(* its parent, although creation counts an instance it did not place.      *)
NoOrphan ==
  \A p \in allocated : \E t \in Task, i \in Slot : instances[t][i] = p

(* The arrays of task_instance_create and task_instance_destroy stay       *)
(* consistent with the heap, for the way the cnode uses them.              *)
InstanceTable == SlotsSound /\ SlotsDistinct /\ NoOrphan

(* num_instances, which alone decides whether a task is full, is the       *)
(* number of entries in use: creation never finds an array full that is    *)
(* counted as having room, and no capacity is lost.                        *)
CountMatches ==
  \A t \in Task : num_instances[t] = Cardinality(UsedSlots(t))

(* As long as a function has not been marked finished, the instance its    *)
(* worker writes into is allocated, is its own and is not marked finished: *)
(* arguments and result cell are not taken away under a running function.  *)
ActiveWorkerOwns ==
  \A w \in Worker : worker[w].pc \in {"created", "running", "returned"} =>
     /\ Rightful(w)
     /\ ~inst[worker[w].inst].has_finished

(* The increments of num_dead_tasks exclude each other: no worker stores a *)
(* count that another has made stale, so every death announced under the   *)
(* mutex is counted.                                                       *)
NoLostDeadCount ==
  \A w \in Worker :
     /\ worker[w].pc \in {"locked", "loaded"} => mutex = w
     /\ worker[w].pc = "loaded" => worker[w].tmp = num_dead_tasks

-----------------------------------------------------------------------------
(* What the headers say, and the code does not keep *)

(* task.h:83, of task_instance_create: "Checks if there is an existing     *)
(* task_instance with the same serial_id": no two instances of a task have *)
(* one serial id.                                                          *)
UniqueSerials ==
  \A t \in Task : \A i, j \in UsedSlots(t) :
     inst[instances[t][i]].serial_id = inst[instances[t][j]].serial_id => i = j
=============================================================================
