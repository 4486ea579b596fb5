# A specification of the JAMScript cnode for the ESP32

This directory holds TLA+ modules that model the C code under `src/`, the
configurations that TLC checks, and theorems that TLAPS proves.

    tlc -workers 2 -config CNode.cfg MCCNode      # any run of section 3
    tlapm Node_proofs.tla                         # any of the *_proofs modules

`PROJECT.json` maps every definition to the lines it translates and lists runs,
mutants (plausible bugs that must break a property), findings, hazards and
theorems.

## 1. The system

A *cnode* is an ESP32 that executes remote functions for JAMScript controllers.
Controllers publish CBOR commands over Zenoh; the cnode starts a FreeRTOS task
per request, acknowledges, and later returns the result to whoever asks for it.

| component | state | operations |
|---|---|---|
| **Task board** `task.c`, `tboard.c` | `tasks[]`, `num_tasks`; per task `instances[MAX_INSTANCES]`, `num_instances`; per instance flags, arguments, result cell, FreeRTOS handle; `num_dead_tasks`, `last_dead_task_id`, a mutex | register, start, find, create/destroy instance, set arguments, print, destroy; the wrapper each FreeRTOS task runs |
| **Command processing** `cnode.c` | `commandQueue`, `message_received`, the locals of the processing task | data handler, processing task, ack/response/error |
| **Life cycle** `cnode.c` | the fields of `cnode_t`, what is allocated | init, start, stop, destroy |
| **Command and codec** `command.c`, `nvoid.c` | `command_t` (fields, arguments, `buffer`, `refcount`, `id`), the static counter `id` | create, decode, decode in place, clone and free arguments, hold, free, internal commands |
| **System manager** `system_manager.c` | connection attempts, event group, Wi-Fi flag | init, event handler with retries, blocking wait, destroy |
| **Core** `core.c` | `device_id`, `serial_num` in RAM and in flash (NVS) | init, setup, destroy, `discountflake` id generator |
| **Zenoh wrapper** `zenoh.c` | session, publishers, subscriber, read and lease tasks | init, declare, publish, destroy |
| **Utilities** `utils.c`; `main.c` is empty | none | logging |

How they interact, once `cnode_start` has returned:

    zenoh read task --_cnode_data_handler--> commandQueue --> cnode_cmd_processing_task
                                                                 |            ^
                                      tboard_start_task          v            | polls has_finished
                                      (xTaskCreate)        FreeRTOS tasks ----+
                                                          (entrypoint wrapper, mutex, counters)

* The **read task** decodes one message at a time and queues a pointer to the
  command, waiting at most 10 ticks; on a full queue the command is freed.
* **One processing task** takes commands in order. `REXEC` starts an instance
  and acknowledges. `GET_REXEC_RES` looks an instance up, polls `has_finished`,
  copies the result, destroys the instance and answers. Anything else is an error.
* **Workers**: each instance has a FreeRTOS task that runs the function, sets
  `has_finished`, and *then* goes on using the instance: it clears `is_running`,
  stores the result again, and reads `serial_id` for the board's death counters.
* Everything the node publishes on `app/**` comes back through its own
  subscription and has to be recognised.

Before that, one application task runs `cnode_init` (system manager, NVS, Wi-Fi,
board, identity, queue) and `cnode_start` (session, the library's two tasks, two
publishers, subscriber, processing task); `cnode_stop` and `cnode_destroy` undo
most of it. During `cnode_init` the event loop task runs `event_handler`, which
retries the connection and sets the bit that `cnode_init` waits for. The identity
is read from flash, or generated and written there.

What is hard: workers and the processing task share instances without a lock,
and addresses are reused; commands are owned by handler, queue and processing
task in turn, and referred to by running functions; the queue and the tables
are bounded; the processing task blocks on a function; task ids are 64 bits wide
on the wire, and 32 on the board, and go through an `int` in between;
`instances[]` gets holes; every step of a start or a stop can fail, and both are
repeated; power is lost between two writes to flash; a retry counter and a
one-shot event decide whether initialisation ends. `PROJECT.json` lists each
hazard at its line.

What makes each component correct:

* *Task board*: the instance arrays and the heap agree; counters count; a
  running function owns its instance; serial ids identify; deaths are counted.
* *Command processing*: every command has one owner and is freed once; requests
  are answered in order, at most once, and never for the node's own messages; a
  result belongs to the execution that was asked for; a request for a result is
  refused only if there is none; no command is stuck.
* *Command and codec*: a command and its buffer say the same; arrays and strings
  have one owner and are not lost; a command lives as long as it is held.
* *System manager*: whoever waits for the connection waits for something that
  can still happen; initialisation ends, or the retries do.
* *Core*: the identity of a device is stored and then never changes.
* *Life cycle and Zenoh wrapper*: no field dangles; messages reach one handler,
  while the node is started; publishers and subscriber go before their session;
  a failed start or stop can be repeated; calls return.

## 2. The modules

| module | what it is |
|---|---|
| `TaskBoard` | the board, its instances and heap addresses, and the wrapper of every worker |
| `CNode` | EXTENDS `TaskBoard`: handler, queue, processing task and replies on that board |
| `RemoteExec` | abstract specification of `CNode`: what a controller may rely on |
| `SystemManager`, `Core`, `Zenoh` | the Wi-Fi station and its event handler; identity in flash; sessions of zenoh-pico |
| `Node` | composes these three: `cnode_init`, `cnode_start`, `cnode_stop`, `cnode_destroy` over losses of power |
| `CommandCodec` | pure operators: a command's fields on the wire and back, with widths and buffer sizes as constants |
| `Command` | EXTENDS `CommandCodec`: commands, argument arrays and strings in memory, used by two threads |
| `MCTaskBoard`, `MCCNode`, `MCNode`, `MCCommand` | constants for TLC |
| `TaskBoard_proofs`, `CNode_proofs`, `Ownership_proofs`, `Refinement_proofs` | theorems about `TaskBoard` and `CNode`, each EXTENDS the one before; the last one proves that `CNode` implements `RemoteExec` |
| `Node_proofs`, `Codec_proofs` | theorems about `Node` and `CommandCodec` |
| `Command_proofs` | EXTENDS `Command` and `Codec_proofs`: theorems about `Command` |

### TaskBoard

Variables carry the names of the C fields. `inst` is the heap: what each address
in `Inst` holds; `allocated` the addresses that are in use; `worker[w]` the
program counter and locals of a FreeRTOS task. `inst[p].src` is a ghost that
names the call that started an instance; the result a function computes from
that call's arguments is identified with it, and `Garbage` is a value read from
freed or missing memory.

| action | code |
|---|---|
| `tboard_register_task` | the whole function, `num_tasks` counted even when there is no room; names are unique, as in every test and example |
| `tboard_start_task` | `tboard_start_task` + `task_instance_create` + `task_instance_set_args` + `xTaskCreate`; when the arguments are refused the instance *stays indexed* and no task is created; xTaskCreate may fail unnoticed |
| `StartRefused` | its early returns |
| `Found`, `Collect` | `_cnode_return_task`: lookup, wait for `has_finished`, `task_instance_destroy` |
| `BeginEntry` .. `CountDead` | `_task_freertos_entrypoint_wrapper`, one action per access to shared memory; `num_dead_tasks++` is a load and a store |

The wrapper holds a raw pointer. Until `has_finished` that pointer is good
(`ActiveWorkerOwns`); afterwards `ClearRunning`, `StoreReturn` and `TakeMutex`
act on whatever is at that address: a block that was freed (no effect on the
model's heap, reads yield `Garbage`) or the instance that got the address next.
The damage a stale store does to the allocator's own bookkeeping is not modelled.

### CNode

A command is named by the position of its message in `received`; `released` are
the commands that went through `command_free`. `pending` is the local of the
data handler, `proc` the program counter and locals of the processing task.

| action | code |
|---|---|
| `DataHandler`, `DataHandlerEmpty` | `_cnode_data_handler` up to the queue; an empty payload, of which no command is made |
| `Enqueue`, `EnqueueTimeout` | `xQueueSendToBack` with its timeout |
| `ProcRexec`, `ProcGet`, `ProcUnknown` | the three branches; `FreeThenError` is the order in which the code frees a command and then reports it |
| `ReturnTask` | the end of the poll in `_cnode_return_task` |
| `SendAck`, `SendResponse`, `SendError` | publishing, which may fail and is then only printed, followed by `command_free` (not for an unknown command) |
| `FunctionReturns` | a remote function: external code; deterministic in its arguments, if they are what it expects and still there |

`FunctionReturns` yields the call's own result when the instance has arguments
of the expected types (`ArgumentsSound`) that do not point into a freed command;
otherwise any value. A signature in `ByRef` stands for string and nvoid
arguments, of which `task_instance_set_args` copies only the pointer.

`command_from_data` never returns NULL: a payload that is no CBOR map becomes a
command whose fields are zero, which is queued and answered like any unknown
command (`OTHER`). `IsOwnMessage` compares a *prefix* of the key, as `strncmp`
does: a request to a node whose id only begins with this node's id is dropped as
well (`app/requests/upstream` in `MCCNode`).

Left out of `CNode`: the application clearing `message_received`; logging;
`malloc` failing anywhere but where the addresses run out; a second processing
task (section 5).

### RemoteExec

The controller's view: the requests sent, the `backlog` accepted and not yet
answered, the executions whose result can still be asked for, the answers.
`Submit`, `TurnAway` (only with more than `Capacity` waiting), `Accept`,
`Return` (a matching execution's result, once), `Refuse` (a request for a result
only if no execution matches). Answers may be lost. `CNode` maps `backlog` to
the command being worked on, the queue and the pending one, and `execs` to the
acknowledged instances that took their arguments (`Execs`).

### SystemManager, Core, Zenoh, Node

`Node` is the application task's view of a node's life. `app` is the program
counter: a resting state between calls (`down`, `ready`, `failed`, `running`,
`stopped`) or a step of a call. `heap` is the set of blocks that are allocated, a
block being its kind and a number; `cn` the pointers in the `cnode_t`.

| action | code |
|---|---|
| `InitSystem` .. `InitQueue` | `cnode_init` in its order: `system_manager_init` (an assertion fails on a second call), NVS, Wi-Fi, the board, `core_init` and `core_setup`, the queue; without memory for the board the cnode is destroyed *and used further* |
| `WifiStart`, `WifiConnected`, `Unregister`, `DeleteEventGroup` | `system_manager_wifi_init` around its blocking wait |
| `Dispatch`, `OnStart`, `OnDisconnected`, `OnGotIp` | `event_handler`, called by the event loop task |
| `AttemptEnds`, `ConnectionLost` | the Wi-Fi driver (external): an attempt ends with one event; a connection may be lost |
| `OpenStorage`, `ReadId`, `GenerateId`, `GetSerial`, `Commit` | `core_init` and `core_setup`; each NVS call may fail, and the code goes on |
| `StartSession` .. `StartProcessing` | `cnode_start`; the first declaration that fails ends it, a session that does not open leaks its `zenoh_t`, the results of starting tasks are ignored |
| `StopTasks`, `StopUndeclare`, `StopSession` | `cnode_stop`; a step that fails ends it, the next call starts over |
| `CallDestroy` | `cnode_destroy` |
| `Panic`, `PowerLoss` | an assertion, a NULL dereference or a loss of power: statics and heap are gone; of what was set in flash and not committed, any part may have been kept |

The application makes calls in the order the headers ask for: `cnode_stop` after
`cnode_start`, also a failed one, and `cnode_destroy` after `cnode_stop`. A cnode
that `cnode_init` went on using after freeing it is not handed to further calls
(the guard of `CallStart`).

### CommandCodec and Command

In `CommandCodec` a text is its length and an integer keeps its width: `HALF`,
`UINT32` and `UINT64` stand for 2^31, 2^32 and 2^64. tinycbor is external and
modelled by its contract (a sign and 64 bits; conversion to `int` without a
check; nothing copied if the buffer is too short, no NUL if it is exactly as
long). An unterminated or unset buffer is `Garbage`.

Arguments have all types of `argtype_t` but byte strings. What the code does with
them is less than one may expect, and is modelled:

* a `long` is encoded from the union's `int` and arrives as an `int`;
* a `VOID_TYPE` argument, such as the result of a function that returns nothing,
  is counted in the length of the array and not written, so the array announces
  an element that is missing;
* an argument with an unknown letter in its signature keeps `NULL_TYPE`, the type
  of cleared memory, and is written as null;
* an element of a type that the decoder has no case for becomes such an argument;
* the case of a float runs into the one of a double, which reads eight bytes
  where there are four: a `DOUBLE_TYPE` argument with any value.

`nelems` is the length that is announced, `Written` and `Place` say which
arguments become elements, and where. Messages that *arrive* are complete
(`InputAssumption`): how the decoder goes on after a missing element is
tinycbor's error handling, of which the code checks nothing.

`Command` has heaps of arrays and strings by address, the `command_t` and
`internal_command_t` that point to them, and the references the program holds.
`NewAddr` and `Cells` are the addresses that `calloc` and `strdup` give: any free
ones, chosen by CHOOSE. `Room` says that there are enough of them.
Every creation ends with `id++`, a load (`ReadId`) and a store (`StoreId`), since
the data handler and the processing task create commands without a lock.

| action | code |
|---|---|
| `command_from_data` | decoding by the data handler |
| `command_from_data_inplace` | decoding into a command that exists, *whoever else holds it*: what `args` pointed to is forgotten, and the end of creation sets the count to one |
| `command_new`, `command_new_using_arg` | creation by the processing task; the first builds an array from its variable arguments, clones and frees it |
| `command_hold`, `command_free` | reference counting |
| `command_qargs_alloc`, `CloneArgs`, `FreeArgs` | arrays the program has itself |
| `internal_command_new`, `internal_command_free` | internal commands, with the id narrowed to 32 bits |

A command decoded into while several hold it is freed by the first
`command_free` under the others. The ghost `reset` names the commands to which
this happens, and the references that dangle afterwards are not followed.
`command_from_data_inplace`, `command_hold`, `command_qargs_alloc` and
`internal_command_new` are offered by `command.h` and called by nothing outside
`command.c` yet; `Command` says what they do to whoever starts to call them.

## 3. The runs

Passing runs:

| run | checks | shows |
|---|---|---|
| `TaskBoard` | `TBTypeOK`, `InstanceTable`, `CountMatches`, `ActiveWorkerOwns`, `NoLostDeadCount` | two tasks, one board entry, three addresses, two slots, two workers, serials {1, 2}: every interleaving of starts, collections and epilogues with reuse of addresses and workers |
| `CNode` | `CNTypeOK`, `CommandOwnership`, `WaitTargetIndexed`, `RepliesInOrder`, `OwnMessagesIgnored`, `ImplementsRemoteExec` | three messages of eleven kinds through a queue of two and one worker: bad and missing arguments, unknown functions and commands, own messages, arguments by reference; every step is a step of `RemoteExec` or a stutter |
| `CNodeLive` | `EveryCommandHandled`, `UsesBoard` | under `CNFairSpec` no command is stuck, unless the processing task polls an instance without a FreeRTOS task; every step of the cnode is one that `TBSpec` allows |
| `Node` | `NodeTypeOK`, `WaitJustified`, `HandlersHaveGroup`, `NodeIdIsStored`, `BootCompletesIdentity`, `IdentityWriteOnce`, `UndeclaredBeforeDrop`, `HandlerOnlyWhileStarted`, `FieldsLive`, `LeftAfterDestroy`, `CallsReturn` | boots, starts, stops and destructions with a loss of power, a failing call or a disconnection at every step |
| `Command` | `CommandTypeOK`, `HeapSound`, `NoLeak`, `RefcountExact`, `BufferAgrees` | two commands decoded, created, cloned, held and freed in every order; arguments of every type; ints, ids and texts at the limits of their widths and buffers |

Every property of a passing run has a mutant in `PROJECT.json` that breaks it.

Why the bounds are enough to matter.

* *Board*: two addresses are enough for reuse (one is freed and allocated again
  while a worker still holds it), with three and two slots a freed block may also
  stay free while both slots are taken; `MAX_INSTANCES = 2` gives a full array and
  one with a hole; one board entry and two tasks give a full board; two workers
  give the races on the mutex and on a reused address. `UINT32 = 2` makes the
  counters wrap. `Source` (the ghost) is a single value on the board alone.
* *CNode*: a queue of one or two with three messages is full while the processing
  task waits; two task ids and three messages execute, ask, and execute or ask
  again. One worker is enough for what the commands do (the races between two are
  the run `TaskBoard`'s, and the steps that only a second worker adds are proved
  to be harmless, section 4); `CNodeLive` has two, and one task id. `UINT32 = 3`
  keeps the ids apart; `FindWideId` is the run in which they are not.
  `MaxReceived` bounds the messages of a behaviour; all other variables are
  bounded by the code itself.
* *Node*: one retry tells the last attempt from the one before
  (`ESP_MAXIMUM_RETRY` is 5 in the code); two starts in a power cycle give a start
  that is repeated after one that failed or was stopped. `MaxStarts` is the only
  bound; power cycles are not bounded. `DeviceId` holds what `discountflake`
  makes on two boots, so that an id that changed would show.
* *Command*: `HALF = 2` makes ints two bits wide, `{-2..1}`, the smallest int
  included, and task ids four bits; texts are shorter than, as long as and longer
  than buffers of two. Two commands, three arrays and two strings (`MaxCommands`,
  `MaxArrays`, `MaxStrings`) hold an original, its clone and one more owner;
  with two commands the count of one is reset while both threads create;
  `MaxInternals` and `MaxId` end a behaviour; `command_hold` stops at three.

Addresses and workers are interchangeable: symmetry over them is used in the
safety runs of the board and the cnode, never in `CNodeLive`. Deadlock is checked
in every run, but says little, since a message can always arrive and power can
always be lost; whether something is stuck is what `EveryCommandHandled` and
`CallsReturn` ask.

Violation runs, each a disagreement between the code and a comment of it:

| run | property | comment | what the code does |
|---|---|---|---|
| `FindDuplicate` | `UniqueSerials` | task.h:83 | the search for an equal serial id ends at the first hole: create 1, create 2, destroy 1, create 2 |
| `FindFreedArgs` | `ReferredCommandKept` | command.c:497 | the command is freed after the ack while the function still reads the strings in it |
| `FindStaleStore` | `ResultIsComputed` | task.h:125 | a worker whose instance was collected stores into the instance that got its address, and that value is returned |
| `FindWideId` | `ResultOfTaskId` | tboard.h:67 | task ids equal modulo 2^32 are one serial id |
| `FindTeardown` | `ProcessorsHaveNode` | cnode.h:65 | `cnode_destroy`, called after `cnode_stop` as asked, frees the cnode and the queue that the processing task goes on using |
| `FindDestroyLeak` | `DestroyFreesInit` | cnode.h:65 | `cnode_destroy` leaves the task board and the first id string, which `cnode_init` allocated |
| `FindCommandId` | `UniqueCommandId` | command.h:145 | the data handler and the processing task both read the counter before either stores it |

What passes says nothing of the following, which the code is exposed to and which
the hazards in `PROJECT.json` note at their lines.

* `NoLostDeadCount` counts the deaths that were announced: a worker whose wait
  for the mutex times out (tboard.c:29) skips the count, in the code and in the
  model.
* `EveryCommandHandled` exempts a processing task that polls an instance without
  a FreeRTOS task (`WaitsForNobody`: refused arguments, or a failed
  `xTaskCreate`), and assumes that functions return. It is about the chain from
  queue to poll to answer; that the node hangs in these cases is a fact, not
  something it would find.
* `CommandOwnership` exempts what the code does wrong by design: unknown commands
  are not freed, and after a failed lookup the error is reported from a command
  that was just freed (cnode.c:113, `FreeThenError`).
* `RefcountExact` gives commands in `reset` the weaker bound only. `NoLeak`
  exempts the arrays of commands that were decoded into (`overwritten`).
* `WaitJustified` exempts attempts that are used up (`Exhausted`), `CallsReturn` an
  initialisation that then waits for good (`GivenUp`); a panic counts as a return.
* `HandlersHaveGroup`: `Dispatch` is one action, because ESP-IDF's event loop
  holds its lock while a handler runs and unregistering takes the same lock. What
  is checked is the order of unregistering and deleting the group.
* `NodeIdIsStored` says nothing while no id is in flash: after a failed write the
  node uses an id that the next boot will not find.
* `FieldsLive` is about a cnode that is allocated. The one that `cnode_init` uses
  after destroying it (cnode.c:187) is not, and `CallStart` excludes handing
  it to `cnode_start`.
* `UndeclaredBeforeDrop` and `LeftAfterDestroy` rest on `cnode_destroy` coming
  after `cnode_stop`, as the header warns;
  `tests/cnode/cnode_test_encoder_decoder.c` destroys a node that it did not stop.
* `HandlerOnlyWhileStarted` rests on `CallStart` not following a `cnode_stop` that
  failed, which leaves the node `running`; the code does not check it.

### Fairness

`CNFairSpec` assumes weak fairness of the handler's send (bounded by its
timeout), of the processing task, and of each worker. FreeRTOS schedules ready
tasks by priority; the processing task polls with `vTaskDelay`, the
read task blocks on the network, so lower priorities run. For a worker
the assumption includes that the remote function returns, which is the
application's duty; a function that does not stops the node, as
`EveryCommandHandled` would show. No fairness is assumed of controllers.

`NodeFairSpec` assumes weak fairness of the steps inside a call (the application
task is scheduled; every call it makes but the wait for the bit returns), of the
Wi-Fi driver and event loop together (an attempt ends, one way or the other, and
events are dispatched). A step of the application is a statement of the code or
a panic in its place, so both are under one condition. It does not assume
that an attempt ever succeeds, that a call to NVS or Zenoh succeeds, or that
calls are made. `CallsReturn` therefore leaves one way out: the attempts are used
up, and `cnode_init` waits for good (`GivenUp`).

## 4. What is proved

TLAPS checks every theorem for *all* values of the constants that satisfy the
assumptions, TLC the same properties on the instances of section 3. TLC also
evaluates the assumptions in those runs.

| module | theorem | statement |
|---|---|---|
| `TaskBoard_proofs` | `BoardInvariant` | `TBSpec => []IInv` |
| | `TypeCorrect`, `TableCorrect`, `CountCorrect`, `RunningOwnsInstance`, `DeathsCounted` | `TBSpec => []` of `TBTypeOK`, `InstanceTable`, `CountMatches`, `ActiveWorkerOwns`, `NoLostDeadCount` |
| `CNode_proofs` | `CNodeInvariant` | `CNSpec => []CIInv` |
| | `CNodeUsesBoard` | `CNSpec => UsesBoard`, that is `CNSpec => TBSpec` |
| | `WaitCorrect` | `CNSpec => []WaitTargetIndexed` |
| `Ownership_proofs` | `OwnershipInvariant` | `CNSpec => []` of `OwnInv`, `CNTypeOK` and `SourcesForeign` |
| | `CNodeTypeCorrect`, `CommandsOwned`, `RepliesOrdered`, `OwnIgnored` | `CNSpec => []` of `CNTypeOK`, `CommandOwnership`, `RepliesInOrder`, `OwnMessagesIgnored` |
| `Refinement_proofs` | `RunsInvariant` | `CNSpec => []RInv` |
| | `Refinement` | `CNSpec => ImplementsRemoteExec`, that is `CNSpec => RE!Spec`, if narrowing keeps task ids apart (`IdsDistinct`) |
| `Node_proofs` | `IdentityInvariant`, `NetworkInvariant`, `SessionInvariant`, `HeapInvariant` | `NodeSpec => []` of `IdentityInv`, `NetworkInv`, `SessionInv`, `HeapInv` |
| | `IdentityStable`, `BootCompletes`, `StoredIdKept` | `NodeSpec =>` `[]NodeIdIsStored`, `[]BootCompletesIdentity`, `IdentityWriteOnce` |
| | `WaitIsJustified`, `HandlerFindsGroup` | `NodeSpec => []` of `WaitJustified`, `HandlersHaveGroup` |
| | `DropComesLast`, `HandledOnce` | `NodeSpec => []` of `UndeclaredBeforeDrop`, `HandlerOnlyWhileStarted` |
| | `NoFieldDangles`, `DestroyLeavesOnly`, `NodeTypeCorrect` | `NodeSpec => []` of `FieldsLive`, `LeftAfterDestroy`, `NodeTypeOK` |
| `Codec_proofs` | `SameInstance` | the task id that is received names the instance that the one that was sent names |
| | `SecondHopExact` | a task id is altered by the first decoding only |
| | `IntArgumentExact` | every `int` argument arrives as itself, the smallest included |
| | `CommandRoundTrip` | the array announces all arguments and has those that are written; each that fits arrives at its place, a long as an int; nothing is missing without a `VOID_TYPE`; the same instance, a name that fits |
| `Command_proofs` | `CommandInvariant` | `CommandSpec => []CInv` |
| | `CommandTypes`, `HeapIsSound`, `NothingLeaks`, `RefcountIsExact`, `BuffersAgree` | `CommandSpec => []` of `CommandTypeOK`, `HeapSound`, `NoLeak`, `RefcountExact`, `BufferAgrees` |

So every property of every passing run is a theorem, but for the two liveness
properties.

### The board

Assumptions: `SizesAssumption` (array sizes are positive, the counters' modulus
is at least 2) and `SetsAssumption` (`Inst` is finite; `NULL` and `Garbage` are
no task, address, worker, ...).

The argument. `IInv` is the conjunction of the checked invariants and
`WorkerHasInst` (a FreeRTOS task that exists was given an instance). None of
them is inductive alone. `num_instances` is a `Nat` after a destruction only
because it counts the used entries (`CountMatches`). That holds after a creation
because the placing loop finds an empty entry, which follows from the count
being below `MAX_INSTANCES` (`RoomInArray`, by cardinalities, and
`PlaceFirstFills`, by the least empty index). After a destruction it holds
because the entry found by serial id is the entry of the instance that is freed:
`task_instance_destroy` repeats the lookup that found it, and lookups are
deterministic (`InstanceIndexUnique`), even when serial ids are not unique.
`SlotsDistinct` makes that entry the only one. `ActiveWorkerOwns` survives a
destruction because only finished instances are destroyed, and another worker's
`SetFinished` because the handle in an instance names one worker. Then one lemma
per action, and `NextIInv` combines them.

### The cnode

`CIInv` adds to `IInv` that whoever holds a command holds one that was received
(`CommandsKnown`) and `WaitTargetIndexed`. The three depend on each other: the
board's specification lets an instance be collected only if a lookup finds it,
the processing task collects what its lookup found *before* the wait, and
the two agree because nothing else creates or destroys instances meanwhile and
workers never change a serial id (`WorkerKeepsIds`, `FoundKept`). `StepUsesBoard`
then turns every cnode step into a board step, and `NextIInv` applies to it.
Assumptions beyond those of the board: `QueueAssumption` (`Source` numbers the
messages, a narrowed task id is a serial id, `NULL` is no function name) and
`MessageAssumption`.

`OwnInv` (in `Ownership_proofs`) is why commands have one owner. The invariants
to be proved say that numbers differ; the inductive one says that they are
*ordered* (`OldestFirst`): the command that is processed is older than all that
wait, the queue is increasing, and the one the handler holds is the newest. Each
step keeps the order because a message takes the next number and the queue is
first in, first out. Replies are increasing because what was answered is older
than what is in flight (`AnswersOrdered`). What was freed is in nobody's hands
but for a command whose error is reported (`FreedOnce`), which is where the code
frees first and reads afterwards. `OwnMessagesIgnored` needs in addition that
every instance was started by a command of another node (`SourcesForeign`).

### The refinement

`ImplementsRemoteExec` maps the backlog of `RemoteExec` to the command that is
worked on, the queue and the pending command, in this order, and its executions
to the instances that took their arguments. `DataHandler` is then `Submit`,
`EnqueueTimeout` is `TurnAway`, `SendAck` `Accept`, `SendResponse` `Return` and
`SendError` `Refuse`; every other step leaves the mapped state as it is
(`StepRefines`, with one lemma for each).

That needs to know what instances and messages have to do with each other
(`RunInv`). Every instance is the run of a message of another node and carries
its name and its narrowed id, and one that has a FreeRTOS task has taken the
arguments of that message (`RunsKnown`); the message is older than all that wait
(`SourcesOld`), and no two instances run the same one (`SourcesDistinct`). What
the processing task is about to answer is true (`AnswerKnown`): behind an
acknowledgement there is an instance, behind a result a message with the
requested name and id whose instance is gone, and behind a refused request no
instance of that name and id. `NoExec` says that only a result names an
execution. All this is inductive together with `OwnInv` and `CNTypeOK`.

`IdsDistinct` is a hypothesis that cannot be dropped: if two task ids are equal
modulo 2^32 the result of one is returned for the other, as the run `FindWideId`
shows. Ids below 2^32 satisfy it (`SmallIdsDistinct`).

### The node

Assumptions: `RetryAssumption` and `StartsAssumption` (naturals),
`CoreAssumption` and `NullAssumption` (the empty id, a missing key and `NULL` are
no ids and no blocks), `SerialAssumption` (0, with which `core_init` is called, is
a serial number). Four invariants are inductive, each about one part:

* `IdentityInv`: what is committed agrees with what the handle reads, and what
  the handle reads with what the node calls itself (`IdentityKnown`); and what
  each step of `core_setup` has achieved unless a call failed (`SetupProgress`).
* `NetworkInv`: `WaitJustified` holds inductively only together with
  `AddressAnnounced`, that a station which is up while the bit is not set has its
  address event still queued: otherwise a disconnection and its event could be
  all there is.
* `SessionInv`: parts are up only in a session that was opened, only the last
  start's subscriber is ever declared (`OneSubscription`), and after each step of
  a stop what it has undeclared stays so (`Undeclared`).
* `HeapInv`: `FieldsLive` together with which block a field can point to
  (`FieldsNamed`), that every block is the cnode, in one of its fields or among
  what is allowed to be left (`HeapKnown`, `StartsInHeap`), and that only the
  latter exist when no cnode does (`HeapWhenDown`).

### The codec

`WidthAssumption` ties the widths together. A received id differs from the one
sent by multiples of 2^32 only (`ToUint64` of a sign-extended `int`), so the
narrowed ids are equal; a second decoding finds a sign-extended number and gives
the same one.

`CommandRoundTrip` puts the parts together. One argument is a case for each type
(`ArgArrives`); `EncodeInt` and `cbor_value_get_int` are inverses on every
`int`, and the absolute value of the smallest one, which overflows to itself,
comes back right nevertheless. A sequence is harder, since arguments of
`VOID_TYPE` leave no element: the place of an argument is the number of those
written up to it, and `WrittenPlaces` shows, by cardinalities, that this is a
bijection onto `1..Cardinality(Written(args))`, so that the `CHOOSE` in
`EncodeArgs` finds each argument at its place (`EncodedArgs`). If everything is
written places are positions (`AllWritten`), and no announced element is missing.

### Commands in memory

Assumptions beyond those of the codec: `BoundAssumption` (the numbers of addresses
and ids are naturals, `NULL` is no number) and `InputAssumption` (messages are complete
wire forms, replies are created with fields). `CInv` is the inductive
invariant:

* `HeapOK`: every string that exists belongs to exactly one array, and what an
  array stands for are arguments. `Allocation` and `Freeing` show that taking and
  giving back memory preserve it, that a new array stands for the values asked
  for, and that all other arrays stand for what they stood for (`Kept`). The first
  is where a clone has to be deep.
* `ArraysOwned`: the arrays that exist are those of the commands, of the internal
  commands, of the program and those that were overwritten, and these four are
  disjoint. `HeapSound` and the first part of `NoLeak` follow
  (`ReachableOwned`, `OnePointer`).
* `CommandsCounted`: a command exists if and only if it is held or a thread is
  still creating it, and no two threads create one command. `RefcountExact` alone
  is not inductive: `StoreId` sets a count to one, whatever it was. `BuildsOK`
  says when that is right: what is being created is held by nobody, unless the
  processing task decodes into it, and then it has one holder, or had more and is
  in `reset`. What is in `reset` keeps a count that is positive and at most the
  number of references, so a free never finds a count of zero.
* `BufferAgrees`: a new command agrees with its buffer by `CommandRoundTrip` if
  it was created, and by what decoding yields if it was decoded (`DecodedAgrees`:
  no decoded argument has `VOID_TYPE`, and announced are as many as there are);
  it goes on doing so because no step changes an array that has an
  owner (`Kept`, `KeptAgrees`).

`CommandTypeOK` and all of these depend on each other; one lemma per action
preserves the conjunction.

### Not proved

Liveness (`EveryCommandHandled`, `CallsReturn`) is beyond the prover and is
checked by TLC only. So are the properties of the violation runs, which do not
hold.

## 5. Not modelled, and the plan

* *Board*: `tboard_destroy` and `task_destroy`. Only the board's unit test calls
  them; `cnode_destroy` leaves the board allocated. `tboard_shutdown` is empty,
  `tboard_delete_last_dead_task` has no body. `task_instance_set_return_arg` has
  no caller.
* *Two processing tasks*: a node that is stopped and started again has two of
  them on one queue. `Node` counts them (`procs`); `CNode` is one power cycle with
  one start, so what the two do to each other's waits is left out.
* *Codec*: byte strings (`nvoid_new` copies to a NULL pointer, which resets the
  chip), the pointer in a `VOID_TYPE` argument, an encoding longer than the buffer
  of 1024 bytes, and payloads that lack fields or announced elements. The value of
  a double is an abstract number.
* *Zenoh wrapper*: `zenoh_scout` and `zenoh_publish`, which have no caller in the
  node. `zenoh_publish_encoded` is the lossy `Send` of `CNode`.
* *Core*: whether the stored id fits the one-byte buffer it is read into, which is
  a fact about the allocator; a clock, so nothing is said of two boards with one
  id.
* External, modelled by what the code relies on: FreeRTOS queues, mutex and event
  groups, zenoh-pico, NVS, the Wi-Fi driver, tinycbor.
* Printing and logging, `utils.c` (allocation accounting of debug builds and a
  string helper), the empty `main.c`.

The plan, by importance; all of it is done.

1. `TaskBoard` with its proofs; `CNode` composed with it; `RemoteExec`; liveness.
2. `SystemManager`, `Core`, `Zenoh` and their composition `Node`, with proofs.
3. `CommandCodec` and `Command`; theorems about the codec.
4. `CommandOwnership`, `RepliesInOrder` and the types of `CNode` as theorems.
5. The refinement as a theorem, `CNSpec => RE!Spec`.
6. The properties of `Command` as theorems.
