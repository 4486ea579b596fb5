-------------------------------- MODULE Node --------------------------------
(***************************************************************************)
(* The life cycle of a cnode (cnode_init, cnode_start, cnode_stop and      *)
(* cnode_destroy of src/src/cnode.c) with the system manager, the core and *)
(* the Zenoh wrapper, over losses of power.                                *)
(*                                                                         *)
(* One application task makes the calls, in the order the headers ask for; *)
(* meanwhile the event loop, the driver and the tasks that cnode_start     *)
(* creates run.  An allocation whose result is not looked at and a         *)
(* dereference of NULL stop the chip, which resets: the same effect as a   *)
(* loss of power, which the model allows at any time.                      *)
(***************************************************************************)
EXTENDS SystemManager, Core, Zenoh, FiniteSets

CONSTANT NULL

(* cnode_init calls core_init with 0.                                      *)
ASSUME SerialAssumption == 0 \in SerialNum

VARIABLES
  app,     \* where the application task is, in which call
  cn,      \* the fields of the cnode_t
  heap,    \* the blocks that are allocated
  starts,  \* calls of cnode_start in this power cycle
  procs    \* the calls whose cnode_cmd_processing_task runs

nodevars == <<cn, heap, starts, procs>>
nvars    == <<smvars, corevars, session, app, nodevars>>

(* A block: the n-th of its kind.                                          *)
Kind  == {"cnode", "system_manager", "tboard", "core_state", "device_id",
          "commandQueue", "zenoh", "pub_reply", "pub_request"}
Block == Kind \X (0..(MaxStarts + 1))

Field   == Kind \ {"cnode"}
NoCnode == [f \in Field |-> NULL]

ASSUME NullAssumption == NULL \notin Block

At(pc)     == app = pc
Goto(a, b) == app = a /\ app' = b

(* Between the calls of the application.                                   *)
Resting == {"down", "ready", "failed", "running", "stopped"}
Initing == {"system", "wifi", "waiting", "unregister_ip", "unregister_wifi",
            "delete_group", "board", "core", "id", "serial", "commit",
            "queue"}
Starting == {"open", "read", "lease", "alloc", "declare_reply",
             "declare_request", "declare_sub", "spawn"}
Stopping == {"stop_read", "stop_lease", "undeclare_sub", "undeclare_reply",
             "undeclare_request", "drop"}

NodeInit ==
  /\ SMInit /\ CoreInit /\ ZInit
  /\ app = "down"
  /\ cn = NoCnode
  /\ heap = {}
  /\ starts = 0
  /\ procs = {}

Reset ==
  /\ SMReset /\ CoreReset
  /\ session' = [n \in Start |-> NoSession]
  /\ app' = "down"
  /\ cn' = NoCnode
  /\ heap' = {}
  /\ starts' = 0
  /\ procs' = {}

Alloc(f, n) ==
  /\ cn' = [cn EXCEPT ![f] = <<f, n>>]
  /\ heap' = heap \cup {<<f, n>>}

(* Mutant: the queue is not deleted.                                       *)
FreedButQueue ==
  {<<"cnode", 0>>, cn["system_manager"], cn["core_state"], cn["device_id"],
   cn["pub_reply"], cn["pub_request"], cn["zenoh"]}

(* What cnode_destroy frees: the board is not among it.                    *)
Freed ==
  {<<"cnode", 0>>, cn["system_manager"], cn["core_state"], cn["device_id"],
   cn["pub_reply"], cn["pub_request"], cn["zenoh"], cn["commandQueue"]}

DestroyCnode ==
  /\ <<"cnode", 0>> \in heap
  /\ heap' = heap \ Freed
  /\ IF cn["zenoh"] = NULL THEN UNCHANGED session
     ELSE zenoh_destroy(cn["zenoh"][2])

-----------------------------------------------------------------------------
(* cnode_init *)

CallInit ==
  /\ Goto("down", "system")
  /\ cn' = NoCnode
  /\ heap' = heap \cup {<<"cnode", 0>>}
  /\ UNCHANGED <<smvars, corevars, session, starts, procs>>

InitSystem ==
  /\ Goto("system", "wifi")
  /\ system_manager_init
  /\ nvs_flash_init
  /\ Alloc("system_manager", 0)
  /\ UNCHANGED <<session, starts, procs>>

InitWifi ==
  /\ \/ Goto("wifi", "waiting") /\ WifiStart
     \/ Goto("waiting", "unregister_ip") /\ WifiConnected
     \/ Goto("unregister_ip", "unregister_wifi") /\ Unregister("IP")
     \/ Goto("unregister_wifi", "delete_group") /\ Unregister("WIFI")
     \/ Goto("delete_group", "board") /\ DeleteEventGroup
  /\ UNCHANGED <<corevars, session, nodevars>>

(* Without memory for the board the cnode is destroyed, and used further.  *)
InitBoard ==
  /\ Goto("board", "core")
  /\ \/ Alloc("tboard", 0) /\ UNCHANGED session
     \/ DestroyCnode /\ UNCHANGED cn
  /\ UNCHANGED <<smvars, corevars, starts, procs>>

InitCore ==
  /\ At("core")
  /\ \E ok \in BOOLEAN :
        /\ OpenStorage(0, ok)
        /\ app' = IF ok THEN "id" ELSE "queue"
  /\ cn' = [cn EXCEPT !["core_state"] = <<"core_state", 0>>,
                      !["device_id"] = <<"device_id", 0>>]
  /\ heap' = heap \cup {<<"core_state", 0>>, <<"device_id", 0>>}
  /\ UNCHANGED <<smvars, session, starts, procs>>

(* A generated id is a new string; the empty one is forgotten.             *)
InitId ==
  /\ Goto("id", "serial")
  /\ \/ (ReadId \/ GetFails) /\ UNCHANGED <<cn, heap>>
     \/ (\E d \in DeviceId : GenerateId(d)) /\ Alloc("device_id", 1)
  /\ UNCHANGED <<smvars, session, starts, procs>>

InitIdentity ==
  /\ \/ Goto("serial", "commit") /\ GetSerial
     \/ Goto("commit", "queue") /\ Commit
  /\ UNCHANGED <<smvars, session, nodevars>>

InitQueue ==
  /\ \/ Goto("queue", "ready") /\ Alloc("commandQueue", 0) /\ UNCHANGED session
     \/ Goto("queue", "down") /\ DestroyCnode /\ UNCHANGED cn
  /\ UNCHANGED <<smvars, corevars, starts, procs>>

cnode_init == InitSystem \/ InitWifi \/ InitBoard \/ InitCore \/ InitId
                \/ InitIdentity \/ InitQueue

-----------------------------------------------------------------------------
(* cnode_start *)

(* A bound: a cnode that cnode_init went on using after it freed it is not *)
(* handed to further calls.                                                *)
CallStart ==
  /\ app \in {"ready", "failed", "stopped"}
  /\ <<"cnode", 0>> \in heap
  /\ starts < MaxStarts
  /\ app' = "open"
  /\ starts' = starts + 1
  /\ UNCHANGED <<smvars, corevars, session, cn, heap, procs>>

(* The zenoh_t is lost when no session can be opened; so is the last one.  *)
StartSession ==
  /\ At("open")
  /\ heap' = heap \cup {<<"zenoh", starts>>}
  /\ \E ok \in BOOLEAN :
        /\ zenoh_init(starts, ok)
        /\ cn' = [cn EXCEPT !["zenoh"] = IF ok THEN <<"zenoh", starts>> ELSE NULL]
        /\ app' = IF ok THEN "read" ELSE "failed"
  /\ UNCHANGED <<smvars, corevars, starts, procs>>

StartTasks ==
  /\ \/ Goto("read", "lease") /\ zenoh_start_read_task(starts)
     \/ Goto("lease", "alloc") /\ zenoh_start_lease_task(starts)
  /\ UNCHANGED <<smvars, corevars, nodevars>>

AllocPublishers ==
  /\ Goto("alloc", "declare_reply")
  /\ cn' = [cn EXCEPT !["pub_reply"] = <<"pub_reply", starts>>,
                      !["pub_request"] = <<"pub_request", starts>>]
  /\ heap' = heap \cup {<<"pub_reply", starts>>, <<"pub_request", starts>>}
  /\ UNCHANGED <<smvars, corevars, session, starts, procs>>

(* Each declaration is followed by the next, or cnode_start returns false. *)
Declare(a, b, ok) == At(a) /\ app' = IF ok THEN b ELSE "failed"

(* Mutant: the subscription comes first.                                   *)
DeclareSubFirst ==
  /\ \E ok \in BOOLEAN :
        \/ /\ Declare("declare_reply", "declare_request", ok)
           /\ zenoh_declare_sub(starts, ok)
        \/ /\ Declare("declare_request", "declare_sub", ok)
           /\ zenoh_declare_pub(starts, "reply", ok)
        \/ /\ Declare("declare_sub", "spawn", ok)
           /\ zenoh_declare_pub(starts, "request", ok)
  /\ UNCHANGED <<smvars, corevars, nodevars>>

StartDeclare ==
  /\ \E ok \in BOOLEAN :
        \/ /\ Declare("declare_reply", "declare_request", ok)
           /\ zenoh_declare_pub(starts, "reply", ok)
        \/ /\ Declare("declare_request", "declare_sub", ok)
           /\ zenoh_declare_pub(starts, "request", ok)
        \/ /\ Declare("declare_sub", "spawn", ok)
           /\ zenoh_declare_sub(starts, ok)
  /\ UNCHANGED <<smvars, corevars, nodevars>>

(* The result of xTaskCreate is not looked at.                             *)
StartProcessing ==
  /\ Goto("spawn", "running")
  /\ procs' \in {procs, procs \cup {starts}}
  /\ UNCHANGED <<smvars, corevars, session, cn, heap, starts>>

cnode_start == StartSession \/ StartTasks \/ AllocPublishers \/ StartDeclare
                 \/ StartProcessing

-----------------------------------------------------------------------------
(* cnode_stop *)

CallStop ==
  /\ app \in {"failed", "running"}
  /\ app' = "stop_read"
  /\ UNCHANGED <<smvars, corevars, session, nodevars>>

(* A step that fails makes cnode_stop return false; the next call begins   *)
(* with the first step again.                                              *)
StopStep(a, b, ok) ==
  /\ At(a)
  /\ cn["zenoh"] # NULL
  /\ app' = IF ok THEN b ELSE "running"

(* Mutant: the session is dropped, its publishers are not undeclared.      *)
StopUndeclareSub ==
  /\ \E ok \in BOOLEAN :
        StopStep("undeclare_sub", "drop", ok) /\ Undeclare(cn["zenoh"][2], "sub", ok)
  /\ UNCHANGED <<smvars, corevars, nodevars>>

StopUndeclare ==
  /\ \E ok \in BOOLEAN :
        \/ /\ StopStep("undeclare_sub", "undeclare_reply", ok)
           /\ Undeclare(cn["zenoh"][2], "sub", ok)
        \/ /\ StopStep("undeclare_reply", "undeclare_request", ok)
           /\ Undeclare(cn["zenoh"][2], "reply", ok)
        \/ /\ StopStep("undeclare_request", "drop", ok)
           /\ Undeclare(cn["zenoh"][2], "request", ok)
  /\ UNCHANGED <<smvars, corevars, nodevars>>

StopTasks ==
  /\ \E ok \in BOOLEAN :
        \/ /\ StopStep("stop_read", "stop_lease", ok)
           /\ StopTask(cn["zenoh"][2], "read", ok)
        \/ /\ StopStep("stop_lease", "undeclare_sub", ok)
           /\ StopTask(cn["zenoh"][2], "lease", ok)
  /\ UNCHANGED <<smvars, corevars, nodevars>>

(* Mutant: the zenoh_t is freed along with its session.                    *)
StopFreesSession ==
  /\ Goto("drop", "stopped")
  /\ z_session_drop(cn["zenoh"][2])
  /\ heap' = heap \ {cn["zenoh"]}
  /\ UNCHANGED <<smvars, corevars, cn, starts, procs>>

StopSession ==
  /\ Goto("drop", "stopped")
  /\ z_session_drop(cn["zenoh"][2])
  /\ UNCHANGED <<smvars, corevars, nodevars>>

cnode_stop == StopTasks \/ StopUndeclare \/ StopSession

-----------------------------------------------------------------------------
(* cnode_destroy, after cnode_stop unless the node was never started.      *)
CallDestroy ==
  /\ app \in {"ready", "stopped"}
  /\ app' = "down"
  /\ DestroyCnode
  /\ UNCHANGED <<smvars, corevars, cn, starts, procs>>

(* system_manager_init was called before; cnode_stop has no zenoh_t; the   *)
(* cnode was freed by cnode_init already.                                  *)
Panic ==
  /\ \/ At("system") /\ system_initialized
     \/ At("stop_read") /\ cn["zenoh"] = NULL
     \/ At("queue") /\ <<"cnode", 0>> \notin heap
  /\ Reset

PowerLoss == Reset

Wifi == (AttemptEnds \/ Dispatch) /\ UNCHANGED <<corevars, session, app, nodevars>>

Lost == ConnectionLost /\ UNCHANGED <<corevars, session, app, nodevars>>

Call == CallInit \/ CallStart \/ CallStop \/ CallDestroy

Step == cnode_init \/ cnode_start \/ cnode_stop

NodeNext == Call \/ Step \/ Wifi \/ Lost \/ Panic \/ PowerLoss

NodeSpec == NodeInit /\ [][NodeNext]_nvars

(* The application task is scheduled while it is in a call, the event loop *)
(* runs, every attempt to connect ends, a panic resets the chip.  Nothing  *)
(* says that an attempt succeeds, or that a call is made.                  *)
NodeFairSpec ==
  /\ NodeSpec
  /\ WF_nvars(Step \/ Panic)
  /\ WF_nvars(Wifi)

-----------------------------------------------------------------------------
(* Properties *)

(* Every variable of the node has its type.                                *)
NodeTypeOK ==
  /\ SMTypeOK /\ CoreTypeOK /\ ZTypeOK
  /\ app \in Resting \cup Initing \cup Starting \cup Stopping
  /\ cn \in [Field -> Block \cup {NULL}]
  /\ heap \subseteq Block
  /\ starts \in 0..MaxStarts
  /\ procs \subseteq Start

(* Every pointer in a cnode_t that is not freed points to a block that is  *)
(* not freed either, whatever failed before; node_id is core_state's       *)
(* device_id.                                                              *)
FieldsLive ==
  <<"cnode", 0>> \in heap => \A f \in Field : cn[f] \in heap \cup {NULL}

(* Messages reach the data handler through one subscription at most, and   *)
(* through none before cnode_start has declared everything else or after   *)
(* cnode_stop has returned true: no message is handled twice, also after   *)
(* starts and stops that failed half way and were repeated.                *)
HandlerOnlyWhileStarted ==
  /\ Cardinality(Subscribed) <= 1
  /\ Subscribed # {} => app \in {"spawn", "running"} \cup Stopping

(* A boot in which no NVS call failed leaves both the id and the serial    *)
(* number in flash, whatever earlier boots that lost power left of them.   *)
BootCompletesIdentity ==
  (app \in {"queue", "ready"} /\ ~nvs_failed) =>
     flash.device_id # Absent /\ flash.serial_num # Absent

(* What a destroyed node leaves allocated is no more than the board, the   *)
(* empty id string that a generated one replaced, and what failed and      *)
(* repeated starts have lost.  (The first two should not be left: see      *)
(* DestroyFreesInit below.)                                                *)
LeftAfterDestroy ==
  (app = "down" /\ <<"cnode", 0>> \notin heap) =>
     \A b \in heap : \/ b \in {<<"tboard", 0>>, <<"device_id", 0>>}
                     \/ b[1] \in {"zenoh", "pub_reply", "pub_request"}
                        /\ (b[2] < starts \/ cn["zenoh"] = NULL)

(* Initialisation waits for a connection that nobody tries to make.        *)
GivenUp ==
  /\ At("waiting") /\ Exhausted
  /\ station = "idle" /\ events = <<>> /\ ~connected_bit

(* Every call returns, or the chip resets, but for an initialisation that  *)
(* has used up its attempts.                                               *)
CallsReturn == (app \notin Resting) ~> (app \in Resting \/ GivenUp)

-----------------------------------------------------------------------------
(* cnode.h:65-66, of cnode_destroy: "Frees memory allocated during         *)
(* cnode_init().  @warning cnode_stop(cn) must have been called first":    *)
(* with this warning obeyed, what is freed is not in use; the processing   *)
(* task uses the cnode and its queue.                                      *)
ProcessorsHaveNode ==
  procs # {} => {<<"cnode", 0>>, <<"commandQueue", 0>>} \subseteq heap

(* cnode.h:65, of cnode_destroy: "Frees memory allocated during            *)
(* cnode_init()": nothing is left of it when a node has been destroyed.    *)
InitKind == Kind \ {"zenoh", "pub_reply", "pub_request"}
DestroyFreesInit ==
  (app = "down" /\ <<"cnode", 0>> \notin heap) =>
     \A b \in heap : b[1] \notin InitKind
=============================================================================
