----------------------------- MODULE Node_proofs -----------------------------
(***************************************************************************)
(* Proofs about a node's life cycle, for any number of retries and starts  *)
(* and any device ids: the identity survives restarts, the wait for the    *)
(* network is justified, the session, its subscription and the blocks of   *)
(* the heap are where the cnode_t says they are.                           *)
(***************************************************************************)
EXTENDS Node, TLAPS, FiniteSetTheorems, SequenceTheorems

-----------------------------------------------------------------------------
(* Identity *)

(* What the keys, the handle and the corestate_t say about the id.         *)
IdentityKnown ==
  /\ flash.device_id # Absent => nvs.device_id = flash.device_id
  /\ nvs.device_id # Absent => core_state.device_id \in {NoId, nvs.device_id}

(* What the steps of core_setup have achieved unless a call failed.        *)
SetupProgress ==
  ~nvs_failed =>
     /\ app \in {"serial", "commit"} => nvs.device_id # Absent
     /\ app = "commit" => nvs.serial_num # Absent
     /\ app \in {"queue", "ready"} =>
          flash.device_id # Absent /\ flash.serial_num # Absent

IdentityInv == CoreTypeOK /\ IdentityKnown /\ SetupProgress

(* The steps of a node that have to do with its identity, and the others.  *)
IdentityStep ==
  \/ Goto("system", "wifi") /\ nvs_flash_init
  \/ InitCore \/ InitId \/ InitIdentity

LEMMA NodeStepOnIdentity ==
  ASSUME NodeNext
  PROVE  \/ IdentityStep
         \/ Reset
         \/ UNCHANGED corevars /\ (app' = app \/ app' \notin {"id", "serial", "commit", "queue"})
              /\ (app' = "ready" => app \in {"ready", "queue"})
<1>1. CASE Call
  BY <1>1 DEF Call, CallInit, CallStart, CallStop, CallDestroy, Goto
<1>2. CASE cnode_init
  BY <1>2 DEF cnode_init, InitSystem, InitWifi, InitBoard, InitQueue, Goto,
              IdentityStep
<1>3. CASE cnode_start
  BY <1>3 DEF cnode_start, StartSession, StartTasks, AllocPublishers,
              StartDeclare, StartProcessing, Declare, Goto, At
<1>4. CASE cnode_stop
  BY <1>4 DEF cnode_stop, StopTasks, StopUndeclare, StopSession, StopStep, Goto, At
<1>5. CASE Wifi \/ Lost
  BY <1>5 DEF Wifi, Lost
<1>6. CASE Panic \/ PowerLoss
  BY <1>6 DEF Panic, PowerLoss
<1>7. QED
  BY <1>1, <1>2, <1>3, <1>4, <1>5, <1>6 DEF NodeNext, Step

LEMMA IdentityInductive ==
  ASSUME IdentityInv, [NodeNext]_nvars
  PROVE  IdentityInv'
<1> USE DEF IdentityInv, IdentityKnown, SetupProgress, CoreTypeOK, Stored, CoreState
<1>1. CASE Goto("system", "wifi") /\ nvs_flash_init
  BY <1>1, CoreAssumption DEF Goto, nvs_flash_init, FlashOrErased, EmptyFlash
<1>2. CASE InitCore
  <2>1. PICK ok \in BOOLEAN : OpenStorage(0, ok) /\ app' = IF ok THEN "id" ELSE "queue"
    BY <1>2 DEF InitCore
  <2>2. FlashOrErased /\ core_state' = [device_id |-> NoId, serial_num |-> 0]
    BY <2>1 DEF OpenStorage
  <2>3. nvs_failed' \in BOOLEAN /\ (app' = "queue" => nvs_failed' = TRUE)
        /\ app' \in {"id", "queue"}
    BY <2>1 DEF OpenStorage
  <2>4. CoreTypeOK'
    BY <2>2, <2>3, SerialAssumption DEF FlashOrErased, EmptyFlash
  <2>5. IdentityKnown'
    BY <2>2, CoreAssumption DEF FlashOrErased, EmptyFlash
  <2>6. SetupProgress'
    BY <2>3
  <2>7. QED
    BY <2>4, <2>5, <2>6
<1>3. CASE InitId
  BY <1>3, CoreAssumption DEF InitId, ReadId, GetFails, GenerateId, IdMissing, Goto
<1>4. CASE Goto("serial", "commit") /\ GetSerial
  BY <1>4, CoreAssumption DEF Goto, GetSerial, SetSerial, GetFails
<1>5. CASE Goto("commit", "queue") /\ Commit
  BY <1>5, CoreAssumption DEF Goto, Commit, GetFails
<1>6. CASE Reset
  BY <1>6, CoreAssumption DEF Reset, CoreReset
<1>7. CASE /\ UNCHANGED corevars
           /\ app' = app \/ app' \notin {"id", "serial", "commit", "queue"}
           /\ app' = "ready" => app \in {"ready", "queue"}
  BY <1>7 DEF corevars
<1>8. CASE UNCHANGED nvars
  BY <1>8 DEF nvars, corevars
<1>9. QED
  BY <1>1, <1>2, <1>3, <1>4, <1>5, <1>6, <1>7, <1>8, NodeStepOnIdentity
     DEF IdentityStep, InitIdentity

LEMMA IdentityInitial == NodeInit => IdentityInv
<1> SUFFICES ASSUME NodeInit PROVE IdentityInv
  OBVIOUS
<1>1. CoreInit /\ app = "down"
  BY DEF NodeInit
<1>2. CoreTypeOK
  BY <1>1 DEF CoreInit, CoreTypeOK, EmptyFlash, Stored, CoreState
<1>3. IdentityKnown /\ SetupProgress
  BY <1>1 DEF CoreInit, EmptyFlash, IdentityKnown, SetupProgress
<1>4. QED
  BY <1>2, <1>3 DEF IdentityInv

(* The identity's invariant holds in every reachable state.                *)
THEOREM IdentityInvariant == NodeSpec => []IdentityInv
<1>1. IdentityInv /\ [NodeNext]_nvars => IdentityInv'
  BY IdentityInductive
<1>2. QED
  BY IdentityInitial, <1>1, PTL DEF NodeSpec

(* Over any number of restarts, losses of power between two writes and     *)
(* failing calls, a node calls itself by the id that is in flash, or by    *)
(* none.                                                                   *)
THEOREM IdentityStable == NodeSpec => []NodeIdIsStored
<1>1. IdentityInv => NodeIdIsStored
  BY DEF IdentityInv, IdentityKnown, NodeIdIsStored
<1>2. QED
  BY IdentityInvariant, <1>1, PTL

(* A boot without a failing call leaves id and serial number in flash,     *)
(* whatever was there before.                                              *)
THEOREM BootCompletes == NodeSpec => []BootCompletesIdentity
<1>1. IdentityInv => BootCompletesIdentity
  BY DEF IdentityInv, SetupProgress, BootCompletesIdentity
<1>2. QED
  BY IdentityInvariant, <1>1, PTL

(* No step replaces a stored id by another one.                            *)
THEOREM StoredIdKept == NodeSpec => IdentityWriteOnce
<1>1. ASSUME IdentityInv, [NodeNext]_nvars, flash.device_id # Absent
      PROVE  flash'.device_id = flash.device_id \/ flash' = EmptyFlash
  <2> USE <1>1 DEF IdentityInv, IdentityKnown
  <2>1. CASE Goto("system", "wifi") /\ nvs_flash_init
    BY <2>1 DEF nvs_flash_init, FlashOrErased
  <2>2. CASE InitCore
    BY <2>2 DEF InitCore, OpenStorage, FlashOrErased
  <2>3. CASE InitId
    BY <2>3 DEF InitId, ReadId, GetFails, GenerateId
  <2>4. CASE InitIdentity
    BY <2>4 DEF InitIdentity, GetSerial, SetSerial, GetFails, Commit
  <2>5. CASE Reset
    BY <2>5 DEF Reset, CoreReset
  <2>6. CASE UNCHANGED corevars \/ UNCHANGED nvars
    BY <2>6 DEF nvars, corevars
  <2>7. QED
    BY <2>1, <2>2, <2>3, <2>4, <2>5, <2>6, NodeStepOnIdentity DEF IdentityStep
<1>2. IdentityInv /\ [NodeNext]_nvars
        => [flash.device_id # Absent
              => flash'.device_id = flash.device_id \/ flash' = EmptyFlash]_corevars
  BY <1>1
<1>3. QED
  BY IdentityInvariant, <1>2, PTL DEF NodeSpec, IdentityWriteOnce

-----------------------------------------------------------------------------
(* The network *)

(* The steps of the system manager and of the driver.                      *)
NetworkStep ==
  \/ Goto("system", "wifi") /\ system_manager_init
  \/ InitWifi \/ Wifi \/ Lost

LEMMA NodeStepOnNetwork ==
  ASSUME NodeNext
  PROVE  \/ NetworkStep
         \/ Reset
         \/ /\ UNCHANGED smvars
            /\ app' \notin {"wifi", "waiting", "unregister_ip", "unregister_wifi",
                            "delete_group"}
<1>1. CASE Call
  BY <1>1 DEF Call, CallInit, CallStart, CallStop, CallDestroy, Goto
<1>2. CASE cnode_init
  <2>1. CASE InitSystem \/ InitWifi
    BY <2>1 DEF InitSystem, NetworkStep
  <2>2. CASE InitBoard \/ InitQueue
    BY <2>2 DEF InitBoard, InitQueue, Goto
  <2>3. CASE InitCore
    BY <2>3 DEF InitCore
  <2>4. CASE InitId \/ InitIdentity
    BY <2>4 DEF InitId, InitIdentity, Goto
  <2>5. QED
    BY <1>2, <2>1, <2>2, <2>3, <2>4 DEF cnode_init
<1>3. CASE cnode_start
  BY <1>3 DEF cnode_start, StartSession, StartTasks, AllocPublishers,
              StartDeclare, StartProcessing, Declare, Goto, At
<1>4. CASE cnode_stop
  BY <1>4 DEF cnode_stop, StopTasks, StopUndeclare, StopSession, StopStep, Goto, At
<1>5. CASE Wifi \/ Lost
  BY <1>5 DEF NetworkStep
<1>6. CASE Panic \/ PowerLoss
  BY <1>6 DEF Panic, PowerLoss
<1>7. QED
  BY <1>1, <1>2, <1>3, <1>4, <1>5, <1>6 DEF NodeNext, Step

(* Posting an event keeps the queue of events one, and makes it one that   *)
(* holds the event and all that it held.                                   *)
LEMMA Posted ==
  ASSUME events \in Seq(Event), NEW e \in Event, Post(e)
  PROVE  /\ events' \in Seq(Event)
         /\ events' # <<>>
         /\ Len(events') = Len(events) + 1
         /\ events'[Len(events')] = e
         /\ \A i \in 1..Len(events) : events'[i] = events[i]
  BY AppendProperties DEF Post

(* A station that is up has announced its address, unless the announcement *)
(* was handled.                                                            *)
AddressAnnounced ==
  (handlers = EventBase /\ station = "up" /\ ~connected_bit)
     => \E i \in 1..Len(events) : events[i] = "GOT_IP"

(* The events that find no handler come after the wait.                    *)
GroupKnown ==
  app \in {"unregister_wifi", "delete_group"} => "IP" \notin handlers

NetworkInv ==
  SMTypeOK /\ AddressAnnounced /\ WaitJustified /\ HandlersHaveGroup /\ GroupKnown

LEMMA DispatchKeepsNetwork ==
  ASSUME NetworkInv, Dispatch, app' = app
  PROVE  NetworkInv'
<1> USE DEF NetworkInv
<1> DEFINE e == Head(events)
<1>1. /\ events \in Seq(Event) /\ events # <<>>
      /\ e \in Event /\ e = events[1]
      /\ events' \in Seq(Event) /\ Len(events') = Len(events) - 1
      /\ \A i \in 1..Len(events') : events'[i] = events[i + 1]
  BY HeadTailProperties DEF Dispatch, SMTypeOK
<1>2. /\ UNCHANGED <<system_initialized, s_is_wifi_connected, event_group, handlers>>
      /\ \/ /\ BaseOf(e) \notin handlers
            /\ UNCHANGED <<station, s_retry_count, connected_bit>>
         \/ e = "STA_START" /\ OnStart
         \/ e = "STA_DISCONNECTED" /\ OnDisconnected
         \/ e = "GOT_IP" /\ OnGotIp
  BY DEF Dispatch
<1>3. BaseOf(e) \in EventBase
  BY DEF BaseOf, EventBase
<1>4. SMTypeOK'
  <2>1. station' \in {"off", "idle", "connecting", "up"}
    BY <1>2 DEF SMTypeOK, OnStart, OnDisconnected, OnGotIp, esp_wifi_connect
  <2>2. s_retry_count' \in 0..ESP_MAXIMUM_RETRY
    BY <1>2, RetryAssumption DEF SMTypeOK, OnStart, OnDisconnected, OnGotIp
  <2>3. connected_bit' \in BOOLEAN
    BY <1>2 DEF SMTypeOK, OnStart, OnDisconnected, OnGotIp
  <2>4. QED
    BY <1>1, <1>2, <2>1, <2>2, <2>3 DEF SMTypeOK
<1>5. HandlersHaveGroup' /\ GroupKnown'
  BY <1>2 DEF HandlersHaveGroup, GroupKnown
<1>6. ASSUME handlers' = EventBase, ~connected_bit', station' = "up"
      PROVE  \E i \in 1..Len(events') : events'[i] = "GOT_IP"
  <2>1. e # "GOT_IP" /\ station = "up" /\ ~connected_bit /\ handlers = EventBase
    BY <1>2, <1>3, <1>6 DEF OnStart, OnDisconnected, OnGotIp, esp_wifi_connect
  <2>2. PICK i \in 1..Len(events) : events[i] = "GOT_IP"
    BY <2>1 DEF AddressAnnounced
  <2>3. i # 1 /\ i - 1 \in 1..Len(events') /\ events'[i - 1] = events[i]
    BY <1>1, <2>1, <2>2
  <2>4. QED
    BY <2>2, <2>3
<1>7. ASSUME handlers' = EventBase, ~connected_bit', station' # "off"
      PROVE  station' = "connecting" \/ events' # <<>> \/ Exhausted'
  <2>1. CASE station' = "up"
    BY <1>1, <1>6, <1>7, <2>1
  <2>2. CASE station' # "up"
    <3>1. e # "GOT_IP" /\ station \in {"idle", "connecting"}
      BY <1>2, <1>3, <1>7, <2>2
         DEF OnStart, OnDisconnected, OnGotIp, esp_wifi_connect, SMTypeOK
    <3>2. CASE OnStart
      BY <3>1, <3>2 DEF OnStart, esp_wifi_connect
    <3>3. CASE OnDisconnected
      BY <1>4, <3>1, <3>3, RetryAssumption
         DEF OnDisconnected, esp_wifi_connect, Exhausted, SMTypeOK
    <3>4. QED
      BY <1>2, <1>3, <1>7, <3>1, <3>2, <3>3
  <2>3. QED
    BY <2>1, <2>2
<1>8. AddressAnnounced' /\ WaitJustified'
  BY <1>6, <1>7 DEF AddressAnnounced, WaitJustified
<1>9. QED
  BY <1>4, <1>5, <1>8

LEMMA DriverKeepsNetwork ==
  ASSUME NetworkInv, AttemptEnds \/ ConnectionLost, app' = app
  PROVE  NetworkInv'
<1> USE DEF NetworkInv
<1>1. PICK e \in {"GOT_IP", "STA_DISCONNECTED"} :
        Post(e) /\ station' = IF e = "GOT_IP" THEN "up" ELSE "idle"
  BY DEF AttemptEnds, ConnectionLost
<1>2. /\ events' \in Seq(Event) /\ events' # <<>>
      /\ Len(events') = Len(events) + 1
      /\ events'[Len(events')] = e
  BY <1>1, Posted DEF Event, SMTypeOK
<1>3. UNCHANGED <<system_initialized, s_retry_count, s_is_wifi_connected,
                  event_group, connected_bit, handlers>>
  BY DEF AttemptEnds, ConnectionLost
<1>4. SMTypeOK'
  BY <1>1, <1>2, <1>3 DEF SMTypeOK
<1>5. HandlersHaveGroup' /\ GroupKnown' /\ WaitJustified'
  BY <1>2, <1>3 DEF HandlersHaveGroup, GroupKnown, WaitJustified
<1>6. AddressAnnounced'
  <2>1. Len(events') \in 1..Len(events') /\ (station' = "up" => e = "GOT_IP")
    BY <1>1, <1>2 DEF SMTypeOK
  <2>2. QED
    BY <1>2, <2>1 DEF AddressAnnounced
<1>7. QED
  BY <1>4, <1>5, <1>6

LEMMA WifiInitKeepsNetwork ==
  ASSUME NetworkInv, InitWifi
  PROVE  NetworkInv'
<1> USE DEF NetworkInv, InitWifi, Goto
<1>1. CASE Goto("wifi", "waiting") /\ WifiStart
  <2>1. events' \in Seq(Event) /\ events' # <<>>
    BY <1>1, Posted DEF WifiStart, Event, SMTypeOK
  <2>2. QED
    BY <1>1, <2>1 DEF WifiStart, SMTypeOK, EventBase, AddressAnnounced, WaitJustified,
                      HandlersHaveGroup, GroupKnown
<1>2. CASE Goto("waiting", "unregister_ip") /\ WifiConnected
  BY <1>2 DEF WifiConnected, driver, SMTypeOK, AddressAnnounced, WaitJustified,
              HandlersHaveGroup, GroupKnown, Exhausted
<1>3. CASE \/ Goto("unregister_ip", "unregister_wifi") /\ Unregister("IP")
           \/ Goto("unregister_wifi", "delete_group") /\ Unregister("WIFI")
  <2>1. PICK base \in EventBase : Unregister(base)
    BY <1>3 DEF EventBase
  <2>2. handlers' # EventBase
    BY <2>1 DEF Unregister
  <2>3. SMTypeOK'
    BY <2>1 DEF Unregister, SMTypeOK, driver
  <2>4. HandlersHaveGroup' /\ GroupKnown'
    BY <1>3 DEF Unregister, HandlersHaveGroup, GroupKnown, driver
  <2>5. QED
    BY <2>2, <2>3, <2>4 DEF AddressAnnounced, WaitJustified
<1>4. CASE Goto("delete_group", "board") /\ DeleteEventGroup
  BY <1>4 DEF DeleteEventGroup, driver, SMTypeOK, AddressAnnounced, WaitJustified,
              HandlersHaveGroup, GroupKnown, Exhausted
<1>5. QED
  BY <1>1, <1>2, <1>3, <1>4

(* A chip that starts has nothing registered and its radio off.            *)
LEMMA ResetKeepsNetwork ==
  /\ SMInit /\ app = "down" => NetworkInv
  /\ SMReset /\ app' = "down" => NetworkInv'
<1>1. <<>> \in Seq(Event) /\ 0 \in 0..ESP_MAXIMUM_RETRY
  BY EmptySeq, RetryAssumption
<1>2. ASSUME SMInit, app = "down"
      PROVE  NetworkInv
  <2>1. SMTypeOK
    BY <1>1, <1>2 DEF SMInit, SMTypeOK
  <2>2. QED
    BY <1>2, <2>1 DEF SMInit, NetworkInv, AddressAnnounced, WaitJustified,
                      HandlersHaveGroup, GroupKnown
<1>3. ASSUME SMReset, app' = "down"
      PROVE  NetworkInv'
  <2>1. SMTypeOK'
    BY <1>1, <1>3 DEF SMReset, SMTypeOK
  <2>2. QED
    BY <1>3, <2>1 DEF SMReset, NetworkInv, AddressAnnounced, WaitJustified,
                      HandlersHaveGroup, GroupKnown
<1>4. QED
  BY <1>2, <1>3

LEMMA NetworkInductive ==
  ASSUME NetworkInv, [NodeNext]_nvars
  PROVE  NetworkInv'
<1>1. CASE Goto("system", "wifi") /\ system_manager_init
  BY <1>1 DEF Goto, system_manager_init, driver, NetworkInv, SMTypeOK, AddressAnnounced,
              WaitJustified, HandlersHaveGroup, GroupKnown, Exhausted
<1>2. CASE InitWifi
  BY <1>2, WifiInitKeepsNetwork
<1>3. CASE Wifi \/ Lost
  BY <1>3, DispatchKeepsNetwork, DriverKeepsNetwork DEF Wifi, Lost
<1>4. CASE Reset
  BY <1>4, ResetKeepsNetwork DEF Reset
<1>5. CASE /\ UNCHANGED smvars
           /\ app' = app \/ app' \notin {"wifi", "waiting", "unregister_ip",
                                         "unregister_wifi", "delete_group"}
  BY <1>5 DEF smvars, NetworkInv, SMTypeOK, AddressAnnounced, WaitJustified,
              HandlersHaveGroup, GroupKnown, Exhausted
<1>6. CASE UNCHANGED nvars
  BY <1>5, <1>6 DEF nvars
<1>7. QED
  BY <1>1, <1>2, <1>3, <1>4, <1>5, <1>6, NodeStepOnNetwork DEF NetworkStep

(* The network's invariant holds in every reachable state.                 *)
THEOREM NetworkInvariant == NodeSpec => []NetworkInv
<1>1. NodeInit => NetworkInv
  BY ResetKeepsNetwork DEF NodeInit
<1>2. NetworkInv /\ [NodeNext]_nvars => NetworkInv'
  BY NetworkInductive
<1>3. QED
  BY <1>1, <1>2, PTL DEF NodeSpec

(* The wait of initialisation never hangs while attempts are left, for any *)
(* number of them and any order of the driver's events.                    *)
THEOREM WaitIsJustified == NodeSpec => []WaitJustified
<1>1. NetworkInv => WaitJustified
  BY DEF NetworkInv
<1>2. QED
  BY NetworkInvariant, <1>1, PTL

(* event_handler never sets a bit of a group that was deleted.             *)
THEOREM HandlerFindsGroup == NodeSpec => []HandlersHaveGroup
<1>1. NetworkInv => HandlersHaveGroup
  BY DEF NetworkInv
<1>2. QED
  BY NetworkInvariant, <1>1, PTL

-----------------------------------------------------------------------------
(* The life cycle *)

(* A session, a task or a declaration belongs to a call of cnode_start.    *)
StartKnown ==
  app \in Starting \cup Stopping \cup {"failed", "running", "stopped"}
    => starts \in Start

LifeTypeOK ==
  /\ ZTypeOK
  /\ app \in Resting \cup Initing \cup Starting \cup Stopping
  /\ cn \in [Field -> Block \cup {NULL}]
  /\ heap \subseteq Block
  /\ starts \in 0..MaxStarts
  /\ procs \subseteq Start
  /\ StartKnown

(* Setting one flag of one zenoh_t leaves all others.                      *)
LEMMA FlagSet ==
  ASSUME ZTypeOK, NEW n \in Start, NEW x \in Part, NEW b \in BOOLEAN, Set(n, x, b)
  PROVE  /\ ZTypeOK'
         /\ \A m \in Start, y \in Part :
              session'[m][y] = IF m = n /\ y = x THEN b ELSE session[m][y]
  BY DEF ZTypeOK, Set

(* Whatever is set, a flag remains a flag.                                 *)
LEMMA SetKeepsType ==
  ASSUME ZTypeOK, NEW n, NEW x, NEW b \in BOOLEAN
  PROVE  /\ [session EXCEPT ![n][x] = b] \in [Start -> [Part -> BOOLEAN]]
         /\ Set(n, x, b) => ZTypeOK'
<1>1. ASSUME NEW m \in Start
      PROVE  [session EXCEPT ![n][x] = b][m] \in [Part -> BOOLEAN]
  BY <1>1 DEF ZTypeOK
<1>2. QED
  BY <1>1 DEF ZTypeOK, Set

LEMMA DestroyKeepsTypes ==
  ASSUME LifeTypeOK, DestroyCnode
  PROVE  ZTypeOK' /\ heap' \subseteq Block
<1>1. heap' \subseteq Block
  BY DEF LifeTypeOK, DestroyCnode
<1>2. ASSUME NEW n, zenoh_destroy(n)
      PROVE  ZTypeOK'
  <2> DEFINE s == [session EXCEPT ![n]["sub"] = FALSE]
  <2>1. s \in [Start -> [Part -> BOOLEAN]]
    BY SetKeepsType DEF LifeTypeOK
  <2>2. session' = [s EXCEPT ![n]["open"] = FALSE]
    BY <1>2 DEF zenoh_destroy
  <2>3. ASSUME NEW m \in Start
        PROVE  [s EXCEPT ![n]["open"] = FALSE][m] \in [Part -> BOOLEAN]
    BY <2>1
  <2>4. QED
    BY <2>1, <2>2, <2>3 DEF ZTypeOK
<1>3. QED
  BY <1>1, <1>2 DEF LifeTypeOK, DestroyCnode, ZTypeOK

LEMMA AllocKeepsTypes ==
  ASSUME LifeTypeOK, NEW f \in Field, NEW n \in 0..(MaxStarts + 1), Alloc(f, n)
  PROVE  cn' \in [Field -> Block \cup {NULL}] /\ heap' \subseteq Block
  BY DEF LifeTypeOK, Alloc, Block, Field

LEMMA LifeTypeInductive ==
  ASSUME LifeTypeOK, [NodeNext]_nvars
  PROVE  LifeTypeOK'
<1> USE DEF LifeTypeOK, StartKnown
<1> USE StartsAssumption
<1>1. 0 \in 0..(MaxStarts + 1) /\ 1 \in 0..(MaxStarts + 1)
      /\ starts \in 0..(MaxStarts + 1)
  OBVIOUS
<1>2. CASE Call
  <2>1. CASE CallInit
    BY <1>1, <2>1 DEF CallInit, Goto, NoCnode, Block, Kind, Initing, Resting, Starting,
                      Stopping, ZTypeOK
  <2>2. CASE CallStart
    BY <2>2 DEF CallStart, Starting, Start, ZTypeOK
  <2>3. CASE CallStop
    BY <2>3 DEF CallStop, Stopping, nodevars, ZTypeOK
  <2>4. CASE CallDestroy
    BY <2>4, DestroyKeepsTypes DEF CallDestroy, Resting, Starting, Stopping
  <2>5. QED
    BY <1>2, <2>1, <2>2, <2>3, <2>4 DEF Call
<1>3. CASE cnode_init
  <2> USE DEF Goto, Initing, Resting, Starting, Stopping
  <2>1. CASE InitSystem
    BY <1>1, <2>1, AllocKeepsTypes DEF InitSystem, Field, Kind, ZTypeOK
  <2>2. CASE InitWifi
    BY <2>2 DEF InitWifi, nodevars, ZTypeOK
  <2>3. CASE InitBoard
    BY <1>1, <2>3, AllocKeepsTypes, DestroyKeepsTypes DEF InitBoard, Field, Kind, ZTypeOK
  <2>4. CASE InitCore
    BY <1>1, <2>4 DEF InitCore, At, Block, Field, Kind, ZTypeOK
  <2>5. CASE InitId
    BY <1>1, <2>5, AllocKeepsTypes DEF InitId, Field, Kind, ZTypeOK
  <2>6. CASE InitIdentity
    BY <2>6 DEF InitIdentity, nodevars, ZTypeOK
  <2>7. CASE InitQueue
    BY <1>1, <2>7, AllocKeepsTypes, DestroyKeepsTypes DEF InitQueue, Field, Kind, ZTypeOK
  <2>8. QED
    BY <1>3, <2>1, <2>2, <2>3, <2>4, <2>5, <2>6, <2>7 DEF cnode_init
<1>4. CASE cnode_start
  <2>1. starts \in Start
    BY <1>4 DEF cnode_start, StartSession, StartTasks, AllocPublishers, StartDeclare,
                StartProcessing, Declare, Goto, At, Starting
  <2> USE <2>1 DEF Goto, Resting, Starting, Stopping
  <2>2. CASE StartSession
    <3>1. ZTypeOK'
      BY <2>2, FlagSet DEF StartSession, zenoh_init, Try, ZTypeOK, Part
    <3>2. cn' \in [Field -> Block \cup {NULL}] /\ heap' \subseteq Block
      BY <1>1, <2>2 DEF StartSession, Block, Field, Kind
    <3>3. app' \in {"read", "failed"} /\ UNCHANGED <<starts, procs>>
      BY <2>2 DEF StartSession
    <3>4. QED
      BY <3>1, <3>2, <3>3
  <2>3. CASE StartTasks
    <3>1. ZTypeOK'
      BY <2>3, FlagSet DEF StartTasks, zenoh_start_read_task, zenoh_start_lease_task,
                           Try, ZTypeOK, Part
    <3>2. QED
      BY <2>3, <3>1 DEF StartTasks, nodevars
  <2>4. CASE AllocPublishers
    BY <1>1, <2>4 DEF AllocPublishers, Block, Field, Kind, ZTypeOK
  <2>5. CASE StartDeclare
    <3>1. ZTypeOK'
      BY <2>5, FlagSet DEF StartDeclare, zenoh_declare_pub, zenoh_declare_sub, Try,
                           ZTypeOK, Part, Publisher
    <3>2. QED
      BY <2>5, <3>1 DEF StartDeclare, Declare, At, nodevars
  <2>6. CASE StartProcessing
    BY <2>6 DEF StartProcessing, ZTypeOK
  <2>7. QED
    BY <1>4, <2>2, <2>3, <2>4, <2>5, <2>6 DEF cnode_start
<1>5. CASE cnode_stop
  <2> USE DEF Goto, Resting, Starting, Stopping
  <2>1. ZTypeOK'
    <3>1. UNCHANGED session
            \/ \E x \in Part, b \in BOOLEAN : Set(cn["zenoh"][2], x, b)
      BY <1>5 DEF cnode_stop, StopTasks, StopUndeclare, StopSession, Undeclare, StopTask,
                  z_session_drop, Part, Publisher
    <3>2. QED
      BY <3>1, SetKeepsType DEF ZTypeOK
  <2>2. QED
    BY <1>5, <2>1 DEF cnode_stop, StopTasks, StopUndeclare, StopSession, StopStep, At,
                      nodevars
<1>6. CASE Wifi \/ Lost
  BY <1>6 DEF Wifi, Lost, nodevars, ZTypeOK
<1>7. CASE Reset
  BY <1>7 DEF Reset, NoCnode, NoSession, ZTypeOK, Resting, Starting, Stopping
<1>8. CASE UNCHANGED nvars
  BY <1>8 DEF nvars, nodevars, ZTypeOK
<1>9. QED
  BY <1>2, <1>3, <1>4, <1>5, <1>6, <1>7, <1>8 DEF NodeNext, Step, Panic, PowerLoss

LEMMA LifeTypeInitial == NodeInit => LifeTypeOK
  BY StartsAssumption DEF NodeInit, ZInit, NoSession, NoCnode, LifeTypeOK, StartKnown,
     ZTypeOK, Resting, Starting, Stopping

(* Every variable of a node has its type, in every reachable state.        *)
THEOREM NodeTypeCorrect == NodeSpec => []NodeTypeOK
<1>1. LifeTypeOK /\ [NodeNext]_nvars => LifeTypeOK'
  BY LifeTypeInductive
<1>2. NodeSpec => []LifeTypeOK
  BY LifeTypeInitial, <1>1, PTL DEF NodeSpec
<1>3. IdentityInv /\ NetworkInv /\ LifeTypeOK => NodeTypeOK
  BY DEF IdentityInv, NetworkInv, LifeTypeOK, NodeTypeOK
<1>4. QED
  BY <1>2, <1>3, IdentityInvariant, NetworkInvariant, PTL

-----------------------------------------------------------------------------
(* The session *)

(* cnode_start has called zenoh_init with success, or cnode_stop runs.     *)
SessionCalls == (Starting \ {"open"}) \cup (Stopping \ {"stop_read"})

(* Which zenoh_t the cnode_t points to, and that its session is open.      *)
SessionKnown ==
  /\ app \in Initing \cup {"ready"} => cn["zenoh"] = NULL
  /\ app \in SessionCalls \cup {"stopped"} => cn["zenoh"] = <<"zenoh", starts>>
  /\ app \in {"stop_read", "failed", "running"} =>
       cn["zenoh"] \in {NULL, <<"zenoh", starts>>}
  /\ (app \in SessionCalls \cup {"stop_read", "failed", "running"}
        /\ cn["zenoh"] # NULL) => session[starts]["open"]

(* What cnode_stop has undeclared so far.                                  *)
Undeclared ==
  /\ app \in {"undeclare_reply", "undeclare_request", "drop"} =>
       ~session[starts]["sub"]
  /\ app \in {"undeclare_request", "drop"} => ~session[starts]["reply"]
  /\ app = "drop" => ~session[starts]["request"]
  /\ app = "stopped" => ~session[starts]["open"]

(* Only the last call of cnode_start has a subscription, once it has       *)
(* declared it and until cnode_stop has undeclared it.                     *)
OneSubscription ==
  \A n \in Start : session[n]["sub"] =>
     n = starts /\ app \in {"spawn", "running"} \cup Stopping

SessionInv ==
  LifeTypeOK /\ SessionKnown /\ Undeclared /\ OneSubscription /\ UndeclaredBeforeDrop

(* What each call does to the flags of the zenoh_t it is made for.         *)
FlagBecomes(x, b) ==
  \A n \in Start, y \in Part :
     session'[n][y] = IF n = starts /\ y = x THEN b ELSE session[n][y]

SameFlags(parts) == \A n \in Start, y \in parts : session'[n][y] = session[n][y]

LEMMA SetEffect ==
  ASSUME ZTypeOK, starts \in Start, NEW x \in Part, NEW b \in BOOLEAN,
         Set(starts, x, b)
  PROVE  FlagBecomes(x, b)
  BY FlagSet DEF FlagBecomes

LEMMA TryEffect ==
  ASSUME ZTypeOK, starts \in Start, NEW x \in Part, NEW ok \in BOOLEAN,
         Try(starts, x, ok)
  PROVE  IF ok THEN FlagBecomes(x, TRUE) ELSE SameFlags(Part)
<1>1. CASE ok
  BY <1>1, SetEffect DEF Try
<1>2. CASE ~ok
  BY <1>2 DEF Try, SameFlags
<1>3. QED
  BY <1>1, <1>2

LEMMA TasksEffect ==
  ASSUME ZTypeOK, starts \in Start, NEW x \in {"read", "lease"}, NEW ok \in BOOLEAN,
         Try(starts, x, ok) \/ StopTask(starts, x, ok)
  PROVE  SameFlags(Part \ {"read", "lease"})
<1>1. x \in Part /\ SameFlags(Part) => SameFlags(Part \ {"read", "lease"})
  BY DEF Part, SameFlags
<1>2. \A b \in BOOLEAN : FlagBecomes(x, b) => SameFlags(Part \ {"read", "lease"})
  BY DEF FlagBecomes, SameFlags
<1>3. x \in Part
  BY DEF Part
<1>4. CASE UNCHANGED session
  BY <1>1, <1>3, <1>4 DEF SameFlags
<1>5. CASE \E b \in BOOLEAN : Set(starts, x, b)
  BY <1>2, <1>3, <1>5, SetEffect
<1>6. QED
  BY <1>4, <1>5 DEF Try, StopTask

(* A step on part x leaves the other parts and the other sessions alone.   *)
LEMMA OthersKept ==
  ASSUME NEW x \in Part, NEW b \in BOOLEAN, FlagBecomes(x, b) \/ SameFlags(Part)
  PROVE  \A n \in Start, y \in Part :
            /\ (n # starts \/ y # x) => session'[n][y] = session[n][y]
            /\ session'[n][y] => session[n][y] \/ b
  BY DEF FlagBecomes, SameFlags

LEMMA CallKeepsSession ==
  ASSUME SessionInv, LifeTypeOK', Call
  PROVE  SessionInv'
<1> USE DEF SessionInv, LifeTypeOK, SessionKnown, Undeclared, OneSubscription,
            UndeclaredBeforeDrop, SessionCalls, StartKnown
<1>1. CASE CallInit
  BY <1>1 DEF CallInit, Goto, NoCnode, Field, Kind, Initing, Starting, Stopping
<1>2. CASE CallStart
  BY <1>2 DEF CallStart, Initing, Starting, Stopping
<1>3. CASE CallStop
  BY <1>3 DEF CallStop, nodevars, Initing, Starting, Stopping
<1>4. CASE CallDestroy
  <2>1. /\ app \in {"ready", "stopped"} /\ app' = "down" /\ DestroyCnode
        /\ UNCHANGED <<cn, starts>>
    BY <1>4 DEF CallDestroy
  <2>2. CASE UNCHANGED session
    BY <2>1, <2>2 DEF Initing, Starting, Stopping
  <2>3. CASE session' # session
    <3>1. /\ app = "stopped" /\ cn["zenoh"] = <<"zenoh", starts>>
          /\ zenoh_destroy(starts) /\ starts \in Start
      BY <2>1, <2>3 DEF DestroyCnode, Starting, Stopping
    <3>2. \A n \in Start, x \in Part :
             session'[n][x] = IF n = starts /\ x \in {"sub", "open"} THEN FALSE
                              ELSE session[n][x]
      BY <3>1 DEF zenoh_destroy, ZTypeOK, Part, Publisher
    <3>3. OneSubscription'
      <4>1. \A n \in Start : ~session[n]["sub"]
        BY <3>1 DEF Stopping
      <4>2. \A n \in Start : ~session'[n]["sub"]
        BY <3>2, <4>1 DEF Part
      <4>3. QED
        BY <4>2
    <3>4. UndeclaredBeforeDrop'
      <4>1. ~session[starts]["open"]
        BY <3>1
      <4>2. \A n \in Start, x \in Publisher \cup {"sub"} :
              x \in Part /\ x # "open" /\ (session'[n][x] => session[n][x])
        BY <3>2 DEF Part, Publisher, ZTypeOK
      <4>3. \A n \in Start : ~session'[n]["open"] => ~session[n]["open"]
        BY <3>2, <4>1 DEF Part
      <4>4. QED
        BY <4>2, <4>3
    <3>5. SessionKnown' /\ Undeclared'
      BY <2>1 DEF Initing, Starting, Stopping
    <3>6. QED
      BY <3>3, <3>4, <3>5
  <2>4. QED
    BY <2>2, <2>3
<1>5. QED
  BY <1>1, <1>2, <1>3, <1>4 DEF Call

LEMMA InitKeepsSession ==
  ASSUME SessionInv, LifeTypeOK', cnode_init
  PROVE  SessionInv'
<1>1. /\ app \in Initing /\ app' \in Initing \cup {"ready", "down"}
      /\ UNCHANGED starts /\ cn["zenoh"] = NULL
  BY DEF SessionInv, SessionKnown, cnode_init, InitSystem, InitWifi, InitBoard, InitCore,
         InitId, InitIdentity, InitQueue, Goto, At, Initing, nodevars
<1>2. cn'["zenoh"] = NULL
  BY <1>1 DEF SessionInv, LifeTypeOK, cnode_init, InitSystem, InitWifi, InitBoard, InitCore,
         InitId, InitIdentity, InitQueue, Alloc, nodevars, Field, Kind
<1>3. UNCHANGED session
  BY <1>1 DEF cnode_init, InitSystem, InitWifi, InitBoard, InitCore,
         InitId, InitIdentity, InitQueue, DestroyCnode
<1>4. QED
  BY <1>1, <1>2, <1>3 DEF SessionInv, SessionKnown, Undeclared, OneSubscription,
     UndeclaredBeforeDrop, SessionCalls, Initing, Starting, Stopping

LEMMA ZenohIsBlock ==
  ASSUME starts \in Start
  PROVE  <<"zenoh", starts>> # NULL
<1>1. starts \in 0..(MaxStarts + 1)
  BY StartsAssumption DEF Start
<1>2. <<"zenoh", starts>> \in Block
  BY <1>1 DEF Block, Kind
<1>3. QED
  BY <1>2, NullAssumption

LEMMA StartKeepsSession ==
  ASSUME SessionInv, LifeTypeOK', cnode_start
  PROVE  SessionInv'
<1> USE DEF SessionInv, SessionKnown, Undeclared, OneSubscription,
            UndeclaredBeforeDrop, SessionCalls
<1>1. /\ app \in Starting /\ starts \in Start /\ ZTypeOK /\ UNCHANGED starts
      /\ cn \in [Field -> Block \cup {NULL}] /\ "zenoh" \in Field
  BY DEF LifeTypeOK, StartKnown, cnode_start, StartSession, StartTasks,
         AllocPublishers, StartDeclare, StartProcessing, Declare, Goto, At, Starting,
         nodevars, Field, Kind
<1>2. CASE StartSession
  <2>1. PICK ok \in BOOLEAN :
          /\ zenoh_init(starts, ok)
          /\ cn' = [cn EXCEPT !["zenoh"] = IF ok THEN <<"zenoh", starts>> ELSE NULL]
          /\ app' = IF ok THEN "read" ELSE "failed"
    BY <1>2 DEF StartSession
  <2>2. app = "open" /\ \A n \in Start : ~session[n]["sub"]
    BY <1>2 DEF StartSession, At, Stopping
  <2>3. IF ok THEN FlagBecomes("open", TRUE) ELSE SameFlags(Part)
    BY <1>1, <2>1, TryEffect DEF zenoh_init, Part
  <2>4. /\ \A n \in Start, x \in Publisher \cup {"sub"} :
             session'[n][x] = session[n][x]
        /\ \A n \in Start : session[n]["open"] => session'[n]["open"]
        /\ ok => session'[starts]["open"]
    BY <1>1, <2>3 DEF FlagBecomes, SameFlags, Part, Publisher
  <2>5. UndeclaredBeforeDrop' /\ OneSubscription'
    BY <2>2, <2>4 DEF Publisher
  <2>6. SessionKnown' /\ Undeclared'
    BY <1>1, <2>1, <2>4 DEF Initing, Starting, Stopping
  <2>7. QED
    BY <2>5, <2>6
<1>3. CASE StartTasks
  <2>1. SameFlags(Part \ {"read", "lease"})
    BY <1>1, <1>3, TasksEffect
       DEF StartTasks, zenoh_start_read_task, zenoh_start_lease_task
  <2>2. UNCHANGED cn /\ app \in {"read", "lease"} /\ app' \in {"lease", "alloc"}
    BY <1>3 DEF StartTasks, Goto, nodevars
  <2>3. QED
    BY <1>1, <2>1, <2>2 DEF SameFlags, Part, Publisher, Initing, Starting, Stopping
<1>4. CASE AllocPublishers
  BY <1>1, <1>4 DEF AllocPublishers, Goto, Field, Kind, Initing, Starting, Stopping
<1>5. CASE StartDeclare
  <2>1. PICK ok \in BOOLEAN, x \in Publisher \cup {"sub"} :
          /\ Try(starts, x, ok)
          /\ x = "sub" => app = "declare_sub"
          /\ app \in {"declare_reply", "declare_request", "declare_sub"}
          /\ app' \in {"failed", "declare_request", "declare_sub", "spawn"}
          /\ x = "sub" => app' = IF ok THEN "spawn" ELSE "failed"
          /\ UNCHANGED cn
    BY <1>5 DEF StartDeclare, Declare, At, zenoh_declare_pub, zenoh_declare_sub,
                Publisher, nodevars
  <2>2. IF ok THEN FlagBecomes(x, TRUE) ELSE SameFlags(Part)
    BY <1>1, <2>1, TryEffect DEF Part
  <2>3. session[starts]["open"] /\ cn["zenoh"] = <<"zenoh", starts>>
    <3>1. <<"zenoh", starts>> # NULL
      BY <1>1, ZenohIsBlock
    <3>2. QED
      BY <2>1, <3>1 DEF Starting
  <2>4. \A n \in Start : ~session[n]["sub"]
    BY <2>1 DEF Stopping
  <2>5. session'[starts]["open"] /\ UndeclaredBeforeDrop'
    <3>1. x \in Part /\ x # "open" /\ "open" \in Part
          /\ Publisher \cup {"sub"} \subseteq Part
      BY <2>1 DEF Part, Publisher
    <3>2. \A n \in Start, y \in Part :
             n # starts \/ y # x => session'[n][y] = session[n][y]
      BY <2>2, <3>1 DEF FlagBecomes, SameFlags
    <3>3. \A n \in Start : session'[n]["open"] = session[n]["open"]
      BY <3>1, <3>2
    <3>4. \A n \in Start : ~session'[n]["open"] =>
             \A y \in Publisher \cup {"sub"} : ~session'[n][y]
      BY <2>3, <3>1, <3>2, <3>3
    <3>5. QED
      BY <1>1, <2>3, <3>3, <3>4
  <2>6. OneSubscription'
    <3>1. \A n \in Start : session'[n]["sub"] => ok /\ n = starts /\ x = "sub"
      BY <2>2, <2>4 DEF FlagBecomes, SameFlags, Part
    <3>2. QED
      BY <1>1, <2>1, <3>1
  <2>7. SessionKnown'
    BY <1>1, <2>1, <2>3, <2>5 DEF Initing, Starting, Stopping
  <2>8. Undeclared'
    BY <1>1, <2>1, <2>3
  <2>9. QED
    BY <2>5, <2>6, <2>7, <2>8
<1>6. CASE StartProcessing
  BY <1>1, <1>6 DEF StartProcessing, Goto, Initing, Starting, Stopping
<1>7. QED
  BY <1>2, <1>3, <1>4, <1>5, <1>6 DEF cnode_start

LEMMA StopKeepsSession ==
  ASSUME SessionInv, LifeTypeOK', cnode_stop
  PROVE  SessionInv'
<1> USE DEF SessionInv, SessionKnown, Undeclared, OneSubscription,
            UndeclaredBeforeDrop, SessionCalls
<1>1. /\ app \in Stopping /\ starts \in Start /\ ZTypeOK
      /\ UNCHANGED <<starts, cn>>
  BY DEF LifeTypeOK, StartKnown, cnode_stop, StopTasks, StopUndeclare, StopSession,
         StopStep, Goto, At, Stopping, nodevars
<1>2. cn["zenoh"] = <<"zenoh", starts>> /\ <<"zenoh", starts>> # NULL
  <2>1. <<"zenoh", starts>> # NULL
    BY <1>1, ZenohIsBlock
  <2>2. cn["zenoh"] = <<"zenoh", starts>>
    BY <1>1 DEF cnode_stop, StopTasks, StopUndeclare, StopSession, StopStep, Goto, At,
                Stopping
  <2>3. QED
    BY <2>1, <2>2
<1>3. session[starts]["open"] /\ cn["zenoh"][2] = starts
  BY <1>1, <1>2 DEF Stopping
<1>4. CASE StopTasks
  <2>1. SameFlags(Part \ {"read", "lease"})
    BY <1>1, <1>3, <1>4, TasksEffect DEF StopTasks
  <2>2. app' \in {"stop_lease", "undeclare_sub", "running"}
    BY <1>4 DEF StopTasks, StopStep
  <2>3. QED
    BY <1>1, <1>2, <1>3, <2>1, <2>2
       DEF SameFlags, Part, Publisher, Initing, Starting, Stopping
<1>5. CASE StopUndeclare
  <2>1. PICK ok \in BOOLEAN, x \in Publisher \cup {"sub"} :
          /\ Undeclare(starts, x, ok)
          /\ \/ x = "sub" /\ StopStep("undeclare_sub", "undeclare_reply", ok)
             \/ x = "reply" /\ StopStep("undeclare_reply", "undeclare_request", ok)
             \/ x = "request" /\ StopStep("undeclare_request", "drop", ok)
    BY <1>2, <1>5 DEF StopUndeclare, Publisher
  <2>2. FlagBecomes(x, FALSE) \/ (~ok /\ SameFlags(Part))
    BY <1>1, <2>1, SetEffect DEF Undeclare, SameFlags, Part
  <2>3. x \in Part /\ x # "open"
        /\ app' \in {"undeclare_reply", "undeclare_request", "drop", "running"}
    BY <2>1 DEF StopStep, Part, Publisher
  <2>4. UndeclaredBeforeDrop' /\ session'[starts]["open"]
    <3>1. \A n \in Start : session'[n]["open"] = session[n]["open"]
      BY <2>2, <2>3, OthersKept DEF Part
    <3>2. \A n \in Start, y \in Publisher \cup {"sub"} :
            session'[n][y] => session[n][y]
      BY <2>2, <2>3, OthersKept DEF Part, Publisher
    <3>3. \A n \in Start : ~session'[n]["open"] =>
             \A y \in Publisher \cup {"sub"} : ~session'[n][y]
      BY <3>1, <3>2
    <3>4. starts \in Start /\ session'[starts]["open"]
      BY <1>1, <1>3, <3>1
    <3>5. QED
      BY <3>3, <3>4
  <2>5. OneSubscription'
    BY <1>1, <2>2, <2>3 DEF FlagBecomes, SameFlags, Part, Publisher, Stopping
  <2>6. Undeclared'
    BY <1>1, <2>1, <2>2, <2>3 DEF FlagBecomes, SameFlags, StopStep, At, Part, Publisher
  <2>7. QED
    BY <1>1, <1>2, <2>3, <2>4, <2>5, <2>6 DEF Initing, Starting, Stopping
<1>6. CASE StopSession
  <2>1. app = "drop" /\ app' = "stopped"
    BY <1>6 DEF StopSession, Goto
  <2>2. FlagBecomes("open", FALSE)
    <3>1. Set(starts, "open", FALSE)
      BY <1>3, <1>6 DEF StopSession, z_session_drop
    <3>2. "open" \in Part
      BY DEF Part
    <3>3. QED
      BY <1>1, <3>1, <3>2, SetEffect
  <2>3. UndeclaredBeforeDrop'
    <3>1. \A x \in Publisher \cup {"sub"} : ~session[starts][x]
      BY <2>1 DEF Publisher
    <3>2. \A n \in Start, x \in Publisher \cup {"sub"} :
            session'[n][x] = session[n][x]
      BY <2>2 DEF FlagBecomes, Part, Publisher
    <3>3. \A n \in Start : n # starts => session'[n]["open"] = session[n]["open"]
      BY <2>2 DEF FlagBecomes, Part
    <3>4. QED
      BY <3>1, <3>2, <3>3
  <2>4. SessionKnown' /\ Undeclared'
    BY <1>1, <1>2, <2>1, <2>2 DEF FlagBecomes, Part, Initing, Starting, Stopping
  <2>5. OneSubscription'
    <3>1. \A n \in Start : ~session'[n]["sub"]
      BY <1>1, <2>1, <2>2 DEF FlagBecomes, Part
    <3>2. QED
      BY <3>1
  <2>6. QED
    BY <2>3, <2>4, <2>5
<1>7. QED
  BY <1>4, <1>5, <1>6 DEF cnode_stop

LEMMA ResetKeepsSession ==
  ASSUME LifeTypeOK', Reset
  PROVE  SessionInv'
  BY DEF SessionInv, SessionKnown, Undeclared, OneSubscription,
     UndeclaredBeforeDrop, SessionCalls, Reset, NoSession, Part, Publisher, Initing,
     Starting, Stopping

LEMMA SessionInductive ==
  ASSUME SessionInv, [NodeNext]_nvars
  PROVE  SessionInv'
<1>1. LifeTypeOK'
  BY LifeTypeInductive DEF SessionInv
<1>2. CASE Wifi \/ Lost \/ UNCHANGED nvars
  BY <1>1, <1>2 DEF Wifi, Lost, nvars, nodevars, SessionInv, SessionKnown, Undeclared,
     OneSubscription, UndeclaredBeforeDrop
<1>3. QED
  BY <1>1, <1>2, CallKeepsSession, InitKeepsSession, StartKeepsSession,
     StopKeepsSession, ResetKeepsSession DEF NodeNext, Step, Panic, PowerLoss

LEMMA SessionInitial == NodeInit => SessionInv
  BY LifeTypeInitial DEF NodeInit, ZInit, NoSession, SessionInv, SessionKnown, Undeclared,
     OneSubscription, UndeclaredBeforeDrop, SessionCalls, Part, Publisher, Initing,
     Starting, Stopping

(* The session's invariant holds in every reachable state.                 *)
THEOREM SessionInvariant == NodeSpec => []SessionInv
<1>1. SessionInv /\ [NodeNext]_nvars => SessionInv'
  BY SessionInductive
<1>2. QED
  BY SessionInitial, <1>1, PTL DEF NodeSpec

(* However starts and stops fail half way and are repeated, no session is  *)
(* dropped before its publishers and its subscriber are undeclared.        *)
THEOREM DropComesLast == NodeSpec => []UndeclaredBeforeDrop
<1>1. SessionInv => UndeclaredBeforeDrop
  BY DEF SessionInv
<1>2. QED
  BY SessionInvariant, <1>1, PTL

(* The data handler is reached through one subscription at most, and only  *)
(* while the node is started: no message is handled twice.                 *)
THEOREM HandledOnce == NodeSpec => []HandlerOnlyWhileStarted
<1>1. ASSUME SessionInv
      PROVE  HandlerOnlyWhileStarted
  <2>1. Subscribed \subseteq {starts}
    BY <1>1 DEF SessionInv, OneSubscription, Subscribed
  <2>2. Cardinality(Subscribed) <= 1
    <3>1. Subscribed = {} \/ Subscribed = {starts}
      BY <2>1
    <3>2. CASE Subscribed = {}
      BY <3>2, FS_EmptySet
    <3>3. CASE Subscribed = {starts}
      BY <3>3, FS_Singleton
    <3>4. QED
      BY <3>1, <3>2, <3>3
  <2>3. Subscribed # {} => app \in {"spawn", "running"} \cup Stopping
    BY <1>1 DEF SessionInv, OneSubscription, Subscribed
  <2>4. QED
    BY <2>2, <2>3 DEF HandlerOnlyWhileStarted
<1>2. QED
  BY SessionInvariant, <1>1, PTL

-----------------------------------------------------------------------------
(* The heap *)

PerStart == {"zenoh", "pub_reply", "pub_request"}

(* A block that cnode_destroy may leave behind.                            *)
Leftover(b) ==
  \/ b \in {<<"tboard", 0>>, <<"device_id", 0>>}
  \/ b[1] \in PerStart /\ (b[2] < starts \/ cn["zenoh"] = NULL)

(* Which block a field can point to.                                       *)
FieldsNamed ==
  /\ \A f \in {"system_manager", "tboard", "core_state", "commandQueue"} :
       cn[f] \in {NULL, <<f, 0>>}
  /\ cn["device_id"] \in {NULL, <<"device_id", 0>>, <<"device_id", 1>>}
  /\ app \in Initing \ {"id", "serial", "commit", "queue"} => cn["device_id"] = NULL

(* The blocks of a call of cnode_start are the last of their kind.         *)
StartsInHeap ==
  /\ \A b \in heap : b[1] \in PerStart => b[2] <= starts
  /\ app = "open" => \A b \in heap : b[1] \in PerStart => b[2] < starts
  /\ app \in {"read", "lease", "alloc"} =>
       \A b \in heap : b[1] \in {"pub_reply", "pub_request"} => b[2] < starts

(* Every block is the cnode_t, in one of its fields, or will be left.      *)
HeapKnown ==
  \A b \in heap : \/ b = <<"cnode", 0>>
                  \/ b[1] \in Field /\ b = cn[b[1]]
                  \/ Leftover(b)

HeapWhenDown ==
  app = "down" => <<"cnode", 0>> \notin heap /\ \A b \in heap : Leftover(b)

HeapInv ==
  /\ LifeTypeOK /\ FieldsLive /\ FieldsNamed
  /\ StartsInHeap /\ HeapKnown /\ HeapWhenDown

(* After cnode_destroy's calls of free only what it forgets is left.       *)
LEMMA DestroyLeaves ==
  ASSUME HeapInv, DestroyCnode, UNCHANGED <<cn, starts>>
  PROVE  /\ <<"cnode", 0>> \notin heap'
         /\ heap' \subseteq heap
         /\ \A b \in heap' : Leftover(b)'
<1>1. heap' = heap \ Freed
  BY DEF DestroyCnode
<1>2. \A f \in Field \ {"tboard"} : cn[f] \in Freed
  BY DEF Freed, Field, Kind
<1>3. ASSUME NEW b \in heap'
      PROVE  Leftover(b)
  <2>1. b \in heap /\ b \notin Freed /\ b # <<"cnode", 0>>
    BY <1>1 DEF Freed
  <2>2. CASE b[1] \in Field /\ b = cn[b[1]]
    <3>1. b = cn["tboard"]
      BY <1>2, <2>1, <2>2
    <3>2. b \in Block
      BY <2>1 DEF HeapInv, LifeTypeOK
    <3>3. b = <<"tboard", 0>>
      BY <3>1, <3>2, NullAssumption DEF HeapInv, FieldsNamed
    <3>4. QED
      BY <3>3 DEF Leftover
  <2>3. QED
    BY <2>1, <2>2 DEF HeapInv, HeapKnown
<1>4. QED
  BY <1>1, <1>3 DEF Freed, Leftover

LEMMA CallKeepsHeap ==
  ASSUME HeapInv, LifeTypeOK', Call
  PROVE  HeapInv'
<1>1. CASE CallInit
  <2>1. /\ app = "down" /\ app' = "system" /\ cn' = NoCnode /\ UNCHANGED starts
        /\ heap' = heap \cup {<<"cnode", 0>>}
    BY <1>1 DEF CallInit, Goto
  <2>2. \A f \in Field : cn'[f] = NULL
    BY <2>1 DEF NoCnode
  <2>3. FieldsLive' /\ FieldsNamed'
    BY <2>1, <2>2 DEF FieldsLive, FieldsNamed, Field, Kind
  <2>4. \A b \in heap : Leftover(b)'
    BY <2>1, <2>2 DEF HeapInv, HeapWhenDown, Leftover, Field, Kind
  <2>5. StartsInHeap' /\ HeapKnown' /\ HeapWhenDown'
    BY <2>1, <2>4 DEF HeapInv, StartsInHeap, HeapKnown, HeapWhenDown, PerStart
  <2>6. QED
    BY <2>3, <2>5 DEF HeapInv
<1>2. CASE CallStart
  <2>1. app' = "open" /\ starts' = starts + 1 /\ UNCHANGED <<cn, heap>>
    BY <1>2 DEF CallStart
  <2>2. \A b \in heap : b[1] \in PerStart => b[2] \in Nat /\ b[2] < starts'
    BY <2>1, StartsAssumption DEF HeapInv, StartsInHeap, LifeTypeOK, Block
  <2>3. \A b \in heap : Leftover(b) => Leftover(b)'
    BY <2>1, <2>2 DEF Leftover
  <2>4. StartsInHeap'
    BY <2>1, <2>2 DEF StartsInHeap, PerStart, HeapInv, LifeTypeOK
  <2>5. HeapKnown'
    BY <2>1, <2>3 DEF HeapInv, HeapKnown
  <2>6. FieldsLive' /\ FieldsNamed' /\ HeapWhenDown'
    BY <2>1 DEF HeapInv, FieldsLive, FieldsNamed, HeapWhenDown, Initing
  <2>7. QED
    BY <2>4, <2>5, <2>6 DEF HeapInv
<1>3. CASE CallStop
  BY <1>3 DEF CallStop, nodevars, HeapInv, FieldsLive, FieldsNamed, StartsInHeap,
              HeapKnown, HeapWhenDown, Leftover, Initing
<1>4. CASE CallDestroy
  <2>1. app' = "down" /\ DestroyCnode /\ UNCHANGED <<cn, starts>>
    BY <1>4 DEF CallDestroy
  <2>2. <<"cnode", 0>> \notin heap' /\ heap' \subseteq heap /\ \A b \in heap' : Leftover(b)'
    BY <2>1, DestroyLeaves
  <2>3. QED
    BY <2>1, <2>2 DEF HeapInv, FieldsLive, FieldsNamed, StartsInHeap, HeapKnown,
                      HeapWhenDown, Initing
<1>5. QED
  BY <1>1, <1>2, <1>3, <1>4 DEF Call

(* Initialisation allocates what is not allocated per start.               *)
LEMMA AllocKeepsHeap ==
  ASSUME HeapInv, LifeTypeOK', UNCHANGED starts, app' # "down",
         app' \notin {"open", "read", "lease", "alloc"},
         NEW f \in Field \ PerStart, NEW n \in {0, 1}, Alloc(f, n),
         f # "device_id" => n = 0,
         app' \in Initing \ {"id", "serial", "commit", "queue"}
           => f # "device_id" /\ cn["device_id"] = NULL,
         n = 0 /\ f = "device_id" => cn["device_id"] = NULL
  PROVE  HeapInv'
<1>1. /\ heap' = heap \cup {<<f, n>>}
      /\ cn'[f] = <<f, n>> /\ \A g \in Field : g # f => cn'[g] = cn[g]
      /\ "zenoh" \in Field /\ cn'["zenoh"] = cn["zenoh"]
  BY DEF Alloc, HeapInv, LifeTypeOK, PerStart, Field, Kind
<1>2. FieldsLive'
  BY <1>1 DEF HeapInv, FieldsLive, Field
<1>3. FieldsNamed'
  BY <1>1 DEF HeapInv, FieldsNamed, Field, Kind
<1>4. StartsInHeap' /\ HeapWhenDown'
  BY <1>1 DEF HeapInv, StartsInHeap, HeapWhenDown, PerStart
<1>5. ASSUME NEW b \in heap, b[1] = f, b = cn[f]
      PROVE  b = <<f, n>> \/ b = <<"device_id", 0>>
  <2>1. b \in Block /\ b # NULL
    BY <1>5, NullAssumption DEF HeapInv, LifeTypeOK
  <2>2. CASE f # "device_id"
    BY <1>5, <2>1, <2>2 DEF HeapInv, FieldsNamed, Field, Kind, PerStart
  <2>3. CASE f = "device_id" /\ n = 0
    BY <1>5, <2>1, <2>3
  <2>4. CASE f = "device_id" /\ n = 1
    BY <1>5, <2>1, <2>4 DEF HeapInv, FieldsNamed
  <2>5. QED
    BY <2>2, <2>3, <2>4
<1>6. HeapKnown'
  BY <1>1, <1>5 DEF HeapInv, HeapKnown, Leftover
<1>7. QED
  BY <1>2, <1>3, <1>4, <1>6 DEF HeapInv

LEMMA InitKeepsHeap ==
  ASSUME HeapInv, LifeTypeOK', cnode_init
  PROVE  HeapInv'
<1>1. UNCHANGED starts /\ app \in Initing
  BY DEF cnode_init, InitSystem, InitWifi, InitBoard, InitCore, InitId, InitIdentity,
         InitQueue, Goto, At, Initing, nodevars
<1>2. CASE InitSystem
  BY <1>1, <1>2, AllocKeepsHeap
     DEF InitSystem, Goto, Field, Kind, PerStart, Initing, HeapInv, FieldsNamed
<1>3. CASE InitWifi \/ InitIdentity
  BY <1>3 DEF InitWifi, InitIdentity, Goto, nodevars, HeapInv, FieldsLive, FieldsNamed,
              StartsInHeap, HeapKnown, HeapWhenDown, Leftover, Initing
<1>4. CASE InitBoard
  <2>1. app = "board" /\ app' = "core"
    BY <1>4 DEF InitBoard, Goto
  <2>2. CASE Alloc("tboard", 0)
    BY <1>1, <2>1, <2>2, AllocKeepsHeap
       DEF Field, Kind, PerStart, Initing, HeapInv, FieldsNamed
  <2>3. CASE DestroyCnode /\ UNCHANGED cn
    <3>1. <<"cnode", 0>> \notin heap' /\ heap' \subseteq heap /\ \A b \in heap' : Leftover(b)'
      BY <1>1, <2>3, DestroyLeaves
    <3>2. QED
      BY <1>1, <2>1, <2>3, <3>1 DEF HeapInv, FieldsLive, FieldsNamed, StartsInHeap,
         HeapKnown, HeapWhenDown, Initing
  <2>4. QED
    BY <1>4, <2>2, <2>3 DEF InitBoard
<1>5. CASE InitCore
  <2>1. /\ app = "core" /\ app' \in {"id", "queue"}
        /\ cn' = [cn EXCEPT !["core_state"] = <<"core_state", 0>>,
                            !["device_id"] = <<"device_id", 0>>]
        /\ heap' = heap \cup {<<"core_state", 0>>, <<"device_id", 0>>}
    BY <1>5 DEF InitCore, At
  <2>2. /\ cn'["core_state"] = <<"core_state", 0>>
        /\ cn'["device_id"] = <<"device_id", 0>>
        /\ \A f \in Field \ {"core_state", "device_id"} : cn'[f] = cn[f]
    BY <2>1 DEF HeapInv, LifeTypeOK, Field, Kind
  <2>3. FieldsLive'
    <3>1. ASSUME <<"cnode", 0>> \in heap', NEW f \in Field
          PROVE  cn'[f] \in heap' \cup {NULL}
      <4>1. <<"cnode", 0>> \in heap
        BY <2>1, <3>1
      <4>2. heap \subseteq heap' /\ cn'["core_state"] \in heap' /\ cn'["device_id"] \in heap'
        <5>1. heap' = heap \cup {<<"core_state", 0>>, <<"device_id", 0>>}
          BY <2>1
        <5>2. cn'["core_state"] = <<"core_state", 0>> /\ cn'["device_id"] = <<"device_id", 0>>
          BY <2>2
        <5>3. QED
          BY <5>1, <5>2
      <4>3. cn[f] \in heap \cup {NULL}
        BY <3>1, <4>1 DEF HeapInv, FieldsLive
      <4>4. f \notin {"core_state", "device_id"} => cn'[f] = cn[f]
        BY <2>2, <3>1
      <4>5. QED
        BY <4>2, <4>3, <4>4
    <3>2. QED
      BY <3>1 DEF FieldsLive
  <2>4. FieldsNamed'
    BY <2>1, <2>2 DEF HeapInv, FieldsNamed, Field, Kind, Initing
  <2>5. StartsInHeap' /\ HeapWhenDown'
    BY <1>1, <2>1 DEF HeapInv, StartsInHeap, HeapWhenDown, PerStart
  <2>6. ASSUME NEW b \in heap, b[1] \in {"core_state", "device_id"}, b = cn[b[1]]
        PROVE  b = <<"core_state", 0>> \/ b = <<"device_id", 0>>
    BY <2>1, <2>6, NullAssumption DEF HeapInv, LifeTypeOK, FieldsNamed, Initing
  <2>7. \A b \in heap : Leftover(b) => Leftover(b)'
    BY <1>1, <2>2 DEF Leftover, Field, Kind
  <2>8. HeapKnown'
    <3>1. <<"core_state", 0>>[1] \in Field /\ <<"device_id", 0>>[1] \in Field
          /\ <<"core_state", 0>> = cn'[<<"core_state", 0>>[1]]
          /\ <<"device_id", 0>> = cn'[<<"device_id", 0>>[1]]
      BY <2>2 DEF Field, Kind
    <3>2. ASSUME NEW b \in heap, b # <<"core_state", 0>>, b # <<"device_id", 0>>
          PROVE  b = <<"cnode", 0>> \/ (b[1] \in Field /\ b = cn'[b[1]]) \/ Leftover(b)'
      BY <2>2, <2>6, <2>7, <3>2 DEF HeapInv, HeapKnown
    <3>3. QED
      BY <2>1, <3>1, <3>2 DEF HeapKnown
  <2>9. QED
    BY <2>3, <2>4, <2>5, <2>8 DEF HeapInv
<1>6. CASE InitId
  <2>1. app = "id" /\ app' = "serial"
    BY <1>6 DEF InitId, Goto
  <2>2. CASE UNCHANGED <<cn, heap>>
    BY <1>1, <2>1, <2>2 DEF HeapInv, FieldsLive, FieldsNamed, StartsInHeap, HeapKnown,
                            HeapWhenDown, Leftover, Initing
  <2>3. CASE Alloc("device_id", 1)
    BY <1>1, <2>1, <2>3, AllocKeepsHeap DEF Field, Kind, PerStart, Initing
  <2>4. QED
    BY <1>6, <2>2, <2>3 DEF InitId
<1>7. CASE InitQueue
  <2>1. CASE app' = "ready" /\ Alloc("commandQueue", 0)
    BY <1>1, <2>1, AllocKeepsHeap DEF Field, Kind, PerStart, Initing
  <2>2. CASE app' = "down" /\ DestroyCnode /\ UNCHANGED cn
    <3>1. <<"cnode", 0>> \notin heap' /\ heap' \subseteq heap /\ \A b \in heap' : Leftover(b)'
      BY <1>1, <2>2, DestroyLeaves
    <3>2. QED
      BY <1>1, <2>2, <3>1 DEF HeapInv, FieldsLive, FieldsNamed, StartsInHeap,
         HeapKnown, HeapWhenDown, Initing
  <2>3. QED
    BY <1>7, <2>1, <2>2 DEF InitQueue, Goto
<1>8. QED
  BY <1>2, <1>3, <1>4, <1>5, <1>6, <1>7 DEF cnode_init

(* What a step of the tasks, the declarations or cnode_stop leaves alone.  *)
LEMMA NodeKeptKeepsHeap ==
  ASSUME HeapInv, LifeTypeOK', UNCHANGED <<cn, heap, starts>>,
         app' \notin Initing \cup {"down", "open", "read"},
         app' \in {"lease", "alloc"} => app \in {"read", "lease"}
  PROVE  HeapInv'
  BY DEF HeapInv, FieldsLive, FieldsNamed, StartsInHeap, HeapKnown, HeapWhenDown,
         Leftover

LEMMA StartKeepsHeap ==
  ASSUME HeapInv, LifeTypeOK', cnode_start
  PROVE  HeapInv'
<1>1. CASE StartSession
  <2>1. PICK ok \in BOOLEAN :
          /\ app = "open" /\ app' = IF ok THEN "read" ELSE "failed"
          /\ heap' = heap \cup {<<"zenoh", starts>>} /\ UNCHANGED starts
          /\ cn' = [cn EXCEPT !["zenoh"] = IF ok THEN <<"zenoh", starts>> ELSE NULL]
    BY <1>1 DEF StartSession, At
  <2>2. /\ cn'["zenoh"] = IF ok THEN <<"zenoh", starts>> ELSE NULL
        /\ \A f \in Field \ {"zenoh"} : cn'[f] = cn[f]
    BY <2>1 DEF HeapInv, LifeTypeOK, Field, Kind
  <2>3. FieldsLive' /\ FieldsNamed'
    BY <2>1, <2>2 DEF HeapInv, FieldsLive, FieldsNamed, Field, Kind, Initing
  <2>4. StartsInHeap' /\ HeapWhenDown'
    BY <2>1 DEF HeapInv, StartsInHeap, HeapWhenDown, PerStart, LifeTypeOK
  <2>5. \A b \in heap : Leftover(b) \/ b[1] = "zenoh" => Leftover(b)'
    BY <2>1 DEF HeapInv, StartsInHeap, Leftover, PerStart
  <2>6. HeapKnown'
    BY <2>1, <2>2, <2>5 DEF HeapInv, HeapKnown, Leftover, PerStart, Field, Kind
  <2>7. QED
    BY <2>3, <2>4, <2>6 DEF HeapInv
<1>2. CASE AllocPublishers
  <2>1. /\ app = "alloc" /\ app' = "declare_reply" /\ UNCHANGED starts
        /\ cn' = [cn EXCEPT !["pub_reply"] = <<"pub_reply", starts>>,
                            !["pub_request"] = <<"pub_request", starts>>]
        /\ heap' = heap \cup {<<"pub_reply", starts>>, <<"pub_request", starts>>}
    BY <1>2 DEF AllocPublishers, Goto
  <2>2. /\ cn'["pub_reply"] = <<"pub_reply", starts>>
        /\ cn'["pub_request"] = <<"pub_request", starts>>
        /\ \A f \in Field \ {"pub_reply", "pub_request"} : cn'[f] = cn[f]
    BY <2>1 DEF HeapInv, LifeTypeOK, Field, Kind
  <2>3. FieldsLive' /\ FieldsNamed'
    <3>1. ASSUME <<"cnode", 0>> \in heap', NEW f \in Field
          PROVE  cn'[f] \in heap' \cup {NULL}
      <4>1. <<"cnode", 0>> \in heap
        BY <2>1, <3>1
      <4>2. heap \subseteq heap' /\ cn'["pub_reply"] \in heap' /\ cn'["pub_request"] \in heap'
        <5>1. heap' = heap \cup {<<"pub_reply", starts>>, <<"pub_request", starts>>}
          BY <2>1
        <5>2. cn'["pub_reply"] = <<"pub_reply", starts>> /\ cn'["pub_request"] = <<"pub_request", starts>>
          BY <2>2
        <5>3. QED
          BY <5>1, <5>2
      <4>3. cn[f] \in heap \cup {NULL}
        BY <3>1, <4>1 DEF HeapInv, FieldsLive
      <4>4. f \notin {"pub_reply", "pub_request"} => cn'[f] = cn[f]
        BY <2>2, <3>1
      <4>5. QED
        BY <4>2, <4>3, <4>4
    <3>2. FieldsNamed'
      BY <2>1, <2>2 DEF HeapInv, FieldsNamed, Field, Kind, Initing
    <3>3. QED
      BY <3>1, <3>2 DEF FieldsLive
  <2>4. StartsInHeap' /\ HeapWhenDown'
    BY <2>1 DEF HeapInv, StartsInHeap, HeapWhenDown, PerStart, LifeTypeOK
  <2>5. \A b \in heap :
          Leftover(b) \/ b[1] \in {"pub_reply", "pub_request"} => Leftover(b)'
    BY <2>1, <2>2 DEF HeapInv, StartsInHeap, Leftover, PerStart, Field, Kind
  <2>6. HeapKnown'
    <3>1. /\ <<"pub_reply", starts>>[1] \in Field
          /\ <<"pub_request", starts>>[1] \in Field
          /\ <<"pub_reply", starts>> = cn'[<<"pub_reply", starts>>[1]]
          /\ <<"pub_request", starts>> = cn'[<<"pub_request", starts>>[1]]
      BY <2>2 DEF Field, Kind
    <3>2. ASSUME NEW b \in heap
          PROVE  b = <<"cnode", 0>> \/ (b[1] \in Field /\ b = cn'[b[1]]) \/ Leftover(b)'
      BY <2>2, <2>5 DEF HeapInv, HeapKnown
    <3>3. QED
      BY <2>1, <3>1, <3>2 DEF HeapKnown
  <2>7. QED
    BY <2>3, <2>4, <2>6 DEF HeapInv
<1>3. CASE StartTasks
  BY <1>3, NodeKeptKeepsHeap DEF StartTasks, Goto, nodevars, Initing
<1>4. CASE StartDeclare
  BY <1>4, NodeKeptKeepsHeap DEF StartDeclare, Declare, nodevars, Initing
<1>5. CASE StartProcessing
  BY <1>5, NodeKeptKeepsHeap DEF StartProcessing, Goto, Initing
<1>6. QED
  BY <1>1, <1>2, <1>3, <1>4, <1>5 DEF cnode_start

LEMMA HeapInductive ==
  ASSUME HeapInv, [NodeNext]_nvars
  PROVE  HeapInv'
<1>1. LifeTypeOK'
  BY LifeTypeInductive DEF HeapInv
<1>2. CASE cnode_stop
  BY <1>1, <1>2, NodeKeptKeepsHeap
     DEF cnode_stop, StopTasks, StopUndeclare, StopSession, StopStep, Goto, nodevars, Initing
<1>3. CASE Wifi \/ Lost \/ UNCHANGED nvars
  BY <1>1, <1>3 DEF Wifi, Lost, nvars, nodevars, HeapInv, FieldsLive, FieldsNamed,
     StartsInHeap, HeapKnown, HeapWhenDown, Leftover
<1>4. CASE Reset
  BY <1>1, <1>4 DEF Reset, NoCnode, HeapInv, FieldsLive, FieldsNamed, StartsInHeap,
     HeapKnown, HeapWhenDown, Field, Kind, Initing
<1>5. QED
  BY <1>1, <1>2, <1>3, <1>4, CallKeepsHeap, InitKeepsHeap, StartKeepsHeap
     DEF NodeNext, Step, Panic, PowerLoss

LEMMA HeapInitial == NodeInit => HeapInv
  BY LifeTypeInitial DEF NodeInit, NoCnode, HeapInv, FieldsLive, FieldsNamed,
     StartsInHeap, HeapKnown, HeapWhenDown, Field, Kind, Initing

(* The heap's invariant holds in every reachable state.                    *)
THEOREM HeapInvariant == NodeSpec => []HeapInv
<1>1. HeapInv /\ [NodeNext]_nvars => HeapInv'
  BY HeapInductive
<1>2. QED
  BY HeapInitial, <1>1, PTL DEF NodeSpec

(* No field of a cnode_t dangles, whatever failed before.                  *)
THEOREM NoFieldDangles == NodeSpec => []FieldsLive
<1>1. HeapInv => FieldsLive
  BY DEF HeapInv
<1>2. QED
  BY HeapInvariant, <1>1, PTL

(* What cnode_destroy leaves is no more than the board, an empty id        *)
(* string, and what failed and repeated starts have lost: nothing else     *)
(* leaks, for any number of starts.                                        *)
THEOREM DestroyLeavesOnly == NodeSpec => []LeftAfterDestroy
<1>1. HeapInv => LeftAfterDestroy
  BY DEF HeapInv, HeapWhenDown, LeftAfterDestroy, Leftover, PerStart
<1>2. QED
  BY HeapInvariant, <1>1, PTL
=============================================================================
