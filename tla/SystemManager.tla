--------------------------- MODULE SystemManager ---------------------------
(***************************************************************************)
(* Bringing the Wi-Fi station up (src/src/system_manager.c): the event     *)
(* handler that the event loop task runs, and what system_manager_init and *)
(* system_manager_wifi_init do around it.                                  *)
(*                                                                         *)
(* The Wi-Fi driver is external.  It is modelled by what the code relies   *)
(* on: esp_wifi_start and every attempt to connect are answered by one     *)
(* event, a connection may be lost at any time, and events are dispatched  *)
(* in the order in which they were posted.                                 *)
(***************************************************************************)
EXTENDS Naturals, Sequences

CONSTANT ESP_MAXIMUM_RETRY

ASSUME RetryAssumption == ESP_MAXIMUM_RETRY \in Nat

VARIABLES
  system_initialized,   \* _system_initialized
  s_retry_count,
  s_is_wifi_connected,
  event_group,          \* s_event_group_handler is a group that exists
  connected_bit,        \* WIFI_CONNECTED_BIT of that group
  handlers,             \* the registered instances of event_handler
  station,              \* the driver's station
  events                \* posted by the driver, not dispatched yet

driver == <<station, events>>
smvars == <<system_initialized, s_retry_count, s_is_wifi_connected,
            event_group, connected_bit, handlers, station, events>>

Event       == {"STA_START", "STA_DISCONNECTED", "GOT_IP"}
EventBase   == {"WIFI", "IP"}
BaseOf(e)   == IF e = "GOT_IP" THEN "IP" ELSE "WIFI"

SMInit ==
  /\ system_initialized = FALSE
  /\ s_retry_count = 0
  /\ s_is_wifi_connected = FALSE
  /\ event_group = FALSE
  /\ connected_bit = FALSE
  /\ handlers = {}
  /\ station = "off"
  /\ events = <<>>

(* A reset of the chip clears the statics and stops the radio.             *)
SMReset ==
  /\ system_initialized' = FALSE
  /\ s_retry_count' = 0
  /\ s_is_wifi_connected' = FALSE
  /\ event_group' = FALSE
  /\ connected_bit' = FALSE
  /\ handlers' = {}
  /\ station' = "off"
  /\ events' = <<>>

-----------------------------------------------------------------------------
(* The driver *)

Post(e) == events' = Append(events, e)

(* esp_wifi_connect starts an attempt unless one is under way.             *)
esp_wifi_connect ==
  station' = IF station = "idle" THEN "connecting" ELSE station

AttemptEnds ==
  /\ station = "connecting"
  /\ \/ station' = "up"   /\ Post("GOT_IP")
     \/ station' = "idle" /\ Post("STA_DISCONNECTED")
  /\ UNCHANGED <<system_initialized, s_retry_count, s_is_wifi_connected,
                 event_group, connected_bit, handlers>>

ConnectionLost ==
  /\ station = "up"
  /\ station' = "idle"
  /\ Post("STA_DISCONNECTED")
  /\ UNCHANGED <<system_initialized, s_retry_count, s_is_wifi_connected,
                 event_group, connected_bit, handlers>>

-----------------------------------------------------------------------------
(* event_handler *)

OnStart == esp_wifi_connect /\ UNCHANGED <<s_retry_count, connected_bit>>

(* Mutant: one attempt too few.                                            *)
OnDisconnectedEarly ==
  /\ IF s_retry_count + 1 < ESP_MAXIMUM_RETRY
     THEN esp_wifi_connect /\ s_retry_count' = s_retry_count + 1
     ELSE UNCHANGED <<station, s_retry_count>>
  /\ UNCHANGED connected_bit

(* Mutant: one attempt too many.                                           *)
OnDisconnectedLate ==
  /\ IF s_retry_count <= ESP_MAXIMUM_RETRY
     THEN esp_wifi_connect /\ s_retry_count' = s_retry_count + 1
     ELSE UNCHANGED <<station, s_retry_count>>
  /\ UNCHANGED connected_bit

OnDisconnected ==
  /\ IF s_retry_count < ESP_MAXIMUM_RETRY
     THEN esp_wifi_connect /\ s_retry_count' = s_retry_count + 1
     ELSE UNCHANGED <<station, s_retry_count>>
  /\ UNCHANGED connected_bit

OnGotIp ==
  /\ connected_bit' = TRUE
  /\ s_retry_count' = 0
  /\ UNCHANGED station

(* The event loop task takes an event; without a handler it is dropped.    *)
Dispatch ==
  /\ events # <<>>
  /\ events' = Tail(events)
  /\ LET e == Head(events) IN
     \/ /\ BaseOf(e) \notin handlers
        /\ UNCHANGED <<station, s_retry_count, connected_bit>>
     \/ /\ BaseOf(e) \in handlers
        /\ \/ e = "STA_START" /\ OnStart
           \/ e = "STA_DISCONNECTED" /\ OnDisconnected
           \/ e = "GOT_IP" /\ OnGotIp
  /\ UNCHANGED <<system_initialized, s_is_wifi_connected, event_group, handlers>>

-----------------------------------------------------------------------------
(* system_manager_init; a second call in one power cycle is an assertion   *)
(* failure.                                                                *)
system_manager_init ==
  /\ ~system_initialized
  /\ system_initialized' = TRUE
  /\ UNCHANGED <<s_retry_count, s_is_wifi_connected, event_group,
                 connected_bit, handlers, driver>>

(* system_manager_wifi_init, up to esp_wifi_start.                         *)
WifiStart ==
  /\ event_group' = TRUE
  /\ connected_bit' = FALSE
  /\ handlers' = EventBase
  /\ station' = "idle"
  /\ Post("STA_START")
  /\ UNCHANGED <<system_initialized, s_retry_count, s_is_wifi_connected>>

(* xEventGroupWaitBits returns: there is no other way out of it.           *)
WifiConnected ==
  /\ connected_bit
  /\ s_is_wifi_connected' = TRUE
  /\ UNCHANGED <<system_initialized, s_retry_count, event_group,
                 connected_bit, handlers, driver>>

(* Mutant: both calls name the handler of the Wi-Fi events.                *)
UnregisterWifi(base) ==
  /\ handlers' = handlers \ {"WIFI"}
  /\ UNCHANGED <<system_initialized, s_retry_count, s_is_wifi_connected,
                 event_group, connected_bit, driver>>

Unregister(base) ==
  /\ handlers' = handlers \ {base}
  /\ UNCHANGED <<system_initialized, s_retry_count, s_is_wifi_connected,
                 event_group, connected_bit, driver>>

DeleteEventGroup ==
  /\ event_group' = FALSE
  /\ UNCHANGED <<system_initialized, s_retry_count, s_is_wifi_connected,
                 connected_bit, handlers, driver>>

-----------------------------------------------------------------------------
(* Properties *)

SMTypeOK ==
  /\ system_initialized \in BOOLEAN
  /\ s_retry_count \in 0..ESP_MAXIMUM_RETRY
  /\ s_is_wifi_connected \in BOOLEAN
  /\ event_group \in BOOLEAN
  /\ connected_bit \in BOOLEAN
  /\ handlers \subseteq EventBase
  /\ station \in {"off", "idle", "connecting", "up"}
  /\ events \in Seq(Event)

Exhausted == s_retry_count = ESP_MAXIMUM_RETRY

(* As long as initialisation can still be waiting for the connected bit,   *)
(* an attempt to connect is under way or an event is on its way that makes *)
(* event_handler act: the wait is hopeless only after ESP_MAXIMUM_RETRY    *)
(* attempts in a row have failed.                                          *)
WaitJustified ==
  (handlers = EventBase /\ station # "off" /\ ~connected_bit)
     => station = "connecting" \/ events # <<>> \/ Exhausted

(* event_handler sets a bit of the event group on GOT_IP, in the event     *)
(* loop's task: the group is there as long as it may be called for that.   *)
HandlersHaveGroup == "IP" \in handlers => event_group
=============================================================================
