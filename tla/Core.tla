-------------------------------- MODULE Core --------------------------------
(***************************************************************************)
(* A node's identity (src/src/core.c): the device id and the serial number *)
(* that core_setup reads from flash, or generates and writes to it.        *)
(*                                                                         *)
(* Between nvs_set_* and nvs_commit a value may or may not have reached    *)
(* the flash: core.c says that implementations may write at other times,   *)
(* "but this is not guaranteed".  nvs is what a handle reads back, flash   *)
(* what is certain to survive a loss of power.                             *)
(***************************************************************************)
EXTENDS Naturals

CONSTANTS
  DeviceId,   \* ids discountflake may come up with
  SerialNum,  \* serial numbers core_init may be called with
  NoId,       \* the empty string a corestate_t starts with
  Absent      \* a key that is not in flash

ASSUME CoreAssumption == NoId \notin DeviceId /\ Absent \notin DeviceId \cup SerialNum

VARIABLES
  flash,       \* the committed values of the keys device_id and serial_num
  nvs,         \* their values as nvs_get_* sees them
  core_state,  \* the corestate_t
  nvs_failed   \* ghost: an NVS call of this power cycle has failed

corevars == <<flash, nvs, core_state, nvs_failed>>

Stored     == [device_id : DeviceId \cup {Absent}, serial_num : SerialNum \cup {Absent}]
EmptyFlash == [device_id |-> Absent, serial_num |-> Absent]
CoreState  == [device_id : DeviceId \cup {NoId}, serial_num : SerialNum]

CoreInit ==
  /\ flash = EmptyFlash
  /\ nvs = EmptyFlash
  /\ core_state \in [device_id : {NoId}, serial_num : SerialNum]
  /\ nvs_failed = FALSE

(* Power is lost: of what was set and not committed anything may be kept.  *)
CoreReset ==
  /\ flash' \in [device_id : {flash.device_id, nvs.device_id},
                 serial_num : {flash.serial_num, nvs.serial_num}]
  /\ nvs' = flash'
  /\ core_state' = [core_state EXCEPT !.device_id = NoId]
  /\ nvs_failed' = FALSE

-----------------------------------------------------------------------------
(* discountflake's uint32_t: the seconds modulo 2^16 (a product that       *)
(* wraps), the microseconds modulo 2^10 and the counter modulo 2^6.        *)
discountflake(sec, usec, counter) ==
  (sec % 65536) * 65536 + (usec % 1024) * 64 + (counter % 64)

(* nvs_flash_init: the partition is erased if it has no free pages or is   *)
(* of a newer version.                                                     *)
FlashOrErased ==
  \/ UNCHANGED <<flash, nvs>>
  \/ flash' = EmptyFlash /\ nvs' = EmptyFlash

nvs_flash_init == FlashOrErased /\ UNCHANGED <<core_state, nvs_failed>>

(* core_init, and core_setup up to nvs_open.  n is core_init's parameter.  *)
OpenStorage(n, ok) ==
  /\ FlashOrErased
  /\ core_state' = [device_id |-> NoId, serial_num |-> n]
  /\ nvs_failed' = (nvs_failed \/ ~ok)

(* Mutant: a new id is generated on every boot.                            *)
IdAlwaysMissing == TRUE

IdMissing == nvs.device_id = Absent

ReadId ==
  /\ ~IdMissing
  /\ core_state' = [core_state EXCEPT !.device_id = nvs.device_id]
  /\ UNCHANGED <<flash, nvs, nvs_failed>>

(* ESP_ERR_NVS_NOT_FOUND: the id is used whether it could be set or not.   *)
GenerateId(d) ==
  /\ IdMissing
  /\ core_state' = [core_state EXCEPT !.device_id = d]
  /\ \/ nvs' = [nvs EXCEPT !.device_id = d] /\ UNCHANGED nvs_failed
     \/ nvs_failed' = TRUE /\ UNCHANGED nvs
  /\ UNCHANGED flash

(* Any other error leaves what the corestate_t had.                        *)
GetFails ==
  /\ nvs_failed' = TRUE
  /\ UNCHANGED <<flash, nvs, core_state>>

(* Mutant: the serial number is set only along with a new id.              *)
SetSerialWithId ==
  IF nvs.serial_num = Absent /\ core_state.device_id # flash.device_id
  THEN nvs' = [nvs EXCEPT !.serial_num = core_state.serial_num]
  ELSE UNCHANGED nvs

(* What was read is printed; the corestate_t keeps core_init's parameter.  *)
SetSerial ==
  IF nvs.serial_num = Absent
  THEN nvs' = [nvs EXCEPT !.serial_num = core_state.serial_num]
  ELSE UNCHANGED nvs

GetSerial ==
  \/ SetSerial /\ UNCHANGED <<flash, core_state, nvs_failed>>
  \/ GetFails

Commit ==
  \/ flash' = nvs /\ UNCHANGED <<nvs, core_state, nvs_failed>>
  \/ GetFails

-----------------------------------------------------------------------------
(* Properties *)

CoreTypeOK ==
  /\ flash \in Stored
  /\ nvs \in Stored
  /\ core_state \in CoreState
  /\ nvs_failed \in BOOLEAN

(* Over restarts, losses of power between two writes and failing calls:    *)
(* once an id is in flash, what a node calls itself is that id, or nothing *)
(* at all when it could not be read.                                       *)
NodeIdIsStored ==
  flash.device_id # Absent => core_state.device_id \in {NoId, flash.device_id}

(* The stored id is never replaced by another one: it is lost only when    *)
(* the whole partition is erased.                                          *)
IdentityWriteOnce ==
  [][flash.device_id # Absent
       => flash'.device_id = flash.device_id \/ flash' = EmptyFlash]_corevars
=============================================================================
