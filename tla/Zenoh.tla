------------------------------- MODULE Zenoh -------------------------------
(***************************************************************************)
(* The wrapper of zenoh-pico (src/src/zenoh.c): for the n-th zenoh_t that  *)
(* cnode_start creates, what is open, running and declared.  The library's *)
(* own calls are external; every one of them may fail.                     *)
(***************************************************************************)
EXTENDS Naturals

CONSTANT MaxStarts   \* bound: calls of cnode_start in a power cycle

ASSUME StartsAssumption == MaxStarts \in Nat

VARIABLE session

Start     == 1..MaxStarts
Publisher == {"reply", "request"}
Part      == {"open", "read", "lease", "sub"} \cup Publisher
NoSession == [x \in Part |-> FALSE]

ZInit == session = [n \in Start |-> NoSession]

Set(n, x, b) == session' = [session EXCEPT ![n][x] = b]

(* A call that may fail, and then has no effect.                           *)
Try(n, x, ok) == IF ok THEN Set(n, x, TRUE) ELSE UNCHANGED session

(* z_open; when it fails the zenoh_t is not freed and NULL is returned.    *)
zenoh_init(n, ok) == Try(n, "open", ok)

(* The results of zp_start_read_task and zp_start_lease_task are ignored.  *)
zenoh_start_read_task(n)  == \E ok \in BOOLEAN : Try(n, "read", ok)
zenoh_start_lease_task(n) == \E ok \in BOOLEAN : Try(n, "lease", ok)

zenoh_declare_pub(n, p, ok) == Try(n, p, ok)
zenoh_declare_sub(n, ok)    == Try(n, "sub", ok)

(* z_drop of the subscriber, then of the session.                          *)
zenoh_destroy(n) ==
  session' = [session EXCEPT ![n]["sub"] = FALSE, ![n]["open"] = FALSE]

(* zp_stop_read_task, zp_stop_lease_task.                                  *)
StopTask(n, x, ok) ==
  IF ok THEN Set(n, x, FALSE) ELSE UNCHANGED session

(* z_undeclare_subscriber, z_undeclare_publisher: what is moved into a     *)
(* call that fails may be gone nevertheless.                               *)
Undeclare(n, x, ok) ==
  \/ Set(n, x, FALSE)
  \/ ~ok /\ UNCHANGED session

z_session_drop(n) == Set(n, "open", FALSE)

ZTypeOK == session \in [Start -> [Part -> BOOLEAN]]

(* The subscriptions whose messages the read task brings to the handler.   *)
Subscribed == {n \in Start : session[n]["sub"]}

(* A publisher or a subscriber is undeclared before the session it belongs *)
(* to is dropped: both hold on to the session.                             *)
UndeclaredBeforeDrop ==
  \A n \in Start : ~session[n]["open"] =>
     \A x \in Publisher \cup {"sub"} : ~session[n][x]
=============================================================================
