------------------------------- MODULE MCNode -------------------------------
(***************************************************************************)
(* An instance of Node for TLC: the ids that discountflake makes on two    *)
(* boots 70 microseconds apart; the counter is 1 on the first call of each.*)
(***************************************************************************)
EXTENDS Node

MCDeviceId == {discountflake(7, usec, 1) : usec \in {40, 110}}
=============================================================================
