----------------------------- MODULE MCCommand -----------------------------
(***************************************************************************)
(* An instance of Command for TLC: ints of two bits, task ids of four,     *)
(* texts shorter than, as long as, and longer than their buffers, and      *)
(* arguments of every type.                                                *)
(***************************************************************************)
EXTENDS Command

Num(v)      == [type |-> "INT_TYPE", val |-> v]
Long(v)     == [type |-> "LONG_TYPE", val |-> v]
Str(length) == [type |-> "STRING_TYPE", val |-> length]
Void        == [type |-> "VOID_TYPE", val |-> 0]

MCField ==
  {[cmd |-> 1, task_id |-> 6, fn_name |-> 1, args |-> <<Num(-2), Long(-1), Str(1)>>],
   [cmd |-> 1, task_id |-> 15, fn_name |-> 3, args |-> <<Void, Num(1)>>]}

(* What controllers send: no arguments; and an id as a double, with a text *)
(* too long, a float and an element of a type that is not decoded.         *)
MCMessage ==
  {Encode([cmd |-> 1, task_id |-> 15, fn_name |-> 3, args |-> <<>>]),
   [cmd |-> cbor_encode_int(1), task_id |-> [form |-> "double", n |-> 10],
    fn_name |-> 2, nelems |-> 4,
    args |-> <<EncodeArg(Str(2)), EncodeArg(Num(1)),
               [type |-> "CborFloatType", val |-> 1], EncodeArg(Zeroed)>>]}
=============================================================================
