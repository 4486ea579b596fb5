---------------------------- MODULE CommandCodec ----------------------------
(***************************************************************************)
(* What a command becomes on the wire and what the wire becomes in a       *)
(* command_t (command_new_using_arg and command_from_data of               *)
(* src/src/command.c).  A text is its length, a number keeps its width;    *)
(* the widths and the sizes of the buffers are parameters.                 *)
(*                                                                         *)
(* tinycbor is external, modelled by its contract: integers travel as a    *)
(* sign and 64 bits, cbor_encode_negative_int takes the absolute value,    *)
(* cbor_value_get_int converts to int without a range check, and           *)
(* cbor_value_copy_text_string copies nothing when the buffer is shorter   *)
(* than the text and writes no NUL when it is exactly as long.             *)
(***************************************************************************)
EXTENDS Integers, Sequences, FiniteSets

CONSTANTS
  HALF,      \* 2^31
  UINT32,    \* 2^32
  UINT64,    \* 2^64
  SMALL_CMD_STR_LEN,
  LARGE_CMD_STR_LEN,
  Garbage    \* what an unterminated text, or an unset buffer, is read as

ASSUME WidthAssumption ==
  /\ HALF \in Nat \ {0}
  /\ UINT32 = 2 * HALF
  /\ UINT64 = UINT32 * UINT32

ASSUME SizeAssumption ==
  /\ SMALL_CMD_STR_LEN \in Nat \ {0}
  /\ LARGE_CMD_STR_LEN \in Nat \ {0}
  /\ Garbage \notin Nat

int      == (-HALF)..(HALF - 1)
uint64_t == 0..(UINT64 - 1)

(* The conversions that C makes between them.                              *)
ToInt(n) == LET low == n % UINT32 IN IF low < HALF THEN low ELSE low - UINT32
ToUint64(n) == n % UINT64

-----------------------------------------------------------------------------
(* Integers *)

WireInt == [neg : BOOLEAN, n : uint64_t]

cbor_encode_uint(v) == [neg |-> FALSE, n |-> v]
cbor_encode_int(v)  == IF v < 0 THEN [neg |-> TRUE, n |-> -v - 1]
                       ELSE [neg |-> FALSE, n |-> v]
cbor_encode_negative_int(size) == [neg |-> TRUE, n |-> ToUint64(size - 1)]

(* abs of the smallest int overflows to itself.                            *)
abs(v) == IF v = -HALF THEN v ELSE IF v < 0 THEN -v ELSE v

(* Mutant: the sign is forgotten.                                          *)
EncodeMagnitude(v) == cbor_encode_uint(ToUint64(abs(v)))

EncodeInt(v) ==
  IF v < 0 THEN cbor_encode_negative_int(ToUint64(abs(v))) ELSE cbor_encode_int(v)

cbor_value_get_int(w) == IF w.neg THEN -ToInt(w.n) - 1 ELSE ToInt(w.n)

(* A task id goes out as an unsigned integer.  It comes in as a double,    *)
(* which is exact, or through an int.                                      *)
TaskIdOnWire == [form : {"double", "integer"}, n : uint64_t]

EncodeTaskId(t) == [form |-> "integer", n |-> t]

(* Mutant: a negative int is stored as it is.                              *)
DecodeTaskIdSigned(w) ==
  IF w.form = "double" THEN w.n ELSE cbor_value_get_int(cbor_encode_uint(w.n))

DecodeTaskId(w) ==
  IF w.form = "double" THEN w.n
  ELSE ToUint64(cbor_value_get_int(cbor_encode_uint(w.n)))

-----------------------------------------------------------------------------
(* Texts *)

Text == Nat \cup {Garbage}

(* COPY_STRING into a field of size n that calloc has cleared.             *)
COPY_STRING(text, n) == IF text < n THEN text ELSE n - 1

(* cbor_value_copy_text_string into a buffer of size n that holds old.     *)
CopyText(text, n, old) ==
  CASE text \in 0..(n - 1)     -> text
    [] text \in {n, Garbage}   -> Garbage
    [] OTHER                   -> old

-----------------------------------------------------------------------------
(* Arguments: an item has a type of argtype_t and a value.  Byte strings   *)
(* are left out: nvoid_new copies to a NULL pointer, which resets the chip.*)
(* A double is a number that travels as it is.  NULL_TYPE is the type of   *)
(* cleared memory, so of an argument with an unknown letter in its         *)
(* signature; it has no value, nor has VOID_TYPE, whose pointer is neither *)
(* cloned nor sent.  int and long have 32 bits and one field of the union. *)
Number == Nat \cup {Garbage}
Zeroed == [type |-> "NULL_TYPE", val |-> 0]

Arg ==
  [type : {"INT_TYPE", "LONG_TYPE"}, val : int]
    \cup [type : {"STRING_TYPE"}, val : Text]
    \cup [type : {"DOUBLE_TYPE"}, val : Number]
    \cup [type : {"NULL_TYPE", "VOID_TYPE"}, val : {0}]

(* Elements of an array by their type in CBOR.  CborNullType stands for    *)
(* every type that the decoder has no case for.                            *)
WireArg ==
  [type : {"CborIntegerType"}, val : WireInt]
    \cup [type : {"CborTextStringType"}, val : Text]
    \cup [type : {"CborDoubleType", "CborFloatType"}, val : Number]
    \cup [type : {"CborNullType"}, val : {0}]

EncodeArg(a) ==
  CASE a.type \in {"INT_TYPE", "LONG_TYPE"} ->
         [type |-> "CborIntegerType", val |-> EncodeInt(a.val)]
    [] a.type = "STRING_TYPE" -> [type |-> "CborTextStringType", val |-> a.val]
    [] a.type = "DOUBLE_TYPE" -> [type |-> "CborDoubleType", val |-> a.val]
    [] OTHER                  -> [type |-> "CborNullType", val |-> 0]

(* A text that is too long leaves strbuf as it was.  The case of a float   *)
(* runs into the one of a double, which reads eight bytes where four are.  *)
DecodeArg(w) ==
  CASE w.type = "CborIntegerType" ->
         [type |-> "INT_TYPE", val |-> cbor_value_get_int(w.val)]
    [] w.type = "CborTextStringType" ->
         [type |-> "STRING_TYPE",
          val  |-> CopyText(w.val, LARGE_CMD_STR_LEN, Garbage)]
    [] w.type = "CborDoubleType" -> [type |-> "DOUBLE_TYPE", val |-> w.val]
    [] w.type = "CborFloatType"  -> [type |-> "DOUBLE_TYPE", val |-> Garbage]
    [] OTHER                     -> Zeroed

(* An argument of VOID_TYPE is counted in the array's length, but nothing  *)
(* is written for it.  The written ones keep their order: this is the      *)
(* place that argument i gets among them.                                  *)
Written(args)  == {i \in DOMAIN args : args[i].type # "VOID_TYPE"}
Place(args, i) == Cardinality({j \in Written(args) : j <= i})

EncodeArgs(args) ==
  [k \in 1..Cardinality(Written(args)) |->
     EncodeArg(args[CHOOSE i \in Written(args) : Place(args, i) = k])]

(* The seven fields of the map; subcmd is handled like cmd, node_id and    *)
(* fn_argsig like fn_name.  nelems is the length that the array announces. *)
Fields == [cmd : int, task_id : uint64_t, fn_name : Nat, args : Seq(Arg)]
Wire   == [cmd : WireInt, task_id : TaskIdOnWire, fn_name : Nat, nelems : Nat,
           args : Seq(WireArg)]

(* All the elements that were announced are there.                         *)
Complete(wire) == wire.nelems = Len(wire.args)

Encode(fields) ==
  [cmd     |-> cbor_encode_int(fields.cmd),
   task_id |-> EncodeTaskId(fields.task_id),
   fn_name |-> fields.fn_name,
   nelems  |-> Len(fields.args),
   args    |-> EncodeArgs(fields.args)]

(* Decoding into a command whose fn_name was name.                         *)
DecodeOver(wire, name) ==
  [cmd     |-> cbor_value_get_int(wire.cmd),
   task_id |-> DecodeTaskId(wire.task_id),
   fn_name |-> CopyText(wire.fn_name, SMALL_CMD_STR_LEN, name),
   args    |-> [i \in DOMAIN wire.args |-> DecodeArg(wire.args[i])]]

Decode(wire) == DecodeOver(wire, 0)

-----------------------------------------------------------------------------
(* The narrowed id by which an instance is found (task_get_instance_index).*)
uint32(t) == t % UINT32

(* An argument that is no text too long for strbuf, and what it arrives    *)
(* as: a long becomes an int.                                              *)
ArgFits(a) == a.type = "STRING_TYPE" => a.val \in 0..(LARGE_CMD_STR_LEN - 1)
Arrives(a) == IF a.type = "LONG_TYPE" THEN [a EXCEPT !.type = "INT_TYPE"] ELSE a
=============================================================================
