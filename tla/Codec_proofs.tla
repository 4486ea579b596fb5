---------------------------- MODULE Codec_proofs ----------------------------
(***************************************************************************)
(* What the wire format preserves, for numbers of every width: the model   *)
(* checker sees ints of a few bits, these theorems the program's.          *)
(***************************************************************************)
EXTENDS CommandCodec, FiniteSetTheorems, TLAPS

(* Multiples of a width vanish in a conversion to it.                      *)
LEMMA ModOfShift ==
  ASSUME NEW m \in Nat \ {0}, NEW q \in Int, NEW r \in 0..(m - 1)
  PROVE  (q * m + r) % m = r
<1> DEFINE n == q * m + r
           d == n \div m
           s == n % m
<1>1. n \in Int /\ d \in Int /\ s \in 0..(m - 1) /\ n = d * m + s
  OBVIOUS
<1>2. (d - q) * m = r - s
  <2>1. (d - q) * m = d * m - q * m
    BY <1>1
  <2>2. QED
    BY <1>1, <2>1
<1>3. d - q = 0
  <2>1. CASE d - q >= 1
    <3>1. (d - q) * m >= m
      BY <1>1, <2>1
    <3>2. QED
      BY <1>1, <1>2, <3>1
  <2>2. CASE d - q <= -1
    <3>1. (d - q) * m <= -m
      BY <1>1, <2>2
    <3>2. QED
      BY <1>1, <1>2, <3>1
  <2>3. QED
    BY <1>1, <2>1, <2>2
<1>4. s = r
  BY <1>1, <1>2, <1>3
<1>5. QED
  BY <1>4

(* 2^64 is a multiple of 2^32.                                             *)
LEMMA Widths ==
  /\ HALF \in Nat \ {0} /\ UINT32 \in Nat \ {0} /\ UINT64 \in Nat \ {0}
  /\ UINT32 = 2 * HALF
  /\ UINT64 = UINT32 * UINT32
  /\ UINT32 <= UINT64
<1>1. HALF \in Nat \ {0} /\ UINT32 = 2 * HALF /\ UINT64 = UINT32 * UINT32
  BY WidthAssumption
<1>2. UINT32 \in Nat \ {0}
  BY <1>1
<1>3. UINT32 * UINT32 >= UINT32 * 1
  BY <1>2
<1>4. QED
  BY <1>1, <1>2, <1>3

(* Narrowing to 64 bits first changes nothing about the low 32.            *)
LEMMA NarrowTwice ==
  ASSUME NEW r \in 0..(UINT32 - 1)
  PROVE  /\ r % UINT32 = r
         /\ (UINT64 + r - UINT32) % UINT32 = r
         /\ UINT64 + r - UINT32 \in uint64_t
         /\ r \in uint64_t
         /\ (r - UINT32) % UINT64 = UINT64 + r - UINT32
<1> USE Widths
<1>1. r % UINT32 = r
  BY ModOfShift
<1>2. (UINT64 + r - UINT32) % UINT32 = r
  <2>1. UINT64 + r - UINT32 = (UINT32 - 1) * UINT32 + r
    OBVIOUS
  <2>2. ((UINT32 - 1) * UINT32 + r) % UINT32 = r
    <3>1. UINT32 - 1 \in Int
      OBVIOUS
    <3> HIDE Widths
    <3>2. UINT32 \in Nat \ {0}
      BY Widths
    <3>3. QED
      BY <3>1, <3>2, ModOfShift
  <2>3. QED
    BY <2>1, <2>2
<1>3. r \in uint64_t /\ UINT64 + r - UINT32 \in uint64_t
  BY DEF uint64_t
<1>4. (r - UINT32) % UINT64 = UINT64 + r - UINT32
  <2>1. UINT64 + r - UINT32 \in 0..(UINT64 - 1)
    BY <1>3 DEF uint64_t
  <2>2. r - UINT32 = (-1) * UINT64 + (UINT64 + r - UINT32)
    OBVIOUS
  <2>3. ((-1) * UINT64 + (UINT64 + r - UINT32)) % UINT64 = UINT64 + r - UINT32
    BY <2>1, ModOfShift
  <2>4. QED
    BY <2>2, <2>3
<1>5. QED
  BY <1>1, <1>2, <1>3, <1>4

(* What is left of a task id when it has been through an int: its low 32   *)
(* bits, with the higher ones all set if bit 31 was.                       *)
LEMMA DecodedId ==
  ASSUME NEW t \in uint64_t
  PROVE  LET low == t % UINT32 IN
         /\ low \in 0..(UINT32 - 1)
         /\ DecodeTaskId(EncodeTaskId(t))
              = IF low < HALF THEN low ELSE UINT64 + low - UINT32
<1> DEFINE low == t % UINT32
<1>1. t \in Nat /\ low \in 0..(UINT32 - 1)
  BY Widths DEF uint64_t
<1>2. DecodeTaskId(EncodeTaskId(t)) = ToUint64(ToInt(t))
  BY DEF DecodeTaskId, EncodeTaskId, cbor_value_get_int, cbor_encode_uint
<1>3. CASE low < HALF
  <2>1. ToInt(t) = low /\ low \in 0..(UINT64 - 1)
    BY <1>1, <1>3, Widths DEF ToInt
  <2>2. (0 * UINT64 + low) % UINT64 = low
    BY <2>1, ModOfShift, Widths
  <2>3. QED
    BY <1>1, <1>2, <1>3, <2>1, <2>2, Widths DEF ToUint64
<1>4. CASE ~(low < HALF)
  <2>1. ToInt(t) = low - UINT32
    BY <1>4 DEF ToInt
  <2>2. QED
    BY <1>1, <1>2, <1>4, <2>1, NarrowTwice DEF ToUint64
<1>5. QED
  BY <1>1, <1>3, <1>4

(* The id of a task changes on its way from 2^31 on, but every node looks  *)
(* for the instance of the same number: uint32 of what was received is     *)
(* uint32 of what was sent.                                                *)
THEOREM SameInstance ==
  \A t \in uint64_t : uint32(DecodeTaskId(EncodeTaskId(t))) = uint32(t)
<1> SUFFICES ASSUME NEW t \in uint64_t
             PROVE  uint32(DecodeTaskId(EncodeTaskId(t))) = uint32(t)
  OBVIOUS
<1> DEFINE low == t % UINT32
<1>1. low \in 0..(UINT32 - 1)
      /\ DecodeTaskId(EncodeTaskId(t))
           = IF low < HALF THEN low ELSE UINT64 + low - UINT32
  BY DecodedId
<1>2. low % UINT32 = low /\ (UINT64 + low - UINT32) % UINT32 = low
  BY <1>1, NarrowTwice
<1>3. QED
  BY <1>1, <1>2 DEF uint32

(* A reply carries the id that the request arrived with, and it arrives    *)
(* unchanged: an id is altered by the first hop only.                      *)
THEOREM SecondHopExact ==
  \A t \in uint64_t : LET d == DecodeTaskId(EncodeTaskId(t)) IN
     d \in uint64_t /\ DecodeTaskId(EncodeTaskId(d)) = d
<1> SUFFICES ASSUME NEW t \in uint64_t
             PROVE  LET d == DecodeTaskId(EncodeTaskId(t)) IN
                    d \in uint64_t /\ DecodeTaskId(EncodeTaskId(d)) = d
  OBVIOUS
<1> DEFINE low == t % UINT32
           d == DecodeTaskId(EncodeTaskId(t))
<1>1. low \in 0..(UINT32 - 1)
      /\ d = IF low < HALF THEN low ELSE UINT64 + low - UINT32
  BY DecodedId
<1>2. d \in uint64_t
  BY <1>1, NarrowTwice
<1>3. d % UINT32 = low
  BY <1>1, SameInstance DEF uint32
<1>4. DecodeTaskId(EncodeTaskId(d))
        = IF low < HALF THEN low ELSE UINT64 + low - UINT32
  <2> HIDE DEF d, low
  <2>1. DecodeTaskId(EncodeTaskId(d))
          = IF d % UINT32 < HALF THEN d % UINT32 ELSE UINT64 + (d % UINT32) - UINT32
    BY <1>2, DecodedId
  <2>2. QED
    BY <1>3, <2>1
<1>5. QED
  BY <1>1, <1>2, <1>4

(* Every int argument arrives as the int it was, the smallest one included,*)
(* whose absolute value is no int.                                         *)
THEOREM IntArgumentExact ==
  \A v \in int : cbor_value_get_int(EncodeInt(v)) = v
<1> SUFFICES ASSUME NEW v \in int
             PROVE  cbor_value_get_int(EncodeInt(v)) = v
  OBVIOUS
<1>1. v \in Int /\ -HALF <= v /\ v < HALF
  BY Widths DEF int
<1>2. CASE v >= 0
  <2>1. EncodeInt(v) = [neg |-> FALSE, n |-> v]
    BY <1>1, <1>2 DEF EncodeInt, cbor_encode_int
  <2>2. v % UINT32 = v
    BY <1>1, <1>2, NarrowTwice, Widths
  <2>3. QED
    BY <1>1, <2>1, <2>2 DEF cbor_value_get_int, ToInt
<1>3. CASE v < 0 /\ v # -HALF
  <2>1. -v \in 0..(UINT32 - 1) /\ -v - 1 \in 0..(UINT32 - 1) /\ abs(v) = -v
    BY <1>1, <1>3, Widths DEF abs
  <2>2. ToUint64(abs(v)) = -v
    <3>1. -v \in 0..(UINT64 - 1) /\ -v = 0 * UINT64 + (-v)
      BY <2>1, Widths
    <3>2. QED
      BY <2>1, <3>1, ModOfShift, Widths DEF ToUint64
  <2>3. ToUint64(-v - 1) = -v - 1
    <3>1. -v - 1 \in 0..(UINT64 - 1) /\ -v - 1 = 0 * UINT64 + (-v - 1)
      BY <2>1, Widths
    <3>2. QED
      BY <3>1, ModOfShift, Widths DEF ToUint64
  <2>4. EncodeInt(v) = [neg |-> TRUE, n |-> -v - 1]
    BY <1>3, <2>2, <2>3 DEF EncodeInt, cbor_encode_negative_int
  <2>5. (-v - 1) % UINT32 = -v - 1
    BY <2>1, NarrowTwice
  <2>6. QED
    BY <1>1, <1>3, <2>4, <2>5, Widths DEF cbor_value_get_int, ToInt
<1>4. CASE v = -HALF
  <2>1. ToUint64(abs(v)) = UINT64 - HALF
    <3>1. UINT64 - HALF \in 0..(UINT64 - 1) /\ v = (-1) * UINT64 + (UINT64 - HALF)
      BY <1>4, Widths
    <3>2. QED
      BY <1>4, <3>1, ModOfShift, Widths DEF ToUint64, abs
  <2>2. ToUint64(UINT64 - HALF - 1) = UINT64 - HALF - 1
    <3>1. /\ UINT64 - HALF - 1 \in 0..(UINT64 - 1)
          /\ UINT64 - HALF - 1 = 0 * UINT64 + (UINT64 - HALF - 1)
      BY Widths
    <3>2. QED
      BY <3>1, ModOfShift, Widths DEF ToUint64
  <2>3. EncodeInt(v) = [neg |-> TRUE, n |-> UINT64 - HALF - 1]
    <3>1. v < 0
      BY <1>4, Widths
    <3>2. EncodeInt(v) = cbor_encode_negative_int(UINT64 - HALF)
      BY <2>1, <3>1 DEF EncodeInt
    <3>3. QED
      BY <2>2, <3>2 DEF cbor_encode_negative_int
  <2>4. (UINT64 - HALF - 1) % UINT32 = HALF - 1
    <3>1. HALF - 1 \in 0..(UINT32 - 1) /\ UINT64 - HALF - 1 = UINT64 + (UINT32 - HALF - 1) - UINT32
      BY Widths
    <3>2. UINT32 - HALF - 1 = HALF - 1 /\ UINT64 - HALF - 1 = UINT64 + (HALF - 1) - UINT32
      BY <3>1, Widths
    <3>3. QED
      BY <3>1, <3>2, NarrowTwice
  <2>5. QED
    BY <1>4, <2>3, <2>4, Widths DEF cbor_value_get_int, ToInt
<1>5. QED
  BY <1>1, <1>2, <1>3, <1>4

-----------------------------------------------------------------------------
(* Whole commands *)

(* A sequence with its items replaced one by one.                          *)
LEMMA MappedSequence ==
  ASSUME NEW S, NEW T, NEW s \in Seq(S), NEW t,
         t = [i \in DOMAIN s |-> t[i]],
         \A i \in DOMAIN s : t[i] \in T
  PROVE  t \in Seq(T) /\ Len(t) = Len(s) /\ DOMAIN t = DOMAIN s
<1>1. DOMAIN s = 1..Len(s) /\ Len(s) \in Nat
  OBVIOUS
<1>2. t \in [1..Len(s) -> T]
  BY <1>1
<1>3. QED
  BY <1>1, <1>2

(* What goes through an int is an int.                                     *)
LEMMA DecodedInt ==
  ASSUME NEW w \in WireInt
  PROVE  cbor_value_get_int(w) \in int
<1> DEFINE low == w.n % UINT32
<1>1. w.n \in Nat /\ w.neg \in BOOLEAN
  BY Widths DEF WireInt, uint64_t
<1>2. low \in 0..(UINT32 - 1)
  BY <1>1, Widths
<1>3. ToInt(w.n) = IF low < HALF THEN low ELSE low - UINT32
  BY DEF ToInt
<1> HIDE DEF low
<1>4. ToInt(w.n) \in Int /\ -HALF <= ToInt(w.n) /\ ToInt(w.n) <= HALF - 1
  BY <1>2, <1>3, Widths
<1>5. QED
  BY <1>1, <1>4, Widths DEF cbor_value_get_int, int

(* Every int can be written.                                               *)
LEMMA EncodedInt ==
  ASSUME NEW v \in int
  PROVE  EncodeInt(v) \in WireInt /\ cbor_encode_int(v) \in WireInt
<1>1. v \in Int /\ -HALF <= v /\ v < HALF /\ UINT64 \in Nat \ {0} /\ HALF < UINT64
  BY Widths DEF int
<1>2. cbor_encode_int(v) \in WireInt
  <2>1. CASE v < 0
    <3>1. -v - 1 \in 0..(UINT64 - 1)
      BY <1>1, <2>1, Widths
    <3>2. QED
      BY <2>1, <3>1 DEF cbor_encode_int, WireInt, uint64_t
  <2>2. CASE ~(v < 0)
    <3>1. v \in 0..(UINT64 - 1)
      BY <1>1, <2>2, Widths
    <3>2. QED
      BY <2>2, <3>1 DEF cbor_encode_int, WireInt, uint64_t
  <2>3. QED
    BY <2>1, <2>2
<1>3. \A n \in Int : ToUint64(n) \in uint64_t
  BY <1>1 DEF ToUint64, uint64_t
<1>4. abs(v) \in Int
  BY <1>1, Widths DEF abs
<1>5. ToUint64(ToUint64(abs(v)) - 1) \in uint64_t
  BY <1>1, <1>3, <1>4 DEF uint64_t
<1>6. EncodeInt(v) \in WireInt
  BY <1>2, <1>5 DEF EncodeInt, cbor_encode_negative_int, WireInt
<1>7. QED
  BY <1>2, <1>6

(* The types of arguments, each with the values it has.                    *)
LEMMA ArgCases ==
  ASSUME NEW a \in Arg
  PROVE  \/ a.type \in {"INT_TYPE", "LONG_TYPE"} /\ a.val \in int
         \/ a.type = "STRING_TYPE" /\ a.val \in Text
         \/ a.type = "DOUBLE_TYPE" /\ a.val \in Number
         \/ a.type \in {"NULL_TYPE", "VOID_TYPE"} /\ a.val = 0
<1>1. CASE a \in [type : {"INT_TYPE", "LONG_TYPE"}, val : int]
  BY <1>1
<1>2. CASE a \in [type : {"STRING_TYPE"}, val : Text]
  BY <1>2
<1>3. CASE a \in [type : {"DOUBLE_TYPE"}, val : Number]
  BY <1>3
<1>4. CASE a \in [type : {"NULL_TYPE", "VOID_TYPE"}, val : {0}]
  BY <1>4
<1>5. QED
  BY <1>1, <1>2, <1>3, <1>4 DEF Arg

(* What an element of an array is decoded to is an argument.               *)
LEMMA DecodedArg ==
  ASSUME NEW w \in WireArg
  PROVE  DecodeArg(w) \in Arg
<1>1. CASE w \in [type : {"CborIntegerType"}, val : WireInt]
  BY <1>1, DecodedInt DEF DecodeArg, Arg
<1>2. CASE w \in [type : {"CborTextStringType"}, val : Text]
  <2>1. CopyText(w.val, LARGE_CMD_STR_LEN, Garbage) \in Text
    BY <1>2, SizeAssumption DEF CopyText, Text
  <2>2. DecodeArg(w) = [type |-> "STRING_TYPE",
                        val  |-> CopyText(w.val, LARGE_CMD_STR_LEN, Garbage)]
    BY <1>2 DEF DecodeArg
  <2>3. QED
    BY <2>1, <2>2 DEF Arg
<1>3. CASE w \in [type : {"CborDoubleType", "CborFloatType"}, val : Number]
  BY <1>3 DEF DecodeArg, Arg, Number
<1>4. CASE w \in [type : {"CborNullType"}, val : {0}]
  BY <1>4 DEF DecodeArg, Arg, Zeroed
<1>5. QED
  BY <1>1, <1>2, <1>3, <1>4 DEF WireArg

(* What an argument is encoded to can be sent.                             *)
LEMMA EncodedArg ==
  ASSUME NEW a \in Arg
  PROVE  EncodeArg(a) \in WireArg
<1>1. CASE a.type \in {"INT_TYPE", "LONG_TYPE"} /\ a.val \in int
  BY <1>1, EncodedInt DEF EncodeArg, WireArg
<1>2. CASE a.type = "STRING_TYPE" /\ a.val \in Text
  BY <1>2 DEF EncodeArg, WireArg
<1>3. CASE a.type = "DOUBLE_TYPE" /\ a.val \in Number
  BY <1>3 DEF EncodeArg, WireArg
<1>4. CASE a.type \in {"NULL_TYPE", "VOID_TYPE"} /\ a.val = 0
  BY <1>4 DEF EncodeArg, WireArg
<1>5. QED
  BY <1>1, <1>2, <1>3, <1>4, ArgCases

(* An argument that fits and is written arrives as it was, a long as an    *)
(* int.                                                                    *)
LEMMA ArgArrives ==
  ASSUME NEW a \in Arg, a.type # "VOID_TYPE", ArgFits(a)
  PROVE  DecodeArg(EncodeArg(a)) = Arrives(a)
<1>1. CASE a.type \in {"INT_TYPE", "LONG_TYPE"} /\ a.val \in int
  <2>1. EncodeArg(a) = [type |-> "CborIntegerType", val |-> EncodeInt(a.val)]
    BY <1>1 DEF EncodeArg
  <2>2. DecodeArg(EncodeArg(a)) = [type |-> "INT_TYPE", val |-> a.val]
    BY <1>1, <2>1, IntArgumentExact DEF DecodeArg
  <2>3. a = [type |-> a.type, val |-> a.val]
    BY DEF Arg
  <2>4. QED
    BY <1>1, <2>2, <2>3 DEF Arrives
<1>2. CASE a.type = "STRING_TYPE" /\ a.val \in Text
  <2>1. a = [type |-> "STRING_TYPE", val |-> a.val] /\ a.val \in 0..(LARGE_CMD_STR_LEN - 1)
    BY <1>2 DEF Arg, ArgFits
  <2>2. CopyText(a.val, LARGE_CMD_STR_LEN, Garbage) = a.val
    BY <2>1, SizeAssumption DEF CopyText
  <2>3. EncodeArg(a) = [type |-> "CborTextStringType", val |-> a.val]
    BY <1>2 DEF EncodeArg
  <2>4. DecodeArg(EncodeArg(a)) = [type |-> "STRING_TYPE", val |-> a.val]
    BY <2>2, <2>3 DEF DecodeArg
  <2>5. QED
    BY <1>2, <2>1, <2>4 DEF Arrives
<1>3. CASE a.type = "DOUBLE_TYPE" /\ a.val \in Number
  <2>1. a = [type |-> "DOUBLE_TYPE", val |-> a.val]
    BY <1>3 DEF Arg
  <2>2. QED
    BY <1>3, <2>1 DEF EncodeArg, DecodeArg, Arrives
<1>4. CASE a.type = "NULL_TYPE" /\ a.val = 0
  <2>1. a = [type |-> "NULL_TYPE", val |-> 0]
    BY <1>4 DEF Arg
  <2>2. QED
    BY <1>4, <2>1 DEF EncodeArg, DecodeArg, Arrives, Zeroed
<1>5. QED
  BY <1>1, <1>2, <1>3, <1>4, ArgCases

(* The places of the arguments that are written are 1, 2, ... without a    *)
(* gap, and no two arguments share one.                                    *)
LEMMA WrittenPlaces ==
  ASSUME NEW S, NEW s \in Seq(S)
  PROVE  /\ Written(s) \subseteq DOMAIN s
         /\ IsFiniteSet(Written(s)) /\ Cardinality(Written(s)) \in Nat
         /\ \A i \in Written(s) : Place(s, i) \in 1..Cardinality(Written(s))
         /\ \A i, j \in Written(s) : Place(s, i) = Place(s, j) => i = j
         /\ \A k \in 1..Cardinality(Written(s)) :
              \E i \in Written(s) : Place(s, i) = k
<1> DEFINE W == Written(s)
           n == Cardinality(W)
           Upto(i) == {x \in W : x <= i}
<1>1. Len(s) \in Nat /\ DOMAIN s = 1..Len(s) /\ W \subseteq DOMAIN s
  BY DEF Written
<1>2. IsFiniteSet(W) /\ n \in Nat
  <2>1. IsFiniteSet(1..Len(s))
    BY <1>1, FS_Interval
  <2>2. IsFiniteSet(W)
    BY <1>1, <2>1, FS_Subset
  <2>3. QED
    BY <2>2, FS_CardinalityType
<1>3. \A i : Place(s, i) = Cardinality(Upto(i))
  BY DEF Place
<1>4. W \subseteq Nat
  BY <1>1
<1> HIDE DEF W
<1>5. \A i : /\ IsFiniteSet(Upto(i)) /\ Cardinality(Upto(i)) \in Nat
             /\ Cardinality(Upto(i)) <= n
  <2> TAKE i
  <2>1. Upto(i) \in SUBSET W
    OBVIOUS
  <2> HIDE DEF Upto
  <2>2. IsFiniteSet(Upto(i)) /\ Cardinality(Upto(i)) <= n
    BY <1>2, <2>1, FS_Subset
  <2>3. QED
    BY <2>2, FS_CardinalityType
<1>6. ASSUME NEW i \in W, NEW j \in W, i < j
      PROVE  Cardinality(Upto(i)) # Cardinality(Upto(j))
  <2>1. i \in Nat /\ j \in Nat /\ \A x \in W : x \in Nat
    BY <1>4
  <2>2. \A x \in W : x <= i => x <= j
    BY <1>6, <2>1
  <2>3. Upto(i) \in SUBSET Upto(j) /\ j \in Upto(j) /\ j \notin Upto(i)
    <3>1. Upto(i) \in SUBSET Upto(j)
      BY <2>2
    <3>2. j <= j /\ ~(j <= i)
      BY <1>6, <2>1
    <3>3. QED
      BY <3>1, <3>2
  <2> HIDE DEF Upto
  <2>4. Upto(i) # Upto(j)
    BY <2>3
  <2>5. QED
    BY <1>5, <2>3, <2>4, FS_Subset
<1> DEFINE f == [i \in W |-> Cardinality(Upto(i))]
<1>7. \A i \in W : f[i] \in 1..n
  <2> SUFFICES ASSUME NEW i \in W
               PROVE  Cardinality(Upto(i)) \in 1..n
    OBVIOUS
  <2>1. i \in Upto(i)
    BY <1>4
  <2> HIDE DEF Upto
  <2>2. Cardinality(Upto(i)) # 0
    BY <1>5, <2>1, FS_EmptySet
  <2>3. QED
    BY <1>2, <1>5, <2>2
<1>8. \A i, j \in W : f[i] = f[j] => i = j
  <2> SUFFICES ASSUME NEW i \in W, NEW j \in W, i # j
               PROVE  f[i] # f[j]
    OBVIOUS
  <2>1. i < j \/ j < i
    BY <1>4
  <2> HIDE DEF Upto
  <2>2. QED
    BY <1>6, <2>1
<1>9. \A k \in 1..n : \E i \in W : f[i] = k
  <2> HIDE DEF f
  <2>1. DOMAIN f = W /\ f \in [W -> 1..n]
    <3>1. DOMAIN f = W /\ f = [i \in W |-> f[i]]
      BY DEF f
    <3>2. QED
      BY <1>7, <3>1
  <2>2. f \in Injection(W, 1..n)
    BY <1>8, <2>1 DEF Injection, IsInjective
  <2>3. IsFiniteSet(1..n) /\ Cardinality(1..n) = n
    BY <1>2, FS_Interval
  <2> HIDE DEF n
  <2>4. Cardinality(W) = n
    BY DEF n
  <2>5. f \in Surjection(W, 1..n)
    BY <2>2, <2>3, <2>4, FS_Injection
  <2>6. QED
    BY <2>5 DEF Surjection
<1>10. \A i \in W : f[i] = Place(s, i)
  BY <1>3
<1> HIDE DEF f, Upto, n
<1>11. n = Cardinality(Written(s)) /\ W = Written(s)
  BY DEF n, W
<1>12. \A i \in W : Place(s, i) \in 1..n
  BY <1>7, <1>10
<1>13. \A i, j \in W : Place(s, i) = Place(s, j) => i = j
  BY <1>8, <1>10
<1>14. \A k \in 1..n : \E i \in W : Place(s, i) = k
  BY <1>9, <1>10
<1>15. QED
  BY <1>1, <1>2, <1>11, <1>12, <1>13, <1>14

(* If all are written, each keeps its place.                               *)
LEMMA AllWritten ==
  ASSUME NEW S, NEW s \in Seq(S), \A i \in DOMAIN s : s[i].type # "VOID_TYPE"
  PROVE  /\ Written(s) = DOMAIN s
         /\ Cardinality(Written(s)) = Len(s)
         /\ \A i \in DOMAIN s : Place(s, i) = i
<1>1. Len(s) \in Nat /\ DOMAIN s = 1..Len(s)
  OBVIOUS
<1>2. Written(s) = DOMAIN s
  BY DEF Written
<1>3. \A m \in Nat : Cardinality(1..m) = m
  BY FS_Interval
<1>4. ASSUME NEW i \in DOMAIN s
      PROVE  Place(s, i) = i
  <2>1. {j \in Written(s) : j <= i} = 1..i /\ i \in Nat
    BY <1>1, <1>2
  <2>2. QED
    BY <1>3, <2>1 DEF Place
<1>5. QED
  BY <1>1, <1>2, <1>3, <1>4

(* The encoded array has the written arguments at their places.            *)
LEMMA EncodedArgs ==
  ASSUME NEW S, NEW s \in Seq(S)
  PROVE  /\ DOMAIN EncodeArgs(s) = 1..Cardinality(Written(s))
         /\ \A i \in Written(s) : EncodeArgs(s)[Place(s, i)] = EncodeArg(s[i])
         /\ \A k \in DOMAIN EncodeArgs(s) :
              \E i \in Written(s) : EncodeArgs(s)[k] = EncodeArg(s[i])
<1> DEFINE at(k) == CHOOSE i \in Written(s) : Place(s, i) = k
<1>1. EncodeArgs(s) = [k \in 1..Cardinality(Written(s)) |-> EncodeArg(s[at(k)])]
  BY DEF EncodeArgs
<1>2. \A k \in 1..Cardinality(Written(s)) : at(k) \in Written(s)
  BY WrittenPlaces
<1>3. \A i \in Written(s) : at(Place(s, i)) = i
  BY WrittenPlaces
<1> HIDE DEF at
<1>4. \A i \in Written(s) : Place(s, i) \in 1..Cardinality(Written(s))
  BY WrittenPlaces
<1>5. QED
  BY <1>1, <1>2, <1>3, <1>4

(* What is decoded has the types of a command's fields, and texts may be   *)
(* garbage.                                                                *)
LEMMA DecodeType ==
  ASSUME NEW wire \in Wire, NEW name \in Text
  PROVE  /\ DecodeOver(wire, name).task_id \in uint64_t
         /\ DecodeOver(wire, name).fn_name \in Text
         /\ DecodeOver(wire, name).args \in Seq(Arg)
         /\ Len(DecodeOver(wire, name).args) = Len(wire.args)
<1>1. /\ wire.task_id \in TaskIdOnWire /\ wire.fn_name \in Nat
      /\ wire.args \in Seq(WireArg)
  BY DEF Wire
<1>2. DecodeTaskId(wire.task_id) \in uint64_t
  <2>1. wire.task_id.n \in uint64_t
    BY <1>1 DEF TaskIdOnWire
  <2>2. cbor_encode_uint(wire.task_id.n) \in WireInt
    BY <2>1 DEF cbor_encode_uint, WireInt
  <2>3. cbor_value_get_int(cbor_encode_uint(wire.task_id.n)) \in Int
    BY <2>2, DecodedInt, Widths DEF int
  <2>4. ToUint64(cbor_value_get_int(cbor_encode_uint(wire.task_id.n))) \in uint64_t
    BY <2>3, Widths DEF ToUint64, uint64_t
  <2>5. QED
    BY <2>1, <2>4 DEF DecodeTaskId
<1>3. CopyText(wire.fn_name, SMALL_CMD_STR_LEN, name) \in Text
  BY <1>1, SizeAssumption DEF CopyText, Text
<1> DEFINE d == DecodeOver(wire, name).args
<1>4. d = [i \in DOMAIN wire.args |-> DecodeArg(wire.args[i])]
  BY DEF DecodeOver
<1>5. \A i \in DOMAIN wire.args : d[i] \in Arg
  <2>1. \A i \in DOMAIN wire.args : wire.args[i] \in WireArg
    BY <1>1
  <2>2. QED
    BY <1>4, <2>1, DecodedArg
<1>6. d = [i \in DOMAIN wire.args |-> d[i]]
  BY <1>4
<1> HIDE DEF d
<1>7. d \in Seq(Arg) /\ Len(d) = Len(wire.args)
  <2> DEFINE w == wire.args
  <2>1. w \in Seq(WireArg) /\ d = [i \in DOMAIN w |-> d[i]] /\ \A i \in DOMAIN w : d[i] \in Arg
    BY <1>1, <1>5, <1>6
  <2> HIDE DEF w
  <2>2. d \in Seq(Arg) /\ Len(d) = Len(w)
    BY <2>1, MappedSequence
  <2>3. QED
    BY <2>2 DEF w
<1>8. QED
  BY <1>2, <1>3, <1>7 DEF DecodeOver, d

(* What is encoded can be sent.                                            *)
LEMMA EncodeType ==
  ASSUME NEW fields \in Fields
  PROVE  /\ Encode(fields) \in Wire
         /\ Len(Encode(fields).args) = Cardinality(Written(fields.args))
<1>1. /\ fields.cmd \in int /\ fields.task_id \in uint64_t /\ fields.fn_name \in Nat
      /\ fields.args \in Seq(Arg)
  BY DEF Fields
<1> DEFINE s == fields.args
           e == EncodeArgs(s)
           n == Cardinality(Written(s))
<1>2. \A i \in Written(s) : s[i] \in Arg
  BY <1>1, WrittenPlaces
<1>3. DOMAIN e = 1..n /\ n \in Nat /\ e = [k \in 1..n |-> e[k]]
  <2>1. DOMAIN e = 1..n /\ n \in Nat
    BY <1>1, EncodedArgs, WrittenPlaces
  <2>2. e = [k \in DOMAIN e |-> e[k]]
    BY DEF EncodeArgs
  <2>3. QED
    BY <2>1, <2>2
<1>4. \A k \in 1..n : e[k] \in WireArg
  <2>1. \A k \in 1..n : \E i \in Written(s) : e[k] = EncodeArg(s[i])
    BY <1>1, <1>3, EncodedArgs
  <2> HIDE DEF e, n
  <2>2. QED
    BY <1>2, <2>1, EncodedArg
<1> HIDE DEF e, n
<1>5. e \in Seq(WireArg) /\ Len(e) = n
  BY <1>3, <1>4
<1>6. EncodeTaskId(fields.task_id) \in TaskIdOnWire
  BY <1>1 DEF EncodeTaskId, TaskIdOnWire
<1>7. cbor_encode_int(fields.cmd) \in WireInt
  BY <1>1, EncodedInt
<1>8. Encode(fields) = [cmd |-> cbor_encode_int(fields.cmd),
                        task_id |-> EncodeTaskId(fields.task_id),
                        fn_name |-> fields.fn_name, nelems |-> Len(s), args |-> e]
  BY DEF Encode, e
<1>9. Len(s) \in Nat
  BY <1>1
<1>10. QED
  BY <1>1, <1>5, <1>6, <1>7, <1>8, <1>9 DEF Wire, n

(* What a controller gets of a command that the node sends, whatever its   *)
(* arguments are.  The array announces all of them and has those that are  *)
(* written, in their order: each that is no text too long arrives as it    *)
(* was, a long as an int.  The id names the same instance, and a name that *)
(* fits is kept.  Elements that were announced are missing only if an      *)
(* argument has VOID_TYPE.                                                 *)
THEOREM CommandRoundTrip ==
  \A fields \in Fields :
     LET wire == Encode(fields)
         decoded == Decode(wire)
         sent == fields.args
     IN
     /\ wire.nelems = Len(sent)
     /\ Len(decoded.args) = Cardinality(Written(sent))
     /\ \A i \in Written(sent) :
          ArgFits(sent[i]) => decoded.args[Place(sent, i)] = Arrives(sent[i])
     /\ (\A i \in DOMAIN sent : sent[i].type # "VOID_TYPE")
          => Complete(wire) /\ \A i \in DOMAIN sent : Place(sent, i) = i
     /\ uint32(decoded.task_id) = uint32(fields.task_id)
     /\ fields.fn_name < SMALL_CMD_STR_LEN
          => decoded.fn_name = COPY_STRING(fields.fn_name, SMALL_CMD_STR_LEN)
<1> TAKE fields \in Fields
<1>1. /\ fields.cmd \in int /\ fields.task_id \in uint64_t /\ fields.fn_name \in Nat
      /\ fields.args \in Seq(Arg)
  BY DEF Fields
<1> DEFINE wire == Encode(fields)
           d == Decode(wire)
           s == fields.args
<1>2. /\ wire.task_id = EncodeTaskId(fields.task_id)
      /\ wire.fn_name = fields.fn_name
      /\ wire.args = EncodeArgs(s)
      /\ wire.nelems = Len(s)
  BY DEF Encode
<1>3. wire \in Wire /\ Len(wire.args) = Cardinality(Written(s))
  BY EncodeType
<1> HIDE DEF wire
<1>4. /\ d.task_id = DecodeTaskId(EncodeTaskId(fields.task_id))
      /\ d.fn_name = CopyText(fields.fn_name, SMALL_CMD_STR_LEN, 0)
      /\ d.args = [k \in DOMAIN EncodeArgs(s) |-> DecodeArg(EncodeArgs(s)[k])]
  BY <1>2 DEF Decode, DecodeOver
<1>5. Len(d.args) = Cardinality(Written(s))
  <2>1. 0 \in Text
    BY DEF Text
  <2>2. QED
    BY <1>3, <2>1, DecodeType DEF Decode
<1> HIDE DEF d
<1>6. ASSUME NEW i \in Written(s), ArgFits(s[i])
      PROVE  d.args[Place(s, i)] = Arrives(s[i])
  <2>1. s[i] \in Arg /\ s[i].type # "VOID_TYPE"
    BY <1>1, WrittenPlaces DEF Written
  <2>2. Place(s, i) \in DOMAIN EncodeArgs(s)
    BY <1>1, WrittenPlaces, EncodedArgs
  <2>3. EncodeArgs(s)[Place(s, i)] = EncodeArg(s[i])
    BY <1>1, EncodedArgs
  <2>4. d.args[Place(s, i)] = DecodeArg(EncodeArg(s[i]))
    BY <1>4, <2>2, <2>3
  <2>5. QED
    BY <1>6, <2>1, <2>4, ArgArrives
<1>7. ASSUME \A i \in DOMAIN s : s[i].type # "VOID_TYPE"
      PROVE  Complete(wire) /\ \A i \in DOMAIN s : Place(s, i) = i
  BY <1>1, <1>2, <1>3, <1>7, AllWritten DEF Complete
<1>8. uint32(d.task_id) = uint32(fields.task_id)
  BY <1>1, <1>4, SameInstance
<1>9. fields.fn_name < SMALL_CMD_STR_LEN
        => d.fn_name = COPY_STRING(fields.fn_name, SMALL_CMD_STR_LEN)
  BY <1>1, <1>4, SizeAssumption DEF CopyText, COPY_STRING
<1>10. QED
  BY <1>2, <1>5, <1>6, <1>7, <1>8, <1>9 DEF d, wire
=============================================================================
