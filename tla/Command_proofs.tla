--------------------------- MODULE Command_proofs ---------------------------
(***************************************************************************)
(* Theorems about Command: the heap of arguments and the counts of         *)
(* references are right for any messages, any fields and any bounds.       *)
(***************************************************************************)
EXTENDS Command, Codec_proofs

-----------------------------------------------------------------------------
(* Maps *)

(* f with an entry at a.                                                   *)
LEMMA PutAt ==
  ASSUME NEW f, NEW a, NEW v
  PROVE  /\ DOMAIN Put(f, a, v) = DOMAIN f \cup {a}
         /\ Put(f, a, v)[a] = v
         /\ \A x \in DOMAIN f : x # a => Put(f, a, v)[x] = f[x]
  BY DEF Put

(* The values of f with an entry at a.                                     *)
LEMMA PutType ==
  ASSUME NEW S, NEW f, f \in [DOMAIN f -> S], NEW a, NEW v \in S
  PROVE  Put(f, a, v) \in [DOMAIN Put(f, a, v) -> S]
  BY DEF Put

(* f without its entries in S.                                             *)
LEMMA WithoutAt ==
  ASSUME NEW f, NEW S
  PROVE  /\ DOMAIN Without(f, S) = DOMAIN f \ S
         /\ \A x \in DOMAIN f \ S : Without(f, S)[x] = f[x]
  BY DEF Without, Restrict

LEMMA WithoutType ==
  ASSUME NEW T, NEW f, f \in [DOMAIN f -> T], NEW S
  PROVE  Without(f, S) \in [DOMAIN Without(f, S) -> T]
  BY DEF Without, Restrict

(* f with another value at a, which may be no argument of it.              *)
LEMMA ExceptType ==
  ASSUME NEW S, NEW T, NEW f \in [S -> T], NEW a, NEW v \in T
  PROVE  [f EXCEPT ![a] = v] \in [S -> T]
  OBVIOUS

(* Addresses are numbers, so none of them is NULL.                         *)
LEMMA AddressesAreNotNull == \A a \in Nat : a # NULL
  BY BoundAssumption

-----------------------------------------------------------------------------
(* Arrays and strings *)

(* Every string belongs to one array, and none to none; what an array      *)
(* stands for are arguments.                                               *)
HeapOK(h) ==
  /\ DOMAIN h.array \subseteq ArrayAddr
  /\ DOMAIN h.string \subseteq StringAddr
  /\ DOMAIN h.string = UNION {Strings(h, a) : a \in DOMAIN h.array}
  /\ \A a, b \in DOMAIN h.array : a # b => Strings(h, a) \cap Strings(h, b) = {}
  /\ \A a \in DOMAIN h.array : Values(h, a) \in Seq(Arg)

(* Arrays that exist before and after a step stand for the same values.    *)
Kept(h, g) ==
  \A a \in DOMAIN h.array \cap DOMAIN g.array : Values(g, a) = Values(h, a)

(* An array has the strings and the values that it has in another heap     *)
(* with the same items and the same texts of them.                         *)
LEMMA SameArray ==
  ASSUME NEW h, NEW g, NEW a,
         g.array[a] = h.array[a],
         \A c \in Strings(h, a) : g.string[c] = h.string[c]
  PROVE  Strings(g, a) = Strings(h, a) /\ Values(g, a) = Values(h, a)
<1>1. Strings(g, a) = Strings(h, a)
  BY DEF Strings
<1>2. ASSUME NEW i \in DOMAIN h.array[a], IsString(h.array[a][i])
      PROVE  h.array[a][i].val \in Strings(h, a)
  BY <1>2 DEF Strings, Texts
<1>3. Values(g, a) = Values(h, a)
  BY <1>2 DEF Values
<1>4. QED
  BY <1>1, <1>3

(* An argument is a type and a value.                                      *)
LEMMA ArgIsRecord ==
  \A x \in Arg : x = [type |-> x.type, val |-> x.val]
  BY DEF Arg

(* calloc and strdup: a new array, new strings, the values asked for, and  *)
(* nothing else changes.                                                   *)
LEMMA Allocation ==
  ASSUME NEW h, HeapOK(h), NEW v \in Seq(Arg), Room(h, v)
  PROVE  /\ NewAddr(h) \in ArrayAddr \ DOMAIN h.array
         /\ DOMAIN Allocated(h, v).array = DOMAIN h.array \cup {NewAddr(h)}
         /\ Values(Allocated(h, v), NewAddr(h)) = v
         /\ Kept(h, Allocated(h, v))
         /\ HeapOK(Allocated(h, v))
<1> DEFINE g == Allocated(h, v)
           n == NewAddr(h)
           T == Texts(v)
           cell == CHOOSE f \in Cells(h, v) : TRUE
           new == {cell[i] : i \in T}
           items == [i \in DOMAIN v |->
                       [type |-> v[i].type,
                        val  |-> IF IsString(v[i]) THEN cell[i] ELSE v[i].val]]
           text(c) == v[CHOOSE i \in T : cell[i] = c].val
<1>1. n \in ArrayAddr /\ n \notin DOMAIN h.array
  BY DEF Room, FreeArrays, NewAddr
<1>2. /\ cell \in [T -> StringAddr \ DOMAIN h.string]
      /\ \A i, j \in T : cell[i] = cell[j] => i = j
  <2>1. cell \in Cells(h, v)
    BY DEF Room
  <2>2. QED
    BY <2>1 DEF Cells, Injection, IsInjective
<1>3. /\ g.array = Put(h.array, n, items)
      /\ g.string = [c \in DOMAIN h.string \cup new |->
                       IF c \in new THEN text(c) ELSE h.string[c]]
  BY DEF Allocated
<1> HIDE DEF cell, n, g
<1>4. /\ DOMAIN g.array = DOMAIN h.array \cup {n}
      /\ g.array[n] = items
      /\ \A a \in DOMAIN h.array : g.array[a] = h.array[a]
  BY <1>1, <1>3 DEF Put
<1>5. DOMAIN g.string = DOMAIN h.string \cup new
  BY <1>3
<1>6. new \cap DOMAIN h.string = {} /\ new \subseteq StringAddr
  BY <1>2
<1>7. \A c \in DOMAIN h.string : g.string[c] = h.string[c]
  BY <1>3, <1>6
<1>8. ASSUME NEW a \in DOMAIN h.array
      PROVE  Strings(g, a) = Strings(h, a) /\ Values(g, a) = Values(h, a)
  <2>1. Strings(h, a) \subseteq DOMAIN h.string
    BY DEF HeapOK
  <2>2. QED
    BY <1>4, <1>7, <2>1, SameArray
<1>9. /\ DOMAIN items = DOMAIN v
      /\ Texts(items) = T
      /\ \A i \in T : items[i].val = cell[i]
  BY DEF Texts, IsString
<1>10. Strings(g, n) = new
  <2> HIDE DEF items, T
  <2>1. Strings(g, n) = {items[i].val : i \in T}
    BY <1>4, <1>9 DEF Strings
  <2>2. QED
    BY <1>9, <2>1
<1>11. \A i \in T : g.string[cell[i]] = v[i].val
  <2> SUFFICES ASSUME NEW i \in T
               PROVE  g.string[cell[i]] = v[i].val
    OBVIOUS
  <2>1. cell[i] \in new /\ g.string[cell[i]] = text(cell[i])
    BY <1>3
  <2>2. (CHOOSE j \in T : cell[j] = cell[i]) = i
    BY <1>2
  <2>3. QED
    BY <2>1, <2>2
<1>12. Values(g, n) = v
  <2>1. n # NULL
    BY <1>1, AddressesAreNotNull DEF ArrayAddr
  <2>2. Values(g, n) = [i \in DOMAIN v |->
                          [type |-> items[i].type,
                           val  |-> IF IsString(items[i]) THEN g.string[items[i].val]
                                    ELSE items[i].val]]
    BY <1>4, <1>9, <2>1 DEF Values
  <2>3. ASSUME NEW i \in DOMAIN v
        PROVE  Values(g, n)[i] = v[i]
    <3>1. v[i] = [type |-> v[i].type, val |-> v[i].val]
      BY ArgIsRecord
    <3>2. CASE IsString(v[i])
      <4>1. i \in T /\ IsString(items[i]) /\ items[i].val = cell[i] /\ items[i].type = v[i].type
        BY <3>2, <1>9 DEF Texts, IsString
      <4>2. QED
        BY <2>2, <3>1, <4>1, <1>11
    <3>3. CASE ~IsString(v[i])
      <4>1. ~IsString(items[i]) /\ items[i].val = v[i].val /\ items[i].type = v[i].type
        BY <3>3 DEF IsString
      <4>2. QED
        BY <2>2, <3>1, <4>1
    <3>4. QED
      BY <3>2, <3>3
  <2>4. QED
    BY <2>2, <2>3
<1>13. Kept(h, g)
  BY <1>8 DEF Kept
<1>14. HeapOK(g)
  <2>1. DOMAIN g.array \subseteq ArrayAddr /\ DOMAIN g.string \subseteq StringAddr
    BY <1>1, <1>4, <1>5, <1>6 DEF HeapOK
  <2>2. DOMAIN g.string = UNION {Strings(g, a) : a \in DOMAIN g.array}
    <3>1. UNION {Strings(g, a) : a \in DOMAIN g.array}
            = (UNION {Strings(g, a) : a \in DOMAIN h.array}) \cup Strings(g, n)
      BY <1>4
    <3>2. UNION {Strings(g, a) : a \in DOMAIN h.array}
            = UNION {Strings(h, a) : a \in DOMAIN h.array}
      BY <1>8
    <3>3. QED
      BY <1>5, <1>10, <3>1, <3>2 DEF HeapOK
  <2>3. \A a, b \in DOMAIN g.array : a # b => Strings(g, a) \cap Strings(g, b) = {}
    <3>1. \A a \in DOMAIN h.array : Strings(h, a) \subseteq DOMAIN h.string
      BY DEF HeapOK
    <3>2. \A a, b \in DOMAIN h.array : a # b => Strings(g, a) \cap Strings(g, b) = {}
      BY <1>8 DEF HeapOK
    <3>3. \A a \in DOMAIN h.array : Strings(g, a) \cap Strings(g, n) = {}
      BY <1>6, <1>8, <1>10, <3>1
    <3>4. QED
      BY <1>4, <3>2, <3>3
  <2>4. \A a \in DOMAIN g.array : Values(g, a) \in Seq(Arg)
    BY <1>4, <1>8, <1>12 DEF HeapOK
  <2>5. QED
    BY <2>1, <2>2, <2>3, <2>4 DEF HeapOK
<1>15. QED
  BY <1>1, <1>4, <1>12, <1>13, <1>14 DEF g, n

(* free of an array and of its strings: all others stay as they are.       *)
LEMMA Freeing ==
  ASSUME NEW h, HeapOK(h), NEW a \in DOMAIN h.array
  PROVE  /\ DOMAIN command_args_free(h, a).array = DOMAIN h.array \ {a}
         /\ Kept(h, command_args_free(h, a))
         /\ HeapOK(command_args_free(h, a))
<1> DEFINE g == command_args_free(h, a)
<1>1. g.array = Without(h.array, {a}) /\ g.string = Without(h.string, Strings(h, a))
  BY DEF command_args_free
<1> HIDE DEF g
<1>2. /\ DOMAIN g.array = DOMAIN h.array \ {a}
      /\ \A b \in DOMAIN g.array : g.array[b] = h.array[b]
      /\ DOMAIN g.string = DOMAIN h.string \ Strings(h, a)
      /\ \A c \in DOMAIN g.string : g.string[c] = h.string[c]
  BY <1>1 DEF Without, Restrict
<1>3. ASSUME NEW b \in DOMAIN g.array
      PROVE  Strings(g, b) = Strings(h, b) /\ Values(g, b) = Values(h, b)
  <2>1. Strings(h, b) \subseteq DOMAIN h.string /\ Strings(h, b) \cap Strings(h, a) = {}
    BY <1>2 DEF HeapOK
  <2>2. QED
    BY <1>2, <2>1, SameArray
<1>4. HeapOK(g)
  <2>1. DOMAIN g.string = UNION {Strings(g, b) : b \in DOMAIN g.array}
    <3>1. DOMAIN g.string = UNION {Strings(h, b) : b \in DOMAIN g.array}
      BY <1>2 DEF HeapOK
    <3>2. QED
      BY <1>3, <3>1
  <2>2. \A b, c \in DOMAIN g.array : b # c => Strings(g, b) \cap Strings(g, c) = {}
    BY <1>2, <1>3 DEF HeapOK
  <2>3. \A b \in DOMAIN g.array : Values(g, b) \in Seq(Arg)
    BY <1>2, <1>3 DEF HeapOK
  <2>4. DOMAIN g.array \subseteq ArrayAddr /\ DOMAIN g.string \subseteq StringAddr
    BY <1>2 DEF HeapOK
  <2>5. QED
    BY <2>1, <2>2, <2>3, <2>4 DEF HeapOK
<1>5. QED
  BY <1>2, <1>3, <1>4 DEF Kept, g

-----------------------------------------------------------------------------
(* Owners *)

(* f maps addresses to commands, or to internal commands.                  *)
ArgsOf(f) == {f[x].args : x \in DOMAIN f} \ {NULL}
OneOwner(f) ==
  \A x, y \in DOMAIN f : f[x].args = f[y].args /\ f[x].args # NULL => x = y

LEMMA SameOwner ==
  ASSUME NEW f, NEW g, OneOwner(f), DOMAIN g = DOMAIN f,
         \A x \in DOMAIN f : g[x].args = f[x].args
  PROVE  ArgsOf(g) = ArgsOf(f) /\ OneOwner(g)
  BY DEF ArgsOf, OneOwner

LEMMA PutOwner ==
  ASSUME NEW f, OneOwner(f), NEW x, x \notin DOMAIN f,
         NEW r, r.args \notin ArgsOf(f)
  PROVE  /\ ArgsOf(Put(f, x, r)) = ArgsOf(f) \cup ({r.args} \ {NULL})
         /\ OneOwner(Put(f, x, r))
<1> DEFINE g == Put(f, x, r)
<1>1. /\ DOMAIN g = DOMAIN f \cup {x} /\ g[x] = r
      /\ \A y \in DOMAIN f : g[y] = f[y]
  BY DEF Put
<1> HIDE DEF g
<1>2. OneOwner(g)
  BY <1>1 DEF OneOwner, ArgsOf
<1>3. ArgsOf(g) = ArgsOf(f) \cup ({r.args} \ {NULL})
  BY <1>1 DEF ArgsOf
<1>4. QED
  BY <1>2, <1>3 DEF g

LEMMA ReplacedOwner ==
  ASSUME NEW f, OneOwner(f), NEW x \in DOMAIN f, NEW g, DOMAIN g = DOMAIN f,
         \A y \in DOMAIN f : y # x => g[y] = f[y],
         g[x].args \notin ArgsOf(f)
  PROVE  /\ ArgsOf(g) = (ArgsOf(f) \ {f[x].args}) \cup ({g[x].args} \ {NULL})
         /\ OneOwner(g)
<1>1. OneOwner(g)
  BY DEF OneOwner, ArgsOf
<1>2. ArgsOf(g) = (ArgsOf(f) \ {f[x].args}) \cup ({g[x].args} \ {NULL})
  BY DEF ArgsOf, OneOwner
<1>3. QED
  BY <1>1, <1>2

LEMMA WithoutOwner ==
  ASSUME NEW f, OneOwner(f), NEW x \in DOMAIN f
  PROVE  /\ ArgsOf(Without(f, {x})) = ArgsOf(f) \ {f[x].args}
         /\ OneOwner(Without(f, {x}))
<1> DEFINE g == Without(f, {x})
<1>1. DOMAIN g = DOMAIN f \ {x} /\ \A y \in DOMAIN g : g[y] = f[y]
  BY DEF Without, Restrict
<1> HIDE DEF g
<1>2. OneOwner(g)
  BY <1>1 DEF OneOwner
<1>3. ArgsOf(g) = ArgsOf(f) \ {f[x].args}
  BY <1>1 DEF ArgsOf, OneOwner
<1>4. QED
  BY <1>2, <1>3 DEF g

-----------------------------------------------------------------------------
(* The inductive invariant *)

(* Every array that exists has one owner: a command, an internal command,  *)
(* the program, or nobody since its command was decoded into in place.     *)
ArraysOwned ==
  /\ DOMAIN heap.array
       = ArgsOf(commands) \cup ArgsOf(internals) \cup args \cup overwritten
  /\ ArgsOf(commands) \cap ArgsOf(internals) = {}
  /\ ArgsOf(commands) \cap args = {}
  /\ ArgsOf(commands) \cap overwritten = {}
  /\ ArgsOf(internals) \cap args = {}
  /\ ArgsOf(internals) \cap overwritten = {}
  /\ args \cap overwritten = {}
  /\ OneOwner(commands) /\ OneOwner(internals)

(* What thread t creates, with b the commands being created, r the         *)
(* references and s the commands whose count was reset: no other thread    *)
(* creates it, and nobody holds it yet, unless the processor decodes into  *)
(* it; then it has one holder, or its count is reset.                      *)
BuildsOK(b, r, s, t) ==
  b[t].cmd # NULL =>
    /\ b[t].id \in 1..(MaxId - 1)
    /\ \A u \in Thread : b[u].cmd = b[t].cmd => u = t
    /\ r[b[t].cmd] > 0 => t = "processor" /\ (r[b[t].cmd] = 1 \/ b[t].cmd \in s)

(* A command exists because it is held, or because one thread is still     *)
(* creating it.                                                            *)
CommandsCounted ==
  /\ RefcountExact
  /\ \A c \in CommandAddr :
       c \in DOMAIN commands <=> (refs[c] > 0 \/ \E t \in Thread : building[t].cmd = c)
  /\ \A t \in Thread : BuildsOK(building, refs, reset, t)

CInv ==
  /\ CommandTypeOK
  /\ HeapOK(heap)
  /\ ArraysOwned
  /\ CommandsCounted
  /\ BufferAgrees

LEMMA InitCInv == CommandInit => CInv
<1> SUFFICES ASSUME CommandInit
             PROVE  CInv
  OBVIOUS
<1> USE DEF CommandInit
<1>1. DOMAIN commands = {} /\ DOMAIN internals = {}
      /\ DOMAIN heap.array = {} /\ DOMAIN heap.string = {}
  OBVIOUS
<1>2. CommandTypeOK
  <2>1. commands \in [DOMAIN commands -> Command]
    BY <1>1
  <2>2. internals \in [DOMAIN internals ->
          [task_id : 0..(UINT32 - 1), args : ArrayAddr \cup {NULL}]]
    BY <1>1
  <2>3. building \in [Thread -> [cmd : CommandAddr \cup {NULL}, id : 0..MaxId]]
    BY BoundAssumption DEF NotBuilding
  <2>4. id \in 1..MaxId /\ refs \in [CommandAddr -> 0..3]
    BY BoundAssumption
  <2>5. QED
    BY <1>1, <2>1, <2>2, <2>3, <2>4 DEF CommandTypeOK
<1>3. HeapOK(heap)
  BY <1>1 DEF HeapOK
<1>4. ArraysOwned
  BY <1>1 DEF ArraysOwned, ArgsOf, OneOwner
<1>5. CommandsCounted
  <2>1. \A c \in CommandAddr : c # NULL
    BY AddressesAreNotNull DEF CommandAddr
  <2>2. \A t \in Thread : building[t].cmd = NULL
    BY DEF NotBuilding
  <2>3. \A c \in CommandAddr : ~(refs[c] > 0)
    OBVIOUS
  <2>4. QED
    BY <1>1, <2>1, <2>2, <2>3 DEF CommandsCounted, RefcountExact, BuildsOK
<1>6. BufferAgrees
  BY <1>1 DEF BufferAgrees
<1>7. QED
  BY <1>2, <1>3, <1>4, <1>5, <1>6 DEF CInv

-----------------------------------------------------------------------------
(* What the actions have in common *)

(* Whether a command agrees with its buffer depends on its fields and on   *)
(* what its array stands for.                                              *)
LEMMA KeptAgrees ==
  ASSUME NEW h, NEW g, NEW r, NEW s, Kept(h, g), Agrees(h, r),
         r.args # NULL => r.args \in DOMAIN h.array \cap DOMAIN g.array,
         s.args = r.args, s.buffer = r.buffer,
         s.task_id = r.task_id, s.fn_name = r.fn_name
  PROVE  Agrees(g, s)
<1>1. Values(g, s.args) = Values(h, r.args)
  BY DEF Kept, Values
<1>2. QED
  BY <1>1 DEF Agrees

(* What a command's args points to exists.                                 *)
LEMMA ArgsExist ==
  ASSUME CInv
  PROVE  /\ \A c \in DOMAIN commands :
              commands[c].args # NULL => commands[c].args \in DOMAIN heap.array
         /\ \A i \in DOMAIN internals :
              internals[i].args # NULL => internals[i].args \in DOMAIN heap.array
  BY DEF CInv, ArraysOwned, ArgsOf

LEMMA BuffersKept ==
  ASSUME CInv, Kept(heap, heap'),
         \A c \in DOMAIN commands' :
            /\ c \in DOMAIN commands
            /\ commands'[c].args = commands[c].args
            /\ commands'[c].buffer = commands[c].buffer
            /\ commands'[c].task_id = commands[c].task_id
            /\ commands'[c].fn_name = commands[c].fn_name
            /\ commands[c].args # NULL => commands[c].args \in DOMAIN heap'.array
  PROVE  BufferAgrees'
<1> SUFFICES ASSUME NEW c \in DOMAIN commands'
             PROVE  Agrees(heap', commands'[c])
  BY DEF BufferAgrees
<1>1. Agrees(heap, commands[c])
  BY DEF CInv, BufferAgrees
<1>2. commands[c].args # NULL
        => commands[c].args \in DOMAIN heap.array \cap DOMAIN heap'.array
  BY ArgsExist
<1>3. QED
  BY <1>1, <1>2, KeptAgrees

(* Memory for arguments, or none if there are none.                        *)
LEMMA AllocationIfAny ==
  ASSUME NEW h, HeapOK(h), NEW v \in Seq(Arg), Room(h, v), NEW a, NEW g,
         \/ a = NULL /\ v = <<>> /\ g = h
         \/ a = NewAddr(h) /\ g = Allocated(h, v)
  PROVE  /\ a \in (ArrayAddr \cup {NULL}) \ DOMAIN h.array
         /\ DOMAIN g.array = DOMAIN h.array \cup ({a} \ {NULL})
         /\ Values(g, a) = v
         /\ Kept(h, g)
         /\ HeapOK(g)
<1>1. \A x \in ArrayAddr : x # NULL
  BY AddressesAreNotNull DEF ArrayAddr
<1>2. CASE a = NULL /\ v = <<>> /\ g = h
  <2>1. NULL \notin DOMAIN h.array
    BY <1>1 DEF HeapOK
  <2>2. QED
    BY <1>2, <2>1 DEF Kept, Values
<1>3. CASE a = NewAddr(h) /\ g = Allocated(h, v)
  BY <1>1, <1>3, Allocation
<1>4. QED
  BY <1>2, <1>3

LEMMA ValuesTyped ==
  ASSUME CInv, NEW a, a # NULL => a \in DOMAIN heap.array
  PROVE  Values(heap, a) \in Seq(Arg)
<1>1. CASE a = NULL
  BY <1>1 DEF Values
<1>2. CASE a # NULL
  BY <1>2 DEF CInv, HeapOK
<1>3. QED
  BY <1>1, <1>2

(* Everything but the commands, the references and the creations.          *)
OtherTypes ==
  /\ DOMAIN internals \subseteq InternalAddr
  /\ internals \in [DOMAIN internals ->
       [task_id : 0..(UINT32 - 1), args : ArrayAddr \cup {NULL}]]
  /\ DOMAIN heap.array \subseteq ArrayAddr /\ DOMAIN heap.string \subseteq StringAddr
  /\ args \subseteq ArrayAddr /\ reset \subseteq CommandAddr

LEMMA TypesOK ==
  CommandTypeOK <=>
    /\ OtherTypes
    /\ DOMAIN commands \subseteq CommandAddr
    /\ commands \in [DOMAIN commands -> Command]
    /\ refs \in [CommandAddr -> 0..3]
    /\ id \in 1..MaxId
    /\ building \in [Thread -> [cmd : CommandAddr \cup {NULL}, id : 0..MaxId]]
  BY DEF CommandTypeOK, OtherTypes

(* A thread begins to create a command.                                    *)
LEMMA NewCommandStep ==
  ASSUME CInv, NEW t \in Thread, building[t].cmd = NULL, id < MaxId,
         NEW c \in CommandAddr \ DOMAIN commands, NEW r \in Command,
         commands' = Put(commands, c, r),
         building' = [building EXCEPT ![t] = [cmd |-> c, id |-> id]],
         UNCHANGED <<internals, refs, args, id, overwritten, reset>>,
         HeapOK(heap'), Kept(heap, heap'), Agrees(heap', r),
         r.args \notin DOMAIN heap.array,
         DOMAIN heap'.array = DOMAIN heap.array \cup ({r.args} \ {NULL})
  PROVE  CInv'
<1>1. /\ DOMAIN commands' = DOMAIN commands \cup {c} /\ commands'[c] = r
      /\ \A d \in DOMAIN commands : commands'[d] = commands[d]
  BY DEF Put
<1>2. /\ CommandTypeOK /\ HeapOK(heap) /\ ArraysOwned /\ CommandsCounted
      /\ BufferAgrees
  BY DEF CInv
<1>3. /\ OtherTypes
      /\ DOMAIN commands \subseteq CommandAddr
      /\ commands \in [DOMAIN commands -> Command]
      /\ refs \in [CommandAddr -> 0..3]
      /\ id \in 1..MaxId
      /\ building \in [Thread -> [cmd : CommandAddr \cup {NULL}, id : 0..MaxId]]
  BY <1>2, TypesOK
<1>4. CommandTypeOK'
  <2>1. OtherTypes'
    BY <1>3 DEF OtherTypes, HeapOK
  <2>2. commands' \in [DOMAIN commands' -> Command]
    BY <1>3, PutType
  <2>3. id \in 0..MaxId
    BY <1>3, BoundAssumption
  <2>4. building' \in [Thread -> [cmd : CommandAddr \cup {NULL}, id : 0..MaxId]]
    BY <1>3, <2>3
  <2>5. QED
    BY <1>1, <1>3, <2>1, <2>2, <2>4 DEF CommandTypeOK, OtherTypes
<1>5. ArraysOwned'
  <2>1. r.args \notin ArgsOf(commands)
    BY <1>2 DEF ArraysOwned
  <2>2. /\ ArgsOf(commands') = ArgsOf(commands) \cup ({r.args} \ {NULL})
        /\ OneOwner(commands')
    BY <1>2, <2>1, PutOwner DEF ArraysOwned
  <2>3. ArgsOf(internals') = ArgsOf(internals) /\ OneOwner(internals')
    BY <1>2 DEF ArraysOwned
  <2>4. QED
    BY <1>2, <2>2, <2>3 DEF ArraysOwned
<1>6. CommandsCounted'
  <2>1. /\ c # NULL
        /\ building' = [building EXCEPT ![t] = [cmd |-> c, id |-> id]]
    BY AddressesAreNotNull DEF CommandAddr
  <2>2. /\ building'[t].cmd = c /\ building'[t].id = id
        /\ \A u \in Thread : u # t => building'[u] = building[u]
    BY <1>3
  <2>3. refs[c] = 0
    BY <1>2, <1>3 DEF CommandsCounted
  <2>4. RefcountExact'
    BY <1>1, <1>2, <2>3 DEF CommandsCounted, RefcountExact
  <2>5. \A d \in CommandAddr : d \in DOMAIN commands'
          <=> (refs'[d] > 0 \/ \E u \in Thread : building'[u].cmd = d)
    <3> SUFFICES ASSUME NEW d \in CommandAddr
                 PROVE  d \in DOMAIN commands'
                   <=> (refs'[d] > 0 \/ \E u \in Thread : building'[u].cmd = d)
      OBVIOUS
    <3>1. CASE d = c
      BY <1>1, <2>2, <3>1
    <3>2. CASE d # c
      <4>1. d \in DOMAIN commands' <=> d \in DOMAIN commands
        BY <1>1, <3>2
      <4>2. d # NULL
        BY AddressesAreNotNull DEF CommandAddr
      <4>3. \A u \in Thread : building'[u].cmd = d <=> building[u].cmd = d
        BY <2>2, <3>2, <4>2
      <4>4. d \in DOMAIN commands
              <=> (refs[d] > 0 \/ \E u \in Thread : building[u].cmd = d)
        BY <1>2 DEF CommandsCounted
      <4>5. QED
        BY <4>1, <4>3, <4>4
    <3>3. QED
      BY <3>1, <3>2
  <2>6. ASSUME NEW u \in Thread
        PROVE  BuildsOK(building', refs', reset', u)
    <3>1. \A w \in Thread : building[w].cmd # c
      BY <1>2, <2>1 DEF CommandsCounted
    <3>2. CASE u = t
      <4>1. id \in 1..(MaxId - 1)
        BY <1>3, BoundAssumption
      <4>2. QED
        BY <2>2, <2>3, <3>1, <3>2, <4>1 DEF BuildsOK
    <3>3. CASE u # t
      <4>1. BuildsOK(building, refs, reset, u)
        BY <1>2 DEF CommandsCounted
      <4>2. QED
        BY <2>1, <2>2, <3>1, <3>3, <4>1 DEF BuildsOK
    <3>4. QED
      BY <3>2, <3>3
  <2>7. QED
    BY <2>4, <2>5, <2>6 DEF CommandsCounted
<1>7. BufferAgrees'
  <2> SUFFICES ASSUME NEW d \in DOMAIN commands'
               PROVE  Agrees(heap', commands'[d])
    BY DEF BufferAgrees
  <2>1. CASE d = c
    BY <1>1, <2>1
  <2>2. CASE d # c
    <3>1. Agrees(heap, commands[d]) /\ commands'[d] = commands[d]
      BY <1>1, <1>2, <2>2 DEF BufferAgrees
    <3>2. commands[d].args # NULL
            => commands[d].args \in DOMAIN heap.array \cap DOMAIN heap'.array
      BY <1>1, <2>2, ArgsExist
    <3>3. QED
      BY <3>1, <3>2, KeptAgrees
  <2>3. QED
    BY <2>1, <2>2
<1>8. QED
  BY <1>4, <1>5, <1>6, <1>7 DEF CInv

(* The program gets an array of its own.                                   *)
LEMMA GainedArray ==
  ASSUME CInv, NEW v \in Seq(Arg), Room(heap, v),
         heap' = Allocated(heap, v),
         args' = args \cup {NewAddr(heap)},
         UNCHANGED <<commands, internals, refs, id, building, overwritten, reset>>
  PROVE  CInv'
<1>1. /\ CommandTypeOK /\ HeapOK(heap) /\ ArraysOwned /\ CommandsCounted
  BY DEF CInv
<1>2. /\ NewAddr(heap) \in ArrayAddr \ DOMAIN heap.array
      /\ DOMAIN heap'.array = DOMAIN heap.array \cup {NewAddr(heap)}
      /\ Kept(heap, heap')
      /\ HeapOK(heap')
  BY <1>1, Allocation
<1>3. CommandTypeOK'
  BY <1>1, <1>2 DEF CommandTypeOK, HeapOK
<1>4. ArraysOwned'
  BY <1>1, <1>2 DEF ArraysOwned
<1>5. CommandsCounted'
  BY <1>1 DEF CommandsCounted, RefcountExact
<1>6. BufferAgrees'
  BY <1>2, BuffersKept, ArgsExist
<1>7. QED
  BY <1>2, <1>3, <1>4, <1>5, <1>6 DEF CInv

-----------------------------------------------------------------------------
(* The actions *)

(* The values that decoded or given fields have.                           *)
LEMMA Inputs ==
  /\ \A wire \in Message : wire \in Wire /\ Complete(wire)
  /\ \A fields \in Field : fields \in Fields /\ fields.args \in Seq(Arg)
  BY InputAssumption DEF Fields

(* What is decoded from a message, whatever the name was before, agrees    *)
(* with it: no element becomes a long, or nothing.                         *)
LEMMA DecodedAgrees ==
  ASSUME NEW wire \in Message, NEW name \in Text, NEW g, NEW r,
         Values(g, r.args) = DecodeOver(wire, name).args,
         r.task_id = DecodeOver(wire, name).task_id,
         r.fn_name = DecodeOver(wire, name).fn_name,
         r.buffer = wire
  PROVE  Agrees(g, r)
<1> DEFINE v == Values(g, r.args)
<1>1. wire \in Wire /\ Complete(wire)
  BY Inputs
<1>2. v \in Seq(Arg) /\ Len(v) = Len(wire.args)
  BY <1>1, DecodeType
<1>3. v = [i \in DOMAIN wire.args |-> DecodeArg(wire.args[i])]
  BY DEF DecodeOver
<1>4. Decode(wire).args = v /\ Decode(wire).task_id = r.task_id
  BY DEF Decode, DecodeOver
<1>5. wire.fn_name < SMALL_CMD_STR_LEN => Decode(wire).fn_name = r.fn_name
  <2>1. wire.fn_name \in Nat
    BY <1>1 DEF Wire
  <2>2. QED
    BY <2>1, SizeAssumption DEF Decode, DecodeOver, CopyText
<1> HIDE DEF v
<1>6. \A i \in DOMAIN v : v[i].type # "VOID_TYPE" /\ v[i].type # "LONG_TYPE"
  BY <1>3 DEF DecodeArg, Zeroed
<1>7. /\ Written(v) = DOMAIN v /\ Cardinality(Written(v)) = Len(v)
      /\ \A i \in DOMAIN v : Place(v, i) = i
  BY <1>2, <1>6, AllWritten
<1>8. \A i \in DOMAIN v : Arrives(v[i]) = v[i]
  BY <1>6 DEF Arrives
<1>9. r.buffer.nelems = Len(v)
  BY <1>1, <1>2 DEF Complete
<1>10. Agrees(g, r)
  BY <1>4, <1>5, <1>7, <1>8, <1>9 DEF Agrees, v
<1>11. QED
  BY <1>10

(* What is built from a message is a command that agrees with it.          *)
LEMMA DecodedCommand ==
  ASSUME NEW wire \in Message, NEW g, NEW a \in ArrayAddr \cup {NULL},
         Values(g, a) = Decode(wire).args, NEW r,
         r = [task_id |-> Decode(wire).task_id, fn_name |-> Decode(wire).fn_name,
              buffer |-> wire, args |-> a, refcount |-> 0, id |-> 0]
  PROVE  r \in Command /\ Agrees(g, r)
<1>1. 0 \in Text /\ wire \in Wire
  BY Inputs DEF Text
<1>2. Decode(wire) = DecodeOver(wire, 0)
  BY DEF Decode
<1>3. /\ Decode(wire).task_id \in uint64_t
      /\ Decode(wire).fn_name \in Text
  BY <1>1, <1>2, DecodeType
<1>4. 0 \in 0..MaxId
  BY BoundAssumption
<1>5. r \in Command
  BY <1>1, <1>3, <1>4 DEF Command
<1>6. /\ Values(g, r.args) = DecodeOver(wire, 0).args
      /\ r.task_id = DecodeOver(wire, 0).task_id
      /\ r.fn_name = DecodeOver(wire, 0).fn_name
      /\ r.buffer = wire
  BY <1>2
<1>7. Agrees(g, r)
  BY <1>1, <1>6, DecodedAgrees
<1>8. QED
  BY <1>5, <1>7

LEMMA FromDataStep ==
  ASSUME CInv, NEW wire \in Message, command_from_data(wire)
  PROVE  CInv'
<1> DEFINE v == Decode(wire).args
           a == DecodedArgs(v)
           c == CHOOSE c \in FreeCommands : TRUE
           r == [task_id |-> Decode(wire).task_id, fn_name |-> Decode(wire).fn_name,
                 buffer |-> wire, args |-> a, refcount |-> 0, id |-> 0]
<1>1. /\ Idle("handler") /\ FreeCommands # {} /\ Room(heap, v)
      /\ heap' = HeapWith(v)
      /\ NewCommand("handler", Decode(wire), wire, a)
      /\ UNCHANGED <<internals, refs, args, id, overwritten, reset>>
  BY DEF command_from_data
<1>2. v \in Seq(Arg)
  <2>1. 0 \in Text
    BY DEF Text
  <2>2. QED
    BY <2>1, Inputs, DecodeType DEF Decode
<1> HIDE DEF v
<1>3. /\ a \in (ArrayAddr \cup {NULL}) \ DOMAIN heap.array
      /\ DOMAIN heap'.array = DOMAIN heap.array \cup ({a} \ {NULL})
      /\ Values(heap', a) = v /\ Kept(heap, heap') /\ HeapOK(heap')
  <2>1. \/ a = NULL /\ v = <<>> /\ heap' = heap
        \/ a = NewAddr(heap) /\ heap' = Allocated(heap, v)
    BY <1>1 DEF DecodedArgs, HeapWith
  <2>2. HeapOK(heap) /\ Room(heap, v) /\ v \in Seq(Arg)
    BY <1>1, <1>2 DEF CInv
  <2> HIDE DEF a, r
  <2>3. QED
    BY <2>1, <2>2, AllocationIfAny
<1>4. c \in CommandAddr \ DOMAIN commands
  BY <1>1 DEF FreeCommands
<1>5. /\ commands' = Put(commands, c, r)
      /\ building' = [building EXCEPT !["handler"] = [cmd |-> c, id |-> id]]
  BY <1>1 DEF NewCommand, ReadId
<1> HIDE DEF a, c
<1>6. r \in Command /\ Agrees(heap', r)
  BY <1>3, DecodedCommand DEF v
<1>7. building["handler"].cmd = NULL /\ id < MaxId /\ "handler" \in Thread
  BY <1>1 DEF Idle, NotBuilding, Thread
<1>8. r.args = a
  OBVIOUS
<1> HIDE DEF r
<1>9. QED
  BY <1>1, <1>3, <1>4, <1>5, <1>6, <1>7, <1>8, NewCommandStep

(* What CommandRoundTrip says of one.                                       *)
LEMMA RoundTripOf ==
  ASSUME NEW all \in Fields, NEW v, all.args = v
  PROVE  /\ Encode(all).nelems = Len(v)
         /\ Len(Decode(Encode(all)).args) = Cardinality(Written(v))
         /\ \A i \in Written(v) :
              ArgFits(v[i]) => Decode(Encode(all)).args[Place(v, i)] = Arrives(v[i])
         /\ uint32(Decode(Encode(all)).task_id) = uint32(all.task_id)
         /\ all.fn_name < SMALL_CMD_STR_LEN
              => Decode(Encode(all)).fn_name = COPY_STRING(all.fn_name, SMALL_CMD_STR_LEN)
  BY CommandRoundTrip

(* What the node creates is a command that agrees with what it sends.      *)
LEMMA EncodedCommand ==
  ASSUME NEW all \in Fields, NEW g, NEW a \in ArrayAddr \cup {NULL},
         Values(g, a) = all.args, NEW r,
         r = [task_id |-> all.task_id,
              fn_name |-> COPY_STRING(all.fn_name, SMALL_CMD_STR_LEN),
              buffer |-> Encode(all), args |-> a, refcount |-> 0, id |-> 0]
  PROVE  r \in Command /\ Agrees(g, r)
<1>2. Encode(all) \in Wire
  BY EncodeType
<1>3. COPY_STRING(all.fn_name, SMALL_CMD_STR_LEN) \in Text
  <2>1. all.fn_name \in Nat /\ SMALL_CMD_STR_LEN \in Nat \ {0}
    BY SizeAssumption DEF Fields
  <2>2. QED
    BY <2>1 DEF COPY_STRING, Text
<1>4. all.task_id \in uint64_t /\ 0 \in 0..MaxId
  BY BoundAssumption DEF Fields
<1>5. r \in Command
  BY <1>2, <1>3, <1>4 DEF Command
<1>6. Encode(all).fn_name = all.fn_name
  BY DEF Encode
<1>7. Agrees(g, r)
  <2> DEFINE d == Decode(Encode(all))
             v == all.args
  <2>1. /\ Encode(all).nelems = Len(v)
        /\ Len(d.args) = Cardinality(Written(v))
        /\ \A i \in Written(v) : ArgFits(v[i]) => d.args[Place(v, i)] = Arrives(v[i])
        /\ uint32(d.task_id) = uint32(all.task_id)
        /\ all.fn_name < SMALL_CMD_STR_LEN
             => d.fn_name = COPY_STRING(all.fn_name, SMALL_CMD_STR_LEN)
    BY RoundTripOf
  <2> HIDE DEF d
  <2>2. /\ r.buffer = Encode(all) /\ r.args = a /\ r.task_id = all.task_id
        /\ r.fn_name = COPY_STRING(all.fn_name, SMALL_CMD_STR_LEN)
    OBVIOUS
  <2>3. QED
    BY <1>6, <2>1, <2>2 DEF Agrees, d
<1>8. QED
  BY <1>5, <1>7

(* Creating a command from the values that the array a has in h.           *)
LEMMA CreateStep ==
  ASSUME CInv, NEW fields \in Fields, NEW h, NEW a, NEW b,
         Values(h, a) \in Seq(Arg),
         b = (IF a = NULL THEN NULL ELSE NewAddr(h)),
         Create(fields, h, a),
         UNCHANGED args,
         HeapOK(heap'), Kept(heap, heap'),
         b \in (ArrayAddr \cup {NULL}) \ DOMAIN heap.array,
         DOMAIN heap'.array = DOMAIN heap.array \cup ({b} \ {NULL}),
         Values(heap', b) = Values(h, a)
  PROVE  CInv'
<1> DEFINE all == [fields EXCEPT !.args = Values(h, a)]
           name == COPY_STRING(fields.fn_name, SMALL_CMD_STR_LEN)
           c == CHOOSE c \in FreeCommands : TRUE
           r == [task_id |-> all.task_id, fn_name |-> name,
                 buffer |-> Encode(all), args |-> b, refcount |-> 0, id |-> 0]
<1>1. /\ Idle("processor") /\ FreeCommands # {}
      /\ NewCommand("processor", [all EXCEPT !.fn_name = name], Encode(all), b)
      /\ UNCHANGED <<internals, refs, id, overwritten, reset>>
  BY DEF Create
<1>2. all \in Fields /\ name \in Nat
  <2>1. fields.fn_name \in Nat /\ SMALL_CMD_STR_LEN \in Nat \ {0}
    BY SizeAssumption DEF Fields
  <2>2. QED
    BY <2>1 DEF COPY_STRING, Fields
<1>3. c \in CommandAddr \ DOMAIN commands
  BY <1>1 DEF FreeCommands
<1>4. /\ commands' = Put(commands, c, r)
      /\ building' = [building EXCEPT !["processor"] = [cmd |-> c, id |-> id]]
  <2> HIDE DEF all, name, c
  <2>1. /\ [all EXCEPT !.fn_name = name].task_id = all.task_id
        /\ [all EXCEPT !.fn_name = name].fn_name = name
    BY <1>2 DEF Fields
  <2>2. QED
    BY <1>1, <2>1 DEF NewCommand, ReadId, c
<1> HIDE DEF c
<1>5. r \in Command /\ Agrees(heap', r)
  <2>1. all.args = Values(h, a) /\ all.fn_name = fields.fn_name
    BY DEF Fields
  <2> HIDE DEF all
  <2>2. QED
    BY <1>2, <2>1, EncodedCommand
<1>6. building["processor"].cmd = NULL /\ id < MaxId /\ "processor" \in Thread
  BY <1>1 DEF Idle, NotBuilding, Thread
<1>7. r.args = b
  OBVIOUS
<1> HIDE DEF r
<1>8. QED
  BY <1>1, <1>3, <1>4, <1>5, <1>6, <1>7, NewCommandStep

LEMMA NewUsingArgStep ==
  ASSUME CInv, NEW fields \in Field, NEW a \in args \cup {NULL},
         command_new_using_arg(fields, a)
  PROVE  CInv'
<1> DEFINE v == Values(heap, a)
           b == IF a = NULL THEN NULL ELSE NewAddr(heap)
<1>1. /\ Room(heap, v)
      /\ heap' = IF a = NULL THEN heap ELSE Allocated(heap, v)
      /\ Create(fields, heap, a)
      /\ UNCHANGED args
  BY DEF command_new_using_arg, command_args_clone
<1>2. v \in Seq(Arg)
  <2>1. a # NULL => a \in DOMAIN heap.array
    BY DEF CInv, ArraysOwned
  <2>2. QED
    BY <2>1, ValuesTyped
<1>3. \/ b = NULL /\ v = <<>> /\ heap' = heap
      \/ b = NewAddr(heap) /\ heap' = Allocated(heap, v)
  BY <1>1 DEF Values
<1>4. HeapOK(heap) /\ fields \in Fields
  BY Inputs DEF CInv
<1>5. b = (IF a = NULL THEN NULL ELSE NewAddr(heap)) /\ v = Values(heap, a)
  OBVIOUS
<1> HIDE DEF v, b
<1>6. /\ b \in (ArrayAddr \cup {NULL}) \ DOMAIN heap.array
      /\ DOMAIN heap'.array = DOMAIN heap.array \cup ({b} \ {NULL})
      /\ Values(heap', b) = v /\ Kept(heap, heap') /\ HeapOK(heap')
  BY <1>1, <1>2, <1>3, <1>4, AllocationIfAny
<1>7. QED
  BY <1>1, <1>2, <1>4, <1>5, <1>6, CreateStep

LEMMA NewStep ==
  ASSUME CInv, NEW fields \in Field, command_new(fields)
  PROVE  CInv'
<1> DEFINE v == fields.args
           q == IF v = <<>> THEN NULL ELSE NewAddr(heap)
           h == HeapWith(v)
           b == IF q = NULL THEN NULL ELSE NewAddr(h)
           k == command_args_clone(h, q)
<1>1. /\ Room(heap, v) /\ Room(h, v)
      /\ heap' = IF q = NULL THEN h ELSE command_args_free(k, q)
      /\ Create(fields, h, q)
      /\ UNCHANGED args
  BY DEF command_new
<1>2. /\ fields \in Fields /\ v \in Seq(Arg) /\ HeapOK(heap)
      /\ \A x \in ArrayAddr : x # NULL
  BY Inputs, AddressesAreNotNull DEF CInv, ArrayAddr
<1>3. \/ q = NULL /\ v = <<>> /\ h = heap
      \/ q = NewAddr(heap) /\ h = Allocated(heap, v)
  BY DEF HeapWith
<1>4. b = (IF q = NULL THEN NULL ELSE NewAddr(h))
  OBVIOUS
<1>5. k = Allocated(h, Values(h, q))
  BY DEF command_args_clone
<1> HIDE DEF q, h, b, k, v
<1>6. /\ q \in (ArrayAddr \cup {NULL}) \ DOMAIN heap.array
      /\ DOMAIN h.array = DOMAIN heap.array \cup ({q} \ {NULL})
      /\ Values(h, q) = v /\ Kept(heap, h) /\ HeapOK(h)
  BY <1>1, <1>2, <1>3, AllocationIfAny
<1>7. CASE q = NULL
  <2>1. heap' = h /\ b = NULL
    BY <1>1, <1>4, <1>7
  <2>2. QED
    BY <1>1, <1>2, <1>4, <1>6, <1>7, <2>1, CreateStep
<1>8. CASE q # NULL
  <2>1. /\ b \in ArrayAddr \ DOMAIN h.array
        /\ DOMAIN k.array = DOMAIN h.array \cup {b}
        /\ Values(k, b) = v /\ Kept(h, k) /\ HeapOK(k)
    BY <1>1, <1>2, <1>4, <1>5, <1>6, <1>8, Allocation
  <2>2. q \in DOMAIN k.array /\ q # b
    BY <1>6, <1>8, <2>1
  <2>3. /\ DOMAIN heap'.array = DOMAIN k.array \ {q}
        /\ Kept(k, heap') /\ HeapOK(heap')
    BY <1>1, <1>8, <2>1, <2>2, Freeing
  <2>4. DOMAIN heap'.array = DOMAIN heap.array \cup ({b} \ {NULL})
    BY <1>2, <1>6, <1>8, <2>1, <2>2, <2>3
  <2>5. Values(heap', b) = v
    BY <2>1, <2>2, <2>3 DEF Kept
  <2>6. Kept(heap, heap')
    BY <1>6, <2>1, <2>2, <2>3 DEF Kept
  <2>7. b \in (ArrayAddr \cup {NULL}) \ DOMAIN heap.array
    BY <1>6, <2>1
  <2>8. QED
    BY <1>1, <1>2, <1>4, <1>6, <2>3, <2>4, <2>5, <2>6, <2>7, CreateStep
<1>9. QED
  BY <1>7, <1>8

(* The array that the command had is nobody's from now on; its count stays *)
(* until the creation ends.                                                *)
LEMMA InplaceStep ==
  ASSUME CInv, NEW c \in DOMAIN commands, NEW wire \in Message,
         command_from_data_inplace(c, wire)
  PROVE  CInv'
<1> DEFINE decoded == DecodeOver(wire, commands[c].fn_name)
           v == decoded.args
           a == DecodedArgs(v)
           r == commands'[c]
<1>1. /\ Idle("processor") /\ refs[c] > 0 /\ Room(heap, v)
      /\ heap' = HeapWith(v)
      /\ overwritten' = IF commands[c].args = NULL THEN overwritten
                        ELSE overwritten \cup {commands[c].args}
      /\ commands' = [commands EXCEPT
           ![c].task_id = decoded.task_id, ![c].fn_name = decoded.fn_name,
           ![c].buffer = wire, ![c].args = a]
      /\ reset' = IF commands[c].refcount > 1 THEN reset \cup {c} ELSE reset
      /\ building' = [building EXCEPT !["processor"] = [cmd |-> c, id |-> id]]
      /\ UNCHANGED <<internals, refs, args, id>>
  BY DEF command_from_data_inplace, ReadId
<1>2. /\ OtherTypes
      /\ DOMAIN commands \subseteq CommandAddr
      /\ commands \in [DOMAIN commands -> Command]
      /\ refs \in [CommandAddr -> 0..3]
      /\ id \in 1..MaxId
      /\ building \in [Thread -> [cmd : CommandAddr \cup {NULL}, id : 0..MaxId]]
  BY TypesOK DEF CInv
<1>3. /\ CommandTypeOK /\ HeapOK(heap) /\ ArraysOwned /\ CommandsCounted
      /\ BufferAgrees
  BY DEF CInv
<1>4. /\ wire \in Wire /\ decoded.task_id \in uint64_t
      /\ decoded.fn_name \in Text /\ v \in Seq(Arg)
  <2>1. commands[c].fn_name \in Text
    BY <1>2 DEF Command
  <2>2. QED
    BY <2>1, Inputs, DecodeType
<1> HIDE DEF v, decoded
<1>5. /\ a \in (ArrayAddr \cup {NULL}) \ DOMAIN heap.array
      /\ DOMAIN heap'.array = DOMAIN heap.array \cup ({a} \ {NULL})
      /\ Values(heap', a) = v /\ Kept(heap, heap') /\ HeapOK(heap')
  <2>1. \/ a = NULL /\ v = <<>> /\ heap' = heap
        \/ a = NewAddr(heap) /\ heap' = Allocated(heap, v)
    BY <1>1 DEF DecodedArgs, HeapWith
  <2>2. HeapOK(heap) /\ Room(heap, v) /\ v \in Seq(Arg)
    BY <1>1, <1>3, <1>4
  <2> HIDE DEF a
  <2>3. QED
    BY <2>1, <2>2, AllocationIfAny
<1> HIDE DEF a
<1>6. /\ r.args = a /\ r.buffer = wire /\ r.task_id = decoded.task_id
      /\ r.fn_name = decoded.fn_name /\ r.refcount = commands[c].refcount
      /\ r \in Command
  <2>1. commands[c] \in Command
    BY <1>2
  <2>2. r = [commands[c] EXCEPT !.task_id = decoded.task_id,
               !.fn_name = decoded.fn_name, !.buffer = wire, !.args = a]
    BY <1>1
  <2> HIDE DEF r
  <2>3. QED
    BY <1>4, <1>5, <2>1, <2>2 DEF Command
<1>7. Agrees(heap', r)
  <2>1. commands[c].fn_name \in Text
    BY <1>2 DEF Command
  <2> HIDE DEF r
  <2>2. Values(heap', r.args) = decoded.args
    BY <1>5, <1>6 DEF v
  <2>3. QED
    BY <1>6, <2>1, <2>2, DecodedAgrees DEF decoded
<1> HIDE DEF r
<1>8. /\ DOMAIN commands' = DOMAIN commands /\ commands'[c] = r
      /\ \A d \in DOMAIN commands : d # c => commands'[d] = commands[d]
  BY <1>1 DEF r
<1>9. CommandTypeOK'
  <2>1. OtherTypes'
    <3>1. reset' \subseteq CommandAddr
      BY <1>1, <1>2 DEF OtherTypes
    <3>2. QED
      BY <1>1, <1>2, <1>5, <3>1 DEF OtherTypes, HeapOK
  <2>2. commands' \in [DOMAIN commands' -> Command]
    <3>1. \A d \in DOMAIN commands' : commands'[d] \in Command
      BY <1>2, <1>6, <1>8
    <3>2. commands' = [d \in DOMAIN commands' |-> commands'[d]]
      BY <1>1, <1>2
    <3>3. QED
      BY <3>1, <3>2
  <2>3. id \in 0..MaxId
    BY <1>2, BoundAssumption
  <2>4. building' \in [Thread -> [cmd : CommandAddr \cup {NULL}, id : 0..MaxId]]
    BY <1>1, <1>2, <2>3
  <2>5. QED
    BY <1>1, <1>2, <1>8, <2>1, <2>2, <2>4 DEF CommandTypeOK, OtherTypes
<1>10. ArraysOwned'
  <2>1. r.args \notin ArgsOf(commands)
    BY <1>3, <1>5, <1>6 DEF ArraysOwned
  <2>2. /\ ArgsOf(commands')
             = (ArgsOf(commands) \ {commands[c].args}) \cup ({r.args} \ {NULL})
        /\ OneOwner(commands')
    BY <1>3, <1>8, <2>1, ReplacedOwner DEF ArraysOwned
  <2>3. /\ internals' = internals /\ args' = args
        /\ overwritten' = overwritten \cup (ArgsOf(commands) \cap {commands[c].args})
    BY <1>1 DEF ArgsOf
  <2>4. DOMAIN heap'.array
          = ArgsOf(commands') \cup ArgsOf(internals') \cup args' \cup overwritten'
    BY <1>3, <1>5, <1>6, <2>2, <2>3 DEF ArraysOwned
  <2>5. {r.args} \cap DOMAIN heap.array = {}
    BY <1>5, <1>6
  <2>6. /\ ArgsOf(commands') \cap ArgsOf(internals') = {}
        /\ ArgsOf(commands') \cap args' = {}
    BY <1>3, <2>2, <2>3, <2>5 DEF ArraysOwned
  <2>7. ArgsOf(commands') \cap overwritten' = {}
    BY <1>3, <2>2, <2>3, <2>5 DEF ArraysOwned
  <2>8. /\ ArgsOf(internals') \cap args' = {}
        /\ ArgsOf(internals') \cap overwritten' = {}
        /\ args' \cap overwritten' = {}
        /\ OneOwner(internals')
    BY <1>3, <2>3 DEF ArraysOwned
  <2>9. QED
    BY <2>2, <2>4, <2>6, <2>7, <2>8 DEF ArraysOwned
<1>11. CommandsCounted'
  <2>1. c \in CommandAddr /\ c # NULL
    BY <1>2, AddressesAreNotNull DEF CommandAddr
  <2>2. /\ building["processor"].cmd = NULL /\ id < MaxId
        /\ Thread = {"handler", "processor"}
    BY <1>1 DEF Idle, NotBuilding, Thread
  <2>3. /\ building'["processor"].cmd = c /\ building'["processor"].id = id
        /\ building'["handler"] = building["handler"]
    BY <1>1, <1>2, <2>2
  <2>4. BuildsOK(building, refs, reset, "handler")
    BY <1>3, <2>2 DEF CommandsCounted
  <2>5. building["handler"].cmd # c
    BY <1>1, <2>1, <2>4 DEF BuildsOK
  <2>6. /\ reset \subseteq reset' /\ reset' \subseteq reset \cup {c}
        /\ c \notin reset' => commands[c].refcount <= 1 /\ c \notin reset
    <3>1. commands[c].refcount \in 0..3
      BY <1>2 DEF Command
    <3>2. QED
      BY <1>1, <3>1
  <2>7. /\ commands[c].refcount \in 1..refs[c]
        /\ c \notin reset => commands[c].refcount = refs[c]
    BY <1>1, <1>3, <2>1 DEF CommandsCounted, RefcountExact
  <2>8. RefcountExact'
    <3> SUFFICES ASSUME NEW d \in CommandAddr, refs[d] > 0
                 PROVE  /\ d \in DOMAIN commands'
                        /\ commands'[d].refcount \in 1..refs[d]
                        /\ d \notin reset' => commands'[d].refcount = refs[d]
      BY <1>1 DEF RefcountExact
    <3>1. /\ d \in DOMAIN commands /\ commands[d].refcount \in 1..refs[d]
          /\ d \notin reset => commands[d].refcount = refs[d]
      BY <1>3 DEF CommandsCounted, RefcountExact
    <3>2. commands'[d].refcount = commands[d].refcount
      BY <1>6, <1>8, <3>1
    <3>3. QED
      BY <1>8, <2>6, <3>1, <3>2
  <2>9. ASSUME NEW d \in CommandAddr
        PROVE  d \in DOMAIN commands'
                 <=> (refs'[d] > 0 \/ \E u \in Thread : building'[u].cmd = d)
    <3>1. CASE d = c
      BY <1>8, <2>2, <2>3, <3>1
    <3>2. CASE d # c
      <4>1. d # NULL
        BY AddressesAreNotNull DEF CommandAddr
      <4>2. \A u \in Thread : building'[u].cmd = d <=> building[u].cmd = d
        BY <2>2, <2>3, <3>2, <4>1
      <4>3. d \in DOMAIN commands
              <=> (refs[d] > 0 \/ \E u \in Thread : building[u].cmd = d)
        BY <1>3 DEF CommandsCounted
      <4>4. QED
        BY <1>1, <1>8, <3>2, <4>2, <4>3
    <3>3. QED
      BY <3>1, <3>2
  <2>10. BuildsOK(building', refs', reset', "handler")
    BY <1>1, <2>2, <2>3, <2>4, <2>5, <2>6 DEF BuildsOK
  <2>11. BuildsOK(building', refs', reset', "processor")
    <3>1. id \in 1..(MaxId - 1)
      BY <1>2, <2>2, BoundAssumption
    <3>2. refs[c] = 1 \/ c \in reset'
      <4>1. refs[c] \in 0..3
        BY <1>2, <2>1
      <4>2. QED
        BY <2>6, <2>7, <4>1
    <3>3. refs' = refs
      BY <1>1
    <3>4. QED
      BY <2>1, <2>2, <2>3, <2>5, <3>1, <3>2, <3>3 DEF BuildsOK
  <2>12. QED
    BY <2>2, <2>8, <2>9, <2>10, <2>11 DEF CommandsCounted
<1>12. BufferAgrees'
  <2> SUFFICES ASSUME NEW d \in DOMAIN commands'
               PROVE  Agrees(heap', commands'[d])
    BY DEF BufferAgrees
  <2>1. CASE d = c
    BY <1>7, <1>8, <2>1
  <2>2. CASE d # c
    <3>1. Agrees(heap, commands[d]) /\ commands'[d] = commands[d]
      BY <1>3, <1>8, <2>2 DEF BufferAgrees
    <3>2. commands[d].args # NULL
            => commands[d].args \in DOMAIN heap.array \cap DOMAIN heap'.array
      BY <1>5, <1>8, ArgsExist
    <3>3. QED
      BY <1>5, <3>1, <3>2, KeptAgrees
  <2>3. QED
    BY <2>1, <2>2
<1>13. QED
  BY <1>5, <1>9, <1>10, <1>11, <1>12 DEF CInv

(* The second half of a creation: the id is stored and the caller holds    *)
(* the command.                                                            *)
LEMMA StoreIdStep ==
  ASSUME CInv, NEW t \in Thread, StoreId(t)
  PROVE  CInv'
<1> DEFINE c == building[t].cmd
<1>1. /\ c # NULL
      /\ id' = building[t].id + 1
      /\ commands' = [commands EXCEPT ![c].id = building[t].id, ![c].refcount = 1]
      /\ refs' = [refs EXCEPT ![c] = IF refs[c] = 0 THEN 1 ELSE refs[c]]
      /\ building' = [building EXCEPT ![t] = NotBuilding]
      /\ UNCHANGED <<internals, heap, args, overwritten, reset>>
  BY DEF StoreId
<1>2. /\ CommandTypeOK /\ HeapOK(heap) /\ ArraysOwned /\ CommandsCounted
      /\ BufferAgrees
  BY DEF CInv
<1>3. /\ OtherTypes
      /\ DOMAIN commands \subseteq CommandAddr
      /\ commands \in [DOMAIN commands -> Command]
      /\ refs \in [CommandAddr -> 0..3]
      /\ id \in 1..MaxId
      /\ building \in [Thread -> [cmd : CommandAddr \cup {NULL}, id : 0..MaxId]]
  BY <1>2, TypesOK
<1>4. c \in CommandAddr
  BY <1>1, <1>3
<1>5. /\ c \in DOMAIN commands
      /\ building[t].id \in 1..(MaxId - 1)
      /\ \A u \in Thread : building[u].cmd = c => u = t
      /\ refs[c] > 0 => refs[c] = 1 \/ c \in reset
  <2>1. BuildsOK(building, refs, reset, t)
    BY <1>2 DEF CommandsCounted
  <2>2. QED
    BY <1>1, <1>2, <1>4, <2>1 DEF CommandsCounted, BuildsOK
<1>6. building[t].id \in 0..MaxId /\ building[t].id + 1 \in 1..MaxId
  BY <1>5, BoundAssumption
<1>7. c # NULL /\ building'[t].cmd = NULL
      /\ \A u \in Thread : u # t => building'[u] = building[u]
  BY <1>1, <1>3 DEF NotBuilding
<1> HIDE DEF c
<1>8. commands[c] \in Command
  BY <1>3, <1>5
<1>9. /\ DOMAIN commands' = DOMAIN commands
      /\ \A d \in DOMAIN commands : d # c => commands'[d] = commands[d]
      /\ commands'[c] = [commands[c] EXCEPT !.id = building[t].id, !.refcount = 1]
  BY <1>1, <1>3, <1>5
<1>10. /\ commands'[c] \in Command /\ commands'[c].refcount = 1
       /\ commands'[c].args = commands[c].args
       /\ commands'[c].buffer = commands[c].buffer
       /\ commands'[c].task_id = commands[c].task_id
       /\ commands'[c].fn_name = commands[c].fn_name
  <2>1. building[t].id \in 0..MaxId /\ 1 \in 0..3
    BY <1>6
  <2>2. PICK i \in 0..MaxId, n \in 0..3 : i = building[t].id /\ n = 1
    BY <2>1
  <2>3. commands'[c] = [commands[c] EXCEPT !.id = i, !.refcount = n]
    BY <1>9, <2>2
  <2>4. /\ commands'[c] \in Command /\ commands'[c].refcount = n
        /\ commands'[c].args = commands[c].args
        /\ commands'[c].buffer = commands[c].buffer
        /\ commands'[c].task_id = commands[c].task_id
        /\ commands'[c].fn_name = commands[c].fn_name
    BY <1>8, <2>3 DEF Command
  <2>5. QED
    BY <2>2, <2>4
<1>11. /\ refs'[c] \in 1..3
       /\ c \notin reset => refs'[c] = 1
       /\ \A d \in CommandAddr : d # c => refs'[d] = refs[d]
  <2>1. refs[c] \in 0..3 /\ refs'[c] = IF refs[c] = 0 THEN 1 ELSE refs[c]
    BY <1>1, <1>3, <1>4
  <2>2. refs[c] = 0 \/ refs[c] > 0
    BY <2>1
  <2>3. QED
    BY <1>1, <1>3, <1>4, <1>5, <2>1, <2>2
<1>12. CommandTypeOK'
  <2>1. OtherTypes'
    BY <1>1, <1>3 DEF OtherTypes
  <2>2. commands' \in [DOMAIN commands' -> Command]
    <3>1. \A d \in DOMAIN commands' : commands'[d] \in Command
      BY <1>3, <1>9, <1>10
    <3>2. commands' = [d \in DOMAIN commands' |-> commands'[d]]
      BY <1>1, <1>3
    <3>3. QED
      BY <3>1, <3>2
  <2>3. building' \in [Thread -> [cmd : CommandAddr \cup {NULL}, id : 0..MaxId]]
    <3>1. NotBuilding \in [cmd : CommandAddr \cup {NULL}, id : 0..MaxId]
      BY BoundAssumption DEF NotBuilding
    <3>2. QED
      BY <1>1, <1>3, <3>1
  <2>4. refs' \in [CommandAddr -> 0..3]
    <3>1. (IF refs[c] = 0 THEN 1 ELSE refs[c]) \in 0..3
      BY <1>3, <1>4
    <3>2. refs' = [refs EXCEPT ![c] = IF refs[c] = 0 THEN 1 ELSE refs[c]]
      BY <1>1
    <3>3. QED
      BY <1>3, <3>1, <3>2, ExceptType
  <2>5. QED
    BY <1>1, <1>3, <1>6, <1>9, <2>1, <2>2, <2>3, <2>4 DEF CommandTypeOK, OtherTypes
<1>13. ArraysOwned'
  <2>1. ArgsOf(commands') = ArgsOf(commands) /\ OneOwner(commands')
    BY <1>2, <1>9, <1>10, SameOwner DEF ArraysOwned
  <2>2. QED
    BY <1>1, <1>2, <2>1 DEF ArraysOwned
<1>14. CommandsCounted'
  <2>1. RefcountExact'
    <3>1. ASSUME NEW d \in CommandAddr, refs'[d] > 0, d # c
          PROVE  /\ d \in DOMAIN commands' /\ commands'[d].refcount \in 1..refs'[d]
                 /\ d \notin reset' => commands'[d].refcount = refs'[d]
      <4>1. refs'[d] = refs[d] /\ refs[d] > 0 /\ reset' = reset
        BY <1>1, <1>11, <3>1
      <4>2. /\ d \in DOMAIN commands /\ commands[d].refcount \in 1..refs[d]
            /\ d \notin reset => commands[d].refcount = refs[d]
        BY <1>2, <4>1 DEF CommandsCounted, RefcountExact
      <4>3. QED
        BY <1>9, <3>1, <4>1, <4>2
    <3>2. /\ c \in DOMAIN commands' /\ commands'[c].refcount \in 1..refs'[c]
          /\ c \notin reset' => commands'[c].refcount = refs'[c]
      BY <1>1, <1>5, <1>9, <1>10, <1>11
    <3>3. QED
      BY <3>1, <3>2 DEF RefcountExact
  <2>2. ASSUME NEW d \in CommandAddr
        PROVE  d \in DOMAIN commands'
                 <=> (refs'[d] > 0 \/ \E u \in Thread : building'[u].cmd = d)
    <3>1. CASE d = c
      BY <1>5, <1>9, <1>11, <3>1
    <3>2. CASE d # c
      <4>1. d # NULL
        BY AddressesAreNotNull DEF CommandAddr
      <4>2. \A u \in Thread : building'[u].cmd = d <=> building[u].cmd = d
        BY <1>7, <3>2, <4>1 DEF c
      <4>3. d \in DOMAIN commands
              <=> (refs[d] > 0 \/ \E u \in Thread : building[u].cmd = d)
        BY <1>2 DEF CommandsCounted
      <4>4. QED
        BY <1>9, <1>11, <3>2, <4>2, <4>3
    <3>3. QED
      BY <3>1, <3>2
  <2>3. ASSUME NEW u \in Thread
        PROVE  BuildsOK(building', refs', reset', u)
    <3>1. CASE u = t
      BY <1>7, <3>1 DEF BuildsOK
    <3>2. CASE u # t
      <4>1. building'[u] = building[u] /\ building[u].cmd # c /\ reset' = reset
        BY <1>1, <1>5, <1>7, <3>2
      <4>2. building[u].cmd \in CommandAddr \cup {NULL}
        BY <1>3
      <4>3. BuildsOK(building, refs, reset, u)
        BY <1>2 DEF CommandsCounted
      <4>4. building[u].cmd # NULL => refs'[building[u].cmd] = refs[building[u].cmd]
        BY <1>11, <4>1, <4>2
      <4>5. QED
        BY <1>7, <4>1, <4>3, <4>4 DEF BuildsOK
    <3>3. QED
      BY <3>1, <3>2
  <2>4. QED
    BY <2>1, <2>2, <2>3 DEF CommandsCounted
<1>15. BufferAgrees'
  <2>1. Kept(heap, heap')
    BY <1>1 DEF Kept
  <2>2. QED
    BY <1>1, <1>9, <1>10, <2>1, ArgsExist, BuffersKept
<1>16. HeapOK(heap')
  BY <1>1, <1>2
<1>17. QED
  BY <1>12, <1>13, <1>14, <1>15, <1>16 DEF CInv

(* While the processor creates nothing, nobody creates what is held.       *)
LEMMA NotBuiltBy ==
  ASSUME CommandsCounted, building["processor"] = NotBuilding,
         NEW c \in CommandAddr, refs[c] > 0
  PROVE  \A u \in Thread : building[u].cmd # c
<1>1. c # NULL
  BY AddressesAreNotNull DEF CommandAddr
<1>2. building["processor"].cmd # c
  BY <1>1 DEF NotBuilding
<1>3. building["handler"].cmd # c
  BY <1>1 DEF CommandsCounted, BuildsOK, Thread
<1>4. QED
  BY <1>2, <1>3 DEF Thread

(* One more reference: the command is there, its count one higher.         *)
LEMMA HoldStep ==
  ASSUME CInv, building["processor"] = NotBuilding,
         NEW c \in DOMAIN commands, command_hold(c)
  PROVE  CInv'
<1>1. /\ refs[c] \in 1..2
      /\ commands' = [commands EXCEPT ![c].refcount = commands[c].refcount + 1]
      /\ refs' = [refs EXCEPT ![c] = refs[c] + 1]
      /\ UNCHANGED <<internals, heap, args, id, building, overwritten, reset>>
  BY DEF command_hold, Held
<1>2. /\ CommandTypeOK /\ HeapOK(heap) /\ ArraysOwned /\ CommandsCounted
      /\ BufferAgrees
  BY DEF CInv
<1>3. /\ OtherTypes
      /\ DOMAIN commands \subseteq CommandAddr
      /\ commands \in [DOMAIN commands -> Command]
      /\ refs \in [CommandAddr -> 0..3]
      /\ id \in 1..MaxId
      /\ building \in [Thread -> [cmd : CommandAddr \cup {NULL}, id : 0..MaxId]]
  BY <1>2, TypesOK
<1>4. /\ c \in CommandAddr /\ commands[c] \in Command
      /\ commands[c].refcount \in 1..refs[c]
      /\ c \notin reset => commands[c].refcount = refs[c]
  BY <1>1, <1>2, <1>3 DEF CommandsCounted, RefcountExact
<1>5. /\ DOMAIN commands' = DOMAIN commands
      /\ \A d \in DOMAIN commands : d # c => commands'[d] = commands[d]
      /\ commands'[c] = [commands[c] EXCEPT !.refcount = commands[c].refcount + 1]
  BY <1>1, <1>3
<1>6. /\ commands'[c] \in Command /\ commands'[c].refcount = commands[c].refcount + 1
      /\ commands'[c].args = commands[c].args
      /\ commands'[c].buffer = commands[c].buffer
      /\ commands'[c].task_id = commands[c].task_id
      /\ commands'[c].fn_name = commands[c].fn_name
  BY <1>1, <1>4, <1>5 DEF Command
<1>7. /\ refs'[c] = refs[c] + 1 /\ refs'[c] \in 2..3
      /\ \A d \in CommandAddr : d # c => refs'[d] = refs[d]
  BY <1>1, <1>3, <1>4
<1>8. CommandTypeOK'
  <2>1. OtherTypes'
    BY <1>1, <1>3 DEF OtherTypes
  <2>2. commands' \in [DOMAIN commands' -> Command]
    <3>1. \A d \in DOMAIN commands' : commands'[d] \in Command
      BY <1>3, <1>5, <1>6
    <3>2. commands' = [d \in DOMAIN commands' |-> commands'[d]]
      BY <1>1, <1>3
    <3>3. QED
      BY <3>1, <3>2
  <2>3. refs' \in [CommandAddr -> 0..3]
    BY <1>1, <1>3
  <2>4. QED
    BY <1>1, <1>3, <1>5, <2>1, <2>2, <2>3 DEF CommandTypeOK, OtherTypes
<1>9. ArraysOwned'
  <2>1. ArgsOf(commands') = ArgsOf(commands) /\ OneOwner(commands')
    BY <1>2, <1>5, <1>6, SameOwner DEF ArraysOwned
  <2>2. QED
    BY <1>1, <1>2, <2>1 DEF ArraysOwned
<1>10. CommandsCounted'
  <2>1. RefcountExact'
    BY <1>1, <1>2, <1>4, <1>5, <1>6, <1>7 DEF CommandsCounted, RefcountExact
  <2>2. \A u \in Thread : building[u].cmd # c
    BY <1>1, <1>2, <1>4, NotBuiltBy
  <2>3. \A d \in CommandAddr : refs'[d] > 0 <=> refs[d] > 0
    BY <1>1, <1>7
  <2>4. \A d \in CommandAddr : d \in DOMAIN commands'
          <=> (refs'[d] > 0 \/ \E u \in Thread : building'[u].cmd = d)
    BY <1>1, <1>2, <1>5, <2>3 DEF CommandsCounted
  <2>5. ASSUME NEW u \in Thread
        PROVE  BuildsOK(building', refs', reset', u)
    <3>1. /\ building' = building /\ reset' = reset /\ building[u].cmd # c
          /\ building[u].cmd \in CommandAddr \cup {NULL}
      BY <1>1, <1>3, <2>2
    <3>2. BuildsOK(building, refs, reset, u)
      BY <1>2 DEF CommandsCounted
    <3>3. building[u].cmd # NULL => refs'[building[u].cmd] = refs[building[u].cmd]
      BY <1>7, <3>1
    <3>4. QED
      BY <3>1, <3>2, <3>3 DEF BuildsOK
  <2>6. QED
    BY <2>1, <2>4, <2>5 DEF CommandsCounted
<1>11. BufferAgrees'
  <2>1. Kept(heap, heap')
    BY <1>1 DEF Kept
  <2>2. QED
    BY <1>1, <1>5, <1>6, <2>1, ArgsExist, BuffersKept
<1>12. HeapOK(heap')
  BY <1>1, <1>2
<1>13. QED
  BY <1>8, <1>9, <1>10, <1>11, <1>12 DEF CInv

(* One reference less; the last one frees the command and its arguments,   *)
(* and nothing else.                                                       *)
LEMMA FreeStep ==
  ASSUME CInv, building["processor"] = NotBuilding,
         NEW c \in DOMAIN commands, command_free(c)
  PROVE  CInv'
<1> DEFINE rest == commands[c].refcount - 1
<1>1. /\ refs[c] > 0
      /\ UNCHANGED <<internals, args, id, building, overwritten>>
  BY DEF command_free
<1>2. /\ CommandTypeOK /\ HeapOK(heap) /\ ArraysOwned /\ CommandsCounted
      /\ BufferAgrees
  BY DEF CInv
<1>3. /\ OtherTypes
      /\ DOMAIN commands \subseteq CommandAddr
      /\ commands \in [DOMAIN commands -> Command]
      /\ refs \in [CommandAddr -> 0..3]
      /\ id \in 1..MaxId
      /\ building \in [Thread -> [cmd : CommandAddr \cup {NULL}, id : 0..MaxId]]
  BY <1>2, TypesOK
<1>4. /\ c \in CommandAddr /\ commands[c] \in Command
      /\ refs[c] \in 1..3 /\ commands[c].refcount \in 1..refs[c]
      /\ c \notin reset => commands[c].refcount = refs[c]
  <2>1. c \in CommandAddr /\ refs[c] \in 0..3
    BY <1>3
  <2>2. QED
    BY <1>1, <1>2, <1>3, <2>1 DEF CommandsCounted, RefcountExact
<1>5. \A u \in Thread : building[u].cmd # c
  BY <1>1, <1>2, <1>4, NotBuiltBy
<1>6. /\ refs' \in [CommandAddr -> 0..3] /\ reset' \subseteq CommandAddr
      /\ \A d \in CommandAddr : d # c => refs'[d] = refs[d]
      /\ \A d \in CommandAddr : d # c => (d \in reset' <=> d \in reset)
      /\ IF rest > 0 THEN refs'[c] = refs[c] - 1 /\ reset' = reset ELSE refs'[c] = 0
  <2>1. reset \subseteq CommandAddr
    BY <1>3 DEF OtherTypes
  <2>2. CASE rest > 0
    <3>1. refs' = [refs EXCEPT ![c] = refs[c] - 1] /\ reset' = reset
      BY <2>2 DEF command_free
    <3>2. refs[c] - 1 \in 0..3
      BY <1>4
    <3>3. QED
      BY <1>3, <1>4, <2>1, <2>2, <3>1, <3>2, ExceptType
  <2>3. CASE ~(rest > 0)
    <3>1. PICK n \in 0..3 : n = 0
      OBVIOUS
    <3>2. refs' = [refs EXCEPT ![c] = n] /\ reset' = reset \ {c}
      BY <2>3, <3>1 DEF command_free
    <3>3. refs' \in [CommandAddr -> 0..3] /\ refs'[c] = n
          /\ \A d \in CommandAddr : d # c => refs'[d] = refs[d]
      BY <1>3, <1>4, <3>2
    <3>4. QED
      BY <2>1, <2>3, <3>1, <3>2, <3>3
  <2>4. QED
    BY <2>2, <2>3
<1>7. ASSUME NEW u \in Thread
      PROVE  BuildsOK(building', refs', reset', u)
  <2>1. /\ building' = building /\ building[u].cmd # c
        /\ building[u].cmd \in CommandAddr \cup {NULL}
    BY <1>1, <1>3, <1>5
  <2>2. BuildsOK(building, refs, reset, u)
    BY <1>2 DEF CommandsCounted
  <2>3. building[u].cmd # NULL =>
          /\ refs'[building[u].cmd] = refs[building[u].cmd]
          /\ building[u].cmd \in reset' <=> building[u].cmd \in reset
    BY <1>6, <2>1
  <2>4. QED
    BY <2>1, <2>2, <2>3 DEF BuildsOK
<1>8. CASE rest > 0
  <2>1. commands' = [commands EXCEPT ![c].refcount = commands[c].refcount - 1]
        /\ heap' = heap
    BY <1>8 DEF command_free
  <2>2. /\ DOMAIN commands' = DOMAIN commands
        /\ \A d \in DOMAIN commands : d # c => commands'[d] = commands[d]
        /\ commands'[c] = [commands[c] EXCEPT !.refcount = commands[c].refcount - 1]
    BY <1>3, <2>1
  <2>3. /\ commands'[c] \in Command /\ commands'[c].refcount = commands[c].refcount - 1
        /\ commands'[c].args = commands[c].args
        /\ commands'[c].buffer = commands[c].buffer
        /\ commands'[c].task_id = commands[c].task_id
        /\ commands'[c].fn_name = commands[c].fn_name
    BY <1>3, <1>4, <1>8, <2>2 DEF Command
  <2>4. CommandTypeOK'
    <3>1. OtherTypes'
      BY <1>1, <1>3, <1>6, <2>1 DEF OtherTypes
    <3>2. commands' \in [DOMAIN commands' -> Command]
      <4>1. \A d \in DOMAIN commands' : commands'[d] \in Command
        BY <1>3, <2>2, <2>3
      <4>2. commands' = [d \in DOMAIN commands' |-> commands'[d]]
        BY <1>3, <2>1
      <4>3. QED
        BY <4>1, <4>2
    <3>3. QED
      BY <1>1, <1>3, <1>6, <2>2, <3>1, <3>2 DEF CommandTypeOK, OtherTypes
  <2>5. ArraysOwned'
    <3>1. ArgsOf(commands') = ArgsOf(commands) /\ OneOwner(commands')
      BY <1>2, <2>2, <2>3, SameOwner DEF ArraysOwned
    <3>2. QED
      BY <1>1, <1>2, <2>1, <3>1 DEF ArraysOwned
  <2>6. CommandsCounted'
    <3>1. RefcountExact'
      <4>1. /\ commands'[c].refcount \in 1..refs'[c]
            /\ c \notin reset' => commands'[c].refcount = refs'[c]
        BY <1>4, <1>6, <1>8, <2>3
      <4>2. ASSUME NEW d \in CommandAddr, refs'[d] > 0, d # c
            PROVE  /\ d \in DOMAIN commands' /\ commands'[d].refcount \in 1..refs'[d]
                   /\ d \notin reset' => commands'[d].refcount = refs'[d]
        BY <1>2, <1>6, <2>2, <4>2 DEF CommandsCounted, RefcountExact
      <4>3. QED
        BY <2>2, <4>1, <4>2 DEF RefcountExact
    <3>2. \A d \in CommandAddr : refs'[d] > 0 <=> refs[d] > 0
      BY <1>1, <1>4, <1>6, <1>8
    <3>3. \A d \in CommandAddr : d \in DOMAIN commands'
            <=> (refs'[d] > 0 \/ \E u \in Thread : building'[u].cmd = d)
      BY <1>1, <1>2, <2>2, <3>2 DEF CommandsCounted
    <3>4. QED
      BY <1>7, <3>1, <3>3 DEF CommandsCounted
  <2>7. BufferAgrees'
    <3>1. Kept(heap, heap')
      BY <2>1 DEF Kept
    <3>2. QED
      BY <2>1, <2>2, <2>3, <3>1, ArgsExist, BuffersKept
  <2>8. QED
    BY <1>2, <2>1, <2>4, <2>5, <2>6, <2>7 DEF CInv
<1>9. CASE ~(rest > 0)
  <2>1. commands' = Without(commands, {c}) /\ heap' = FreedIfAny(heap, commands[c].args)
    BY <1>9 DEF command_free
  <2>2. /\ DOMAIN commands' = DOMAIN commands \ {c}
        /\ \A d \in DOMAIN commands' : commands'[d] = commands[d]
    BY <2>1 DEF Without, Restrict
  <2>3. refs'[c] = 0
    BY <1>6, <1>9
  <2>4. /\ DOMAIN heap'.array = DOMAIN heap.array \ {commands[c].args}
        /\ Kept(heap, heap') /\ HeapOK(heap')
    <3>1. CASE commands[c].args = NULL
      <4>1. heap' = heap
        BY <2>1, <3>1 DEF FreedIfAny
      <4>2. NULL \notin DOMAIN heap.array
        BY <1>3, AddressesAreNotNull DEF OtherTypes, ArrayAddr
      <4>3. QED
        BY <1>2, <3>1, <4>1, <4>2 DEF Kept
    <3>2. CASE commands[c].args # NULL
      <4>1. heap' = command_args_free(heap, commands[c].args)
        BY <2>1, <3>2 DEF FreedIfAny
      <4>2. commands[c].args \in DOMAIN heap.array
        BY <3>2, ArgsExist
      <4>3. QED
        BY <1>2, <4>1, <4>2, Freeing
    <3>3. QED
      BY <3>1, <3>2
  <2>5. CommandTypeOK'
    <3>1. OtherTypes'
      BY <1>1, <1>3, <1>6, <2>4 DEF OtherTypes, HeapOK
    <3>2. commands' \in [DOMAIN commands' -> Command]
      BY <1>3, <2>1, WithoutType
    <3>3. QED
      BY <1>1, <1>3, <1>6, <2>2, <3>1, <3>2 DEF CommandTypeOK, OtherTypes
  <2>6. /\ ArgsOf(commands') = ArgsOf(commands) \ {commands[c].args}
        /\ OneOwner(commands')
    BY <1>2, <2>1, WithoutOwner DEF ArraysOwned
  <2>7. ArraysOwned'
    <3>1. commands[c].args \notin ArgsOf(internals) \cup args \cup overwritten
          \/ commands[c].args = NULL
      BY <1>2 DEF ArraysOwned, ArgsOf
    <3>2. NULL \notin DOMAIN heap.array
      BY <1>3, AddressesAreNotNull DEF OtherTypes, ArrayAddr
    <3>3. /\ internals' = internals /\ args' = args /\ overwritten' = overwritten
      BY <1>1
    <3>4. DOMAIN heap'.array
            = ArgsOf(commands') \cup ArgsOf(internals') \cup args' \cup overwritten'
      BY <1>2, <2>4, <2>6, <3>1, <3>2, <3>3 DEF ArraysOwned
    <3>5. QED
      BY <1>2, <2>6, <3>3, <3>4 DEF ArraysOwned
  <2>8. CommandsCounted'
    <3>1. RefcountExact'
      BY <1>2, <1>6, <2>2, <2>3 DEF CommandsCounted, RefcountExact
    <3>2. ASSUME NEW d \in CommandAddr
          PROVE  d \in DOMAIN commands'
                   <=> (refs'[d] > 0 \/ \E u \in Thread : building'[u].cmd = d)
      <4>1. CASE d = c
        BY <1>1, <1>5, <2>2, <2>3, <4>1
      <4>2. CASE d # c
        BY <1>1, <1>2, <1>6, <2>2, <4>2 DEF CommandsCounted
      <4>3. QED
        BY <4>1, <4>2
    <3>3. QED
      BY <1>7, <3>1, <3>2 DEF CommandsCounted
  <2>9. BufferAgrees'
    <3>1. ASSUME NEW d \in DOMAIN commands', commands[d].args # NULL
          PROVE  commands[d].args \in DOMAIN heap'.array
      BY <1>2, <2>2, <2>4, <3>1, ArgsExist DEF ArraysOwned, OneOwner
    <3>2. QED
      BY <2>2, <2>4, <3>1, BuffersKept
  <2>10. QED
    BY <2>4, <2>5, <2>7, <2>8, <2>9 DEF CInv
<1>10. QED
  BY <1>8, <1>9

-----------------------------------------------------------------------------
(* Arrays of the program and of internal commands *)

LEMMA QargsStep ==
  ASSUME CInv, NEW fields \in Field, command_qargs_alloc(fields.args)
  PROVE  CInv'
  BY Inputs, GainedArray DEF command_qargs_alloc

LEMMA CloneArgsStep ==
  ASSUME CInv, NEW c \in DOMAIN commands, CloneArgs(c)
  PROVE  CInv'
<1>1. Values(heap, commands[c].args) \in Seq(Arg)
  BY ArgsExist, ValuesTyped
<1>2. QED
  BY <1>1, GainedArray DEF CloneArgs, command_args_clone

LEMMA FreeArgsStep ==
  ASSUME CInv, NEW a \in args, FreeArgs(a)
  PROVE  CInv'
<1>1. /\ heap' = command_args_free(heap, a)
      /\ args' = args \ {a}
      /\ UNCHANGED <<commands, internals, refs, id, building, overwritten, reset>>
  BY DEF FreeArgs
<1>2. /\ CommandTypeOK /\ HeapOK(heap) /\ ArraysOwned /\ CommandsCounted
  BY DEF CInv
<1>3. a \in DOMAIN heap.array
  BY <1>2 DEF ArraysOwned
<1>4. /\ DOMAIN heap'.array = DOMAIN heap.array \ {a}
      /\ Kept(heap, heap') /\ HeapOK(heap')
  BY <1>1, <1>2, <1>3, Freeing
<1>5. CommandTypeOK'
  BY <1>1, <1>2, <1>4 DEF CommandTypeOK, HeapOK
<1>6. ArraysOwned'
  BY <1>1, <1>2, <1>4 DEF ArraysOwned
<1>7. CommandsCounted'
  BY <1>1, <1>2 DEF CommandsCounted, RefcountExact
<1>8. BufferAgrees'
  <2>1. ASSUME NEW d \in DOMAIN commands, commands[d].args # NULL
        PROVE  commands[d].args \in DOMAIN heap'.array
    BY <1>2, <1>4, <2>1 DEF ArraysOwned, ArgsOf
  <2>2. QED
    BY <1>1, <1>4, <2>1, BuffersKept
<1>9. QED
  BY <1>4, <1>5, <1>6, <1>7, <1>8 DEF CInv

LEMMA InternalNewStep ==
  ASSUME CInv, NEW c \in DOMAIN commands, internal_command_new(c)
  PROVE  CInv'
<1> DEFINE v == Values(heap, commands[c].args)
           b == IF commands[c].args = NULL THEN NULL ELSE NewAddr(heap)
           ic == CHOOSE ic \in FreeInternals : TRUE
           r == [task_id |-> uint32(commands[c].task_id), args |-> b]
<1>1. /\ FreeInternals # {} /\ Room(heap, v)
      /\ heap' = IF commands[c].args = NULL THEN heap ELSE Allocated(heap, v)
      /\ internals' = Put(internals, ic, r)
      /\ UNCHANGED <<commands, refs, args, id, building, overwritten, reset>>
  BY DEF internal_command_new, command_args_clone
<1>2. /\ CommandTypeOK /\ HeapOK(heap) /\ ArraysOwned /\ CommandsCounted
  BY DEF CInv
<1>3. v \in Seq(Arg)
  BY ArgsExist, ValuesTyped
<1>4. \/ b = NULL /\ v = <<>> /\ heap' = heap
      \/ b = NewAddr(heap) /\ heap' = Allocated(heap, v)
  BY <1>1 DEF Values
<1>5. ic \in InternalAddr \ DOMAIN internals
  BY <1>1 DEF FreeInternals
<1>6. Room(heap, v) /\ HeapOK(heap)
  BY <1>1, <1>2
<1>7. r.args = b
  OBVIOUS
<1> HIDE DEF v, b, ic
<1>8. /\ b \in (ArrayAddr \cup {NULL}) \ DOMAIN heap.array
      /\ DOMAIN heap'.array = DOMAIN heap.array \cup ({b} \ {NULL})
      /\ Kept(heap, heap') /\ HeapOK(heap')
  <2>1. \/ b = NULL /\ v = <<>> /\ heap' = heap
        \/ b = NewAddr(heap) /\ heap' = Allocated(heap, v)
    BY <1>4
  <2>2. v \in Seq(Arg) /\ Room(heap, v) /\ HeapOK(heap)
    BY <1>3, <1>6
  <2> HIDE DEF r
  <2>3. QED
    BY <2>1, <2>2, AllocationIfAny
<1>9. r \in [task_id : 0..(UINT32 - 1), args : ArrayAddr \cup {NULL}]
  <2>1. commands[c].task_id \in Nat
    <3>1. commands[c].task_id \in uint64_t
      BY <1>2 DEF CommandTypeOK, Command
    <3>2. QED
      BY <3>1, Widths DEF uint64_t
  <2>2. uint32(commands[c].task_id) \in 0..(UINT32 - 1)
    BY <2>1, Widths DEF uint32
  <2>3. QED
    BY <1>8, <2>2
<1> HIDE DEF r
<1>10. CommandTypeOK'
  <2>1. internals' \in [DOMAIN internals' ->
          [task_id : 0..(UINT32 - 1), args : ArrayAddr \cup {NULL}]]
    BY <1>1, <1>2, <1>9, PutType DEF CommandTypeOK
  <2>2. DOMAIN internals' \subseteq InternalAddr
    BY <1>1, <1>2, <1>5 DEF CommandTypeOK, Put
  <2>3. QED
    BY <1>1, <1>2, <1>8, <2>1, <2>2 DEF CommandTypeOK, HeapOK
<1>11. ArraysOwned'
  <2>1. r.args \notin ArgsOf(internals)
    BY <1>2, <1>8, <1>7 DEF ArraysOwned
  <2>2. /\ ArgsOf(internals') = ArgsOf(internals) \cup ({b} \ {NULL})
        /\ OneOwner(internals')
    BY <1>1, <1>2, <1>5, <1>7, <2>1, PutOwner DEF ArraysOwned
  <2>3. commands' = commands /\ args' = args /\ overwritten' = overwritten
    BY <1>1
  <2>4. QED
    BY <1>2, <1>8, <2>2, <2>3 DEF ArraysOwned
<1>12. CommandsCounted'
  BY <1>1, <1>2 DEF CommandsCounted, RefcountExact
<1>13. BufferAgrees'
  BY <1>1, <1>8, ArgsExist, BuffersKept
<1>14. QED
  BY <1>8, <1>10, <1>11, <1>12, <1>13 DEF CInv

LEMMA InternalFreeStep ==
  ASSUME CInv, NEW ic \in DOMAIN internals, internal_command_free(ic)
  PROVE  CInv'
<1> DEFINE a == internals[ic].args
<1>1. /\ heap' = FreedIfAny(heap, a)
      /\ internals' = Without(internals, {ic})
      /\ UNCHANGED <<commands, refs, args, id, building, overwritten, reset>>
  BY DEF internal_command_free
<1>2. /\ CommandTypeOK /\ HeapOK(heap) /\ ArraysOwned /\ CommandsCounted
  BY DEF CInv
<1>3. NULL \notin DOMAIN heap.array
  BY <1>2, AddressesAreNotNull DEF HeapOK, ArrayAddr
<1>4. /\ a # NULL => a \in DOMAIN heap.array /\ a \in ArgsOf(internals)
      /\ ArgsOf(internals') = ArgsOf(internals) \ {a}
      /\ OneOwner(internals')
  <2>1. a # NULL => a \in DOMAIN heap.array /\ a \in ArgsOf(internals)
    BY ArgsExist DEF ArgsOf
  <2>2. OneOwner(internals) /\ internals' = Without(internals, {ic})
    BY <1>1, <1>2 DEF ArraysOwned
  <2>3. /\ ArgsOf(internals') = ArgsOf(internals) \ {a}
        /\ OneOwner(internals')
    BY <2>2, WithoutOwner
  <2>4. QED
    BY <2>1, <2>3
<1> HIDE DEF a
<1>5. /\ DOMAIN heap'.array = DOMAIN heap.array \ {a}
      /\ Kept(heap, heap') /\ HeapOK(heap')
  <2>1. CASE a = NULL
    <3>1. heap' = heap
      BY <1>1, <2>1 DEF FreedIfAny
    <3>2. QED
      BY <1>2, <1>3, <2>1, <3>1 DEF Kept
  <2>2. CASE a # NULL
    <3>1. heap' = command_args_free(heap, a)
      BY <1>1, <2>2 DEF FreedIfAny
    <3>2. QED
      BY <1>2, <1>4, <2>2, <3>1, Freeing
  <2>3. QED
    BY <2>1, <2>2
<1>6. CommandTypeOK'
  <2>1. internals' \in [DOMAIN internals' ->
          [task_id : 0..(UINT32 - 1), args : ArrayAddr \cup {NULL}]]
    BY <1>1, <1>2, WithoutType DEF CommandTypeOK
  <2>2. DOMAIN internals' \subseteq InternalAddr
    BY <1>1, <1>2 DEF CommandTypeOK, Without, Restrict
  <2>3. QED
    BY <1>1, <1>2, <1>5, <2>1, <2>2 DEF CommandTypeOK, HeapOK
<1>7. ArraysOwned'
  <2>1. commands' = commands /\ args' = args /\ overwritten' = overwritten
    BY <1>1
  <2>2. QED
    BY <1>2, <1>3, <1>4, <1>5, <2>1 DEF ArraysOwned
<1>8. CommandsCounted'
  BY <1>1, <1>2 DEF CommandsCounted, RefcountExact
<1>9. BufferAgrees'
  <2>1. ASSUME NEW d \in DOMAIN commands, commands[d].args # NULL
        PROVE  commands[d].args \in DOMAIN heap'.array
    <3>1. commands[d].args \in ArgsOf(commands)
      BY <2>1 DEF ArgsOf
    <3>2. QED
      BY <1>2, <1>4, <1>5, <2>1, <3>1, ArgsExist DEF ArraysOwned
  <2>2. QED
    BY <1>1, <1>5, <2>1, BuffersKept
<1>10. QED
  BY <1>5, <1>6, <1>7, <1>8, <1>9 DEF CInv

-----------------------------------------------------------------------------
(* The theorems *)

LEMMA NextCInv == CInv /\ [Next]_vars => CInv'
<1> SUFFICES ASSUME CInv, [Next]_vars
             PROVE  CInv'
  OBVIOUS
<1>1. CASE Handler
  BY <1>1, FromDataStep DEF Handler
<1>2. CASE \E t \in Thread : StoreId(t)
  BY <1>2, StoreIdStep
<1>3. CASE Creation
  BY <1>3, NewStep, NewUsingArgStep, InplaceStep DEF Creation
<1>4. CASE building["processor"] = NotBuilding /\ References
  BY <1>4, HoldStep, FreeStep DEF References
<1>5. CASE Arguments
  BY <1>5, QargsStep, CloneArgsStep, FreeArgsStep DEF Arguments
<1>6. CASE Internals
  BY <1>6, InternalNewStep, InternalFreeStep DEF Internals
<1>7. CASE UNCHANGED vars
  <2>1. /\ commands' = commands /\ internals' = internals /\ heap' = heap
        /\ refs' = refs /\ args' = args /\ id' = id /\ building' = building
        /\ overwritten' = overwritten /\ reset' = reset
    BY <1>7 DEF vars
  <2>2. CommandTypeOK' /\ ArraysOwned' /\ HeapOK(heap')
    BY <2>1 DEF CInv, CommandTypeOK, ArraysOwned
  <2>3. CommandsCounted' /\ BufferAgrees'
    BY <2>1 DEF CInv, CommandsCounted, RefcountExact, BufferAgrees
  <2>4. QED
    BY <2>2, <2>3 DEF CInv
<1>8. QED
  BY <1>1, <1>2, <1>3, <1>4, <1>5, <1>6, <1>7 DEF Next

(* However the two threads take turns to create, decode in place whatever  *)
(* is held, clone, hold and free: arrays have one owner, strings one       *)
(* array, a count is the number of holders until it is reset under them,   *)
(* and buffers say what the commands say.                                  *)
THEOREM CommandInvariant == CommandSpec => []CInv
<1>1. CommandInit => CInv
  BY InitCInv
<1>2. CInv /\ [Next]_vars => CInv'
  BY NextCInv
<1>3. QED
  BY <1>1, <1>2, PTL DEF CommandSpec

(* The arrays that can be reached are those that are owned.                *)
LEMMA ReachableOwned == Reachable = ArgsOf(commands) \cup ArgsOf(internals) \cup args
<1> DEFINE C == {d \in DOMAIN commands : commands[d].args # NULL}
           I == {j \in DOMAIN internals : internals[j].args # NULL}
<1>1. \A c \in C : PointsTo(<<"command", c>>) = commands[c].args
  BY DEF PointsTo
<1>2. \A i \in I : PointsTo(<<"internal", i>>) = internals[i].args
  BY DEF PointsTo
<1>3. \A a \in args : PointsTo(<<"program", a>>) = a
  BY DEF PointsTo
<1>4. Pointers = {<<"command", c>> : c \in C} \cup {<<"internal", i>> : i \in I}
                   \cup {<<"program", a>> : a \in args}
  BY DEF Pointers
<1>5. ArgsOf(commands) = {commands[c].args : c \in C}
  BY DEF ArgsOf
<1>6. ArgsOf(internals) = {internals[i].args : i \in I}
  BY DEF ArgsOf
<1> HIDE DEF C, I
<1>7. Reachable = {PointsTo(<<"command", c>>) : c \in C}
                    \cup {PointsTo(<<"internal", i>>) : i \in I}
                    \cup {PointsTo(<<"program", a>>) : a \in args}
  BY <1>4 DEF Reachable
<1>8. {PointsTo(<<"command", c>>) : c \in C} = ArgsOf(commands)
  BY <1>1, <1>5
<1>9. {PointsTo(<<"internal", i>>) : i \in I} = ArgsOf(internals)
  BY <1>2, <1>6
<1>10. {PointsTo(<<"program", a>>) : a \in args} = args
  BY <1>3
<1>11. QED
  BY <1>7, <1>8, <1>9, <1>10

LEMMA OnePointer ==
  ASSUME CInv, NEW p \in Pointers, NEW q \in Pointers, PointsTo(p) = PointsTo(q)
  PROVE  p = q
<1>1. ArraysOwned
  BY DEF CInv
<1> DEFINE IsCommand(x)  == \E c \in DOMAIN commands :
             x = <<"command", c>> /\ PointsTo(x) = commands[c].args /\ commands[c].args # NULL
           IsInternal(x) == \E i \in DOMAIN internals :
             x = <<"internal", i>> /\ PointsTo(x) = internals[i].args /\ internals[i].args # NULL
           IsProgram(x)  == x = <<"program", PointsTo(x)>> /\ PointsTo(x) \in args
<1>2. \A x \in Pointers : IsCommand(x) \/ IsInternal(x) \/ IsProgram(x)
  <2> SUFFICES ASSUME NEW x \in Pointers
               PROVE  IsCommand(x) \/ IsInternal(x) \/ IsProgram(x)
    OBVIOUS
  <2>1. CASE \E c \in DOMAIN commands : x = <<"command", c>> /\ commands[c].args # NULL
    BY <2>1 DEF PointsTo
  <2>2. CASE \E i \in DOMAIN internals : x = <<"internal", i>> /\ internals[i].args # NULL
    BY <2>2 DEF PointsTo
  <2>3. CASE \E a \in args : x = <<"program", a>>
    BY <2>3 DEF PointsTo
  <2>4. QED
    BY <2>1, <2>2, <2>3 DEF Pointers
<1>3. \A x : /\ IsCommand(x)  => PointsTo(x) \in ArgsOf(commands)
             /\ IsInternal(x) => PointsTo(x) \in ArgsOf(internals)
  BY DEF ArgsOf
<1>4. CASE IsCommand(p) /\ IsCommand(q)
  BY <1>1, <1>4 DEF ArraysOwned, OneOwner
<1>5. CASE IsInternal(p) /\ IsInternal(q)
  BY <1>1, <1>5 DEF ArraysOwned, OneOwner
<1>6. CASE IsProgram(p) /\ IsProgram(q)
  BY <1>6
<1> HIDE DEF IsCommand, IsInternal
<1>7. ~(IsCommand(p) /\ (IsInternal(q) \/ IsProgram(q)))
  BY <1>1, <1>3 DEF ArraysOwned
<1>8. ~(IsInternal(p) /\ (IsCommand(q) \/ IsProgram(q)))
  BY <1>1, <1>3 DEF ArraysOwned
<1>9. ~(IsProgram(p) /\ (IsCommand(q) \/ IsInternal(q)))
  BY <1>1, <1>3 DEF ArraysOwned
<1>10. QED
  BY <1>2, <1>4, <1>5, <1>6, <1>7, <1>8, <1>9

(* Addresses, counts and ids keep their types: no count below 0, no id     *)
(* outside the bounds, no command half filled.                             *)
THEOREM CommandTypes == CommandSpec => []CommandTypeOK
<1>1. CInv => CommandTypeOK
  BY DEF CInv
<1>2. QED
  BY <1>1, CommandInvariant, PTL

(* command_args_clone and the two free functions never leave a pointer to  *)
(* what was freed, and never give one block two owners.                    *)
THEOREM HeapIsSound == CommandSpec => []HeapSound
<1>1. CInv => HeapSound
  <2> SUFFICES ASSUME CInv
               PROVE  HeapSound
    OBVIOUS
  <2>1. Reachable \subseteq DOMAIN heap.array
    BY ReachableOwned DEF CInv, ArraysOwned
  <2>2. \A p, q \in Pointers : PointsTo(p) = PointsTo(q) => p = q
    BY OnePointer
  <2>3. \A a, b \in DOMAIN heap.array :
          /\ Strings(heap, a) \subseteq DOMAIN heap.string
          /\ a # b => Strings(heap, a) \cap Strings(heap, b) = {}
    BY DEF CInv, HeapOK
  <2>4. QED
    BY <2>1, <2>2, <2>3 DEF HeapSound
<1>2. QED
  BY <1>1, CommandInvariant, PTL

(* What command.c allocates stays reachable until it is freed, but for the *)
(* arrays that command_from_data_inplace forgets.                          *)
THEOREM NothingLeaks == CommandSpec => []NoLeak
<1>1. CInv => NoLeak
  <2> SUFFICES ASSUME CInv
               PROVE  NoLeak
    OBVIOUS
  <2>1. DOMAIN heap.array = Reachable \cup overwritten
    BY ReachableOwned DEF CInv, ArraysOwned
  <2>2. DOMAIN heap.string = UNION {Strings(heap, a) : a \in DOMAIN heap.array}
    BY DEF CInv, HeapOK
  <2>3. /\ DOMAIN commands \subseteq CommandAddr
        /\ \A t \in Thread : building[t].cmd \in CommandAddr \cup {NULL}
    BY DEF CInv, CommandTypeOK
  <2>4. \A c \in CommandAddr : c \in DOMAIN commands
          <=> (refs[c] > 0 \/ \E t \in Thread : building[t].cmd = c)
    BY DEF CInv, CommandsCounted
  <2>5. \A c \in CommandAddr : c # NULL
    BY AddressesAreNotNull DEF CommandAddr
  <2>6. DOMAIN commands = {c \in CommandAddr : refs[c] > 0}
                            \cup ({building[t].cmd : t \in Thread} \ {NULL})
    <3> DEFINE B == {building[t].cmd : t \in Thread}
               H == {c \in CommandAddr : refs[c] > 0}
    <3>1. \A x : x \in B <=> \E t \in Thread : building[t].cmd = x
      OBVIOUS
    <3>2. B \ {NULL} \subseteq CommandAddr
      BY <2>3
    <3>3. \A c \in CommandAddr : c \in DOMAIN commands <=> c \in H \cup (B \ {NULL})
      BY <2>4, <2>5, <3>1
    <3>4. H \cup (B \ {NULL}) \subseteq CommandAddr
      BY <3>2
    <3> HIDE DEF B, H
    <3>5. DOMAIN commands = H \cup (B \ {NULL})
      BY <2>3, <3>3, <3>4
    <3>6. QED
      BY <3>5 DEF B, H
  <2>7. QED
    BY <2>1, <2>2, <2>6 DEF NoLeak
<1>2. QED
  BY <1>1, CommandInvariant, PTL

(* command_hold and command_free keep count: the command exists as long as *)
(* somebody holds it, and its refcount is the number of holders, unless    *)
(* command_from_data_inplace reset the count of a command that several     *)
(* held; then it is at most that number.                                   *)
THEOREM RefcountIsExact == CommandSpec => []RefcountExact
<1>1. CInv => RefcountExact
  BY DEF CInv, CommandsCounted
<1>2. QED
  BY <1>1, CommandInvariant, PTL

(* A command and its buffer agree, whether it was decoded from the buffer  *)
(* or encoded into it, in place or not, whatever is allocated and freed    *)
(* meanwhile: what is written arrives at its place, longs as ints, and the *)
(* array announces what is not written too.                                *)
THEOREM BuffersAgree == CommandSpec => []BufferAgrees
<1>1. CInv => BufferAgrees
  BY DEF CInv
<1>2. QED
  BY <1>1, CommandInvariant, PTL
=============================================================================
