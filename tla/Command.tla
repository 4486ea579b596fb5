------------------------------ MODULE Command ------------------------------
(***************************************************************************)
(* Commands and their arguments in memory (src/src/command.c): who owns    *)
(* which block, how many hold a command, and what its buffer says.         *)
(*                                                                         *)
(* Two threads create commands: the one that runs the data handler, which  *)
(* passes what it has decoded on, and the one that processes commands and  *)
(* creates replies.  All other calls are made by the second one, as the    *)
(* node does, so reference counts are not raced for; the counter id is.    *)
(* A block's address is one the allocator may give again once it was freed.*)
(***************************************************************************)
EXTENDS CommandCodec, Functions

CONSTANTS
  NULL,
  Message,   \* what may arrive: the wire form of a command's fields
  Field,     \* the fields a reply is created with, and its arguments' items
  MaxCommands, MaxInternals, MaxArrays, MaxStrings, MaxId   \* bounds

ASSUME BoundAssumption ==
  /\ MaxCommands \in Nat /\ MaxInternals \in Nat
  /\ MaxArrays \in Nat /\ MaxStrings \in Nat
  /\ MaxId \in Nat \ {0}
  /\ NULL \notin Nat

ASSUME InputAssumption ==
  /\ Message \subseteq {wire \in Wire : Complete(wire)}
  /\ Field \subseteq Fields

VARIABLES
  commands,     \* the command_t that exist, by address
  internals,    \* the internal_command_t that exist
  heap,         \* the argument arrays and the strings that exist
  refs,         \* the references to a command that the program holds
  args,         \* the argument arrays that the program holds itself
  id,           \* the static id
  building,     \* per thread: the command it creates and the id it has read
  overwritten,  \* ghost: arrays whose command was decoded into once more
  reset         \* ghost: commands decoded into while more than one held them

vars == <<commands, internals, heap, refs, args, id, building, overwritten, reset>>

Thread      == {"handler", "processor"}
CommandAddr == 1..MaxCommands
ArrayAddr   == 1..MaxArrays
StringAddr  == 1..MaxStrings
InternalAddr == 1..MaxInternals
NotBuilding == [cmd |-> NULL, id |-> 0]

Command ==
  [task_id : uint64_t, fn_name : Text, buffer : Wire,
   args : ArrayAddr \cup {NULL}, refcount : 0..3, id : 0..MaxId]

-----------------------------------------------------------------------------
(* Argument arrays.  A heap h has h.array, sequences of items, and         *)
(* h.string, texts; the value of a string item is the address of a text.   *)

Put(f, a, v)   == [x \in DOMAIN f \cup {a} |-> IF x = a THEN v ELSE f[x]]
Without(f, S)  == Restrict(f, DOMAIN f \ S)
IsString(item) == item.type = "STRING_TYPE"
Texts(values)  == {i \in DOMAIN values : IsString(values[i])}
Strings(h, a)  == {h.array[a][i].val : i \in Texts(h.array[a])}

(* The values that the items of an array stand for.                        *)
Values(h, a) ==
  IF a = NULL THEN <<>>
  ELSE [i \in DOMAIN h.array[a] |->
          LET item == h.array[a][i] IN
          [type |-> item.type,
           val  |-> IF IsString(item) THEN h.string[item.val] ELSE item.val]]

(* Addresses that the allocator may give: one for an array, and different  *)
(* ones for the texts in it.                                               *)
FreeArrays(h)    == ArrayAddr \ DOMAIN h.array
Cells(h, values) == Injection(Texts(values), StringAddr \ DOMAIN h.string)
Room(h, values)  == FreeArrays(h) # {} /\ Cells(h, values) # {}

NewAddr(h) == CHOOSE a \in FreeArrays(h) : TRUE

(* calloc of the array and a strdup for each of its texts.                 *)
Allocated(h, values) ==
  LET cell    == CHOOSE f \in Cells(h, values) : TRUE
      text(c) == values[CHOOSE i \in Texts(values) : cell[i] = c].val
      new     == {cell[i] : i \in Texts(values)}
  IN [array  |-> Put(h.array, NewAddr(h),
                     [i \in DOMAIN values |->
                        [type |-> values[i].type,
                         val  |-> IF IsString(values[i]) THEN cell[i]
                                  ELSE values[i].val]]),
      string |-> [c \in DOMAIN h.string \cup new |->
                    IF c \in new THEN text(c) ELSE h.string[c]]]

(* Mutant: the clone shares the strings of the original.                   *)
SharedClone(h, a) == [h EXCEPT !.array = Put(h.array, NewAddr(h), h.array[a])]

command_args_clone(h, a) == Allocated(h, Values(h, a))

(* Mutant: only the array is freed.                                        *)
ArrayFreed(h, a) == [h EXCEPT !.array = Without(h.array, {a})]

command_args_free(h, a) ==
  [array  |-> Without(h.array, {a}),
   string |-> Without(h.string, Strings(h, a))]

FreedIfAny(h, a) == IF a = NULL THEN h ELSE command_args_free(h, a)

-----------------------------------------------------------------------------
CommandInit ==
  /\ commands = <<>> /\ internals = <<>>
  /\ heap = [array |-> <<>>, string |-> <<>>]
  /\ refs = [c \in CommandAddr |-> 0]
  /\ args = {}
  /\ id = 1
  /\ building = [t \in Thread |-> NotBuilding]
  /\ overwritten = {}
  /\ reset = {}

(* A thread has filled the command at c and reads id, to increment it.     *)
ReadId(t, c) == building' = [building EXCEPT ![t] = [cmd |-> c, id |-> id]]

FreeCommands == CommandAddr \ DOMAIN commands

Idle(t) == building[t] = NotBuilding /\ id < MaxId

NewCommand(t, fields, wire, a) ==
  LET c == CHOOSE c \in FreeCommands : TRUE IN
  /\ commands' = Put(commands, c,
                     [task_id |-> fields.task_id, fn_name |-> fields.fn_name,
                      buffer |-> wire, args |-> a, refcount |-> 0, id |-> 0])
  /\ ReadId(t, c)

(* Creation ends: id is stored, the command gets what was read and a count *)
(* of one, and the caller holds it, unless some hold it already.           *)
StoreId(t) ==
  LET c == building[t].cmd IN
  /\ c # NULL
  /\ id' = building[t].id + 1
  /\ commands' = [commands EXCEPT ![c].id = building[t].id, ![c].refcount = 1]
  /\ refs' = [refs EXCEPT ![c] = IF @ = 0 THEN 1 ELSE @]
  /\ building' = [building EXCEPT ![t] = NotBuilding]
  /\ UNCHANGED <<internals, heap, args, overwritten, reset>>

(* An empty array, or none, leaves args NULL.                              *)
DecodedArgs(values) == IF values = <<>> THEN NULL ELSE NewAddr(heap)
HeapWith(values)    == IF values = <<>> THEN heap ELSE Allocated(heap, values)

command_from_data(wire) ==
  LET fields == Decode(wire) IN
  /\ Idle("handler")
  /\ FreeCommands # {}
  /\ Room(heap, fields.args)
  /\ heap' = HeapWith(fields.args)
  /\ NewCommand("handler", fields, wire, DecodedArgs(fields.args))
  /\ UNCHANGED <<internals, refs, args, id, overwritten, reset>>

(* A buffer is decoded into a command, whoever else holds it: what its     *)
(* args pointed to is forgotten.                                           *)
command_from_data_inplace(c, wire) ==
  LET fields == DecodeOver(wire, commands[c].fn_name) IN
  /\ Idle("processor")
  /\ refs[c] > 0
  /\ Room(heap, fields.args)
  /\ heap' = HeapWith(fields.args)
  /\ overwritten' = IF commands[c].args = NULL THEN overwritten
                    ELSE overwritten \cup {commands[c].args}
  /\ commands' = [commands EXCEPT
       ![c].task_id = fields.task_id, ![c].fn_name = fields.fn_name,
       ![c].buffer = wire, ![c].args = DecodedArgs(fields.args)]
  /\ reset' = IF commands[c].refcount > 1 THEN reset \cup {c} ELSE reset
  /\ ReadId("processor", c)
  /\ UNCHANGED <<internals, refs, args, id>>

(* h is the heap, a the array that is cloned and encoded.                  *)
Create(fields, h, a) ==
  LET all == [fields EXCEPT !.args = Values(h, a)] IN
  /\ Idle("processor")
  /\ FreeCommands # {}
  /\ NewCommand("processor",
       [all EXCEPT !.fn_name = COPY_STRING(fields.fn_name, SMALL_CMD_STR_LEN)],
       Encode(all), IF a = NULL THEN NULL ELSE NewAddr(h))
  /\ UNCHANGED <<internals, refs, id, overwritten, reset>>

command_new_using_arg(fields, a) ==
  /\ Room(heap, Values(heap, a))
  /\ heap' = IF a = NULL THEN heap ELSE command_args_clone(heap, a)
  /\ Create(fields, heap, a)
  /\ UNCHANGED args

(* The variable arguments become an array of its own, which is freed once  *)
(* the command has its clone.                                              *)
command_new(fields) ==
  LET qargs == IF fields.args = <<>> THEN NULL ELSE NewAddr(heap)
      h     == HeapWith(fields.args)
  IN /\ Room(heap, fields.args) /\ Room(h, fields.args)
     /\ heap' = IF qargs = NULL THEN h
                ELSE command_args_free(command_args_clone(h, qargs), qargs)
     /\ Create(fields, h, qargs)
     /\ UNCHANGED args

-----------------------------------------------------------------------------
(* Mutant: somebody holds the command, the count does not say so.          *)
HoldUncounted(c) == commands

Held(c) == [commands EXCEPT ![c].refcount = @ + 1]

command_hold(c) ==
  /\ refs[c] \in 1..2   \* bound: three references
  /\ commands' = Held(c)
  /\ refs' = [refs EXCEPT ![c] = @ + 1]
  /\ UNCHANGED <<internals, heap, args, id, building, overwritten, reset>>

(* A reference to a command that is freed although others hold it is good  *)
(* for nothing any more: what is done with it is not followed.             *)
command_free(c) ==
  /\ refs[c] > 0
  /\ IF commands[c].refcount - 1 > 0
     THEN /\ commands' = [commands EXCEPT ![c].refcount = @ - 1]
          /\ refs' = [refs EXCEPT ![c] = @ - 1]
          /\ UNCHANGED <<heap, reset>>
     ELSE /\ commands' = Without(commands, {c})
          /\ refs' = [refs EXCEPT ![c] = 0]
          /\ heap' = FreedIfAny(heap, commands[c].args)
          /\ reset' = reset \ {c}
  /\ UNCHANGED <<internals, args, id, building, overwritten>>

(* The program has arrays of its own: results of functions, and clones.    *)
command_qargs_alloc(values) ==
  /\ values # <<>> /\ Room(heap, values)
  /\ heap' = Allocated(heap, values)
  /\ args' = args \cup {NewAddr(heap)}
  /\ UNCHANGED <<commands, internals, refs, id, building, overwritten, reset>>

CloneArgs(c) ==
  /\ refs[c] > 0 /\ commands[c].args # NULL
  /\ Room(heap, Values(heap, commands[c].args))
  /\ heap' = command_args_clone(heap, commands[c].args)
  /\ args' = args \cup {NewAddr(heap)}
  /\ UNCHANGED <<commands, internals, refs, id, building, overwritten, reset>>

FreeArgs(a) ==
  /\ heap' = command_args_free(heap, a)
  /\ args' = args \ {a}
  /\ UNCHANGED <<commands, internals, refs, id, building, overwritten, reset>>

FreeInternals == InternalAddr \ DOMAIN internals

(* An internal command has the id narrowed to uint32_t, and a clone.       *)
internal_command_new(c) ==
  /\ refs[c] > 0 /\ FreeInternals # {}
  /\ Room(heap, Values(heap, commands[c].args))
  /\ heap' = IF commands[c].args = NULL THEN heap
             ELSE command_args_clone(heap, commands[c].args)
  /\ LET ic == CHOOSE ic \in FreeInternals : TRUE IN
     internals' = Put(internals, ic,
                      [task_id |-> uint32(commands[c].task_id),
                       args    |-> IF commands[c].args = NULL THEN NULL
                                   ELSE NewAddr(heap)])
  /\ UNCHANGED <<commands, refs, args, id, building, overwritten, reset>>

internal_command_free(ic) ==
  /\ heap' = FreedIfAny(heap, internals[ic].args)
  /\ internals' = Without(internals, {ic})
  /\ UNCHANGED <<commands, refs, args, id, building, overwritten, reset>>

Handler   == \E wire \in Message : command_from_data(wire)
Creation  ==
  \/ \E fields \in Field : command_new(fields)
  \/ \E fields \in Field, a \in args \cup {NULL} : command_new_using_arg(fields, a)
  \/ \E c \in DOMAIN commands, wire \in Message : command_from_data_inplace(c, wire)
References ==
  \/ \E c \in DOMAIN commands : command_hold(c) \/ command_free(c)
Arguments ==
  \/ \E fields \in Field : command_qargs_alloc(fields.args)
  \/ \E c \in DOMAIN commands : CloneArgs(c)
  \/ \E a \in args : FreeArgs(a)
Internals ==
  \/ \E c \in DOMAIN commands : internal_command_new(c)
  \/ \E ic \in DOMAIN internals : internal_command_free(ic)

Next ==
  \/ Handler \/ \E t \in Thread : StoreId(t)
  \/ building["processor"] = NotBuilding /\ (Creation \/ References \/ Arguments \/ Internals)

CommandSpec == CommandInit /\ [][Next]_vars

-----------------------------------------------------------------------------
(* Properties *)

(* The arrays that a command, an internal command or the program has.      *)
Pointers ==
  {<<"command", c>> : c \in {d \in DOMAIN commands : commands[d].args # NULL}}
    \cup {<<"internal", i>> : i \in {j \in DOMAIN internals : internals[j].args # NULL}}
    \cup {<<"program", a>> : a \in args}
PointsTo(p) == CASE p[1] = "command"  -> commands[p[2]].args
                 [] p[1] = "internal" -> internals[p[2]].args
                 [] p[1] = "program"  -> p[2]
Reachable == {PointsTo(p) : p \in Pointers}

(* Addresses, counts and ids have their types.                             *)
CommandTypeOK ==
  /\ DOMAIN commands \subseteq CommandAddr
  /\ commands \in [DOMAIN commands -> Command]
  /\ DOMAIN internals \subseteq InternalAddr
  /\ internals \in [DOMAIN internals ->
       [task_id : 0..(UINT32 - 1), args : ArrayAddr \cup {NULL}]]
  /\ DOMAIN heap.array \subseteq ArrayAddr /\ DOMAIN heap.string \subseteq StringAddr
  /\ refs \in [CommandAddr -> 0..3] /\ reset \subseteq CommandAddr
  /\ args \subseteq ArrayAddr /\ id \in 1..MaxId
  /\ building \in [Thread -> [cmd : CommandAddr \cup {NULL}, id : 0..MaxId]]

(* Whatever is created, cloned, held and freed in whatever order: every    *)
(* array that can be reached exists and has one owner, every string of it  *)
(* exists and is the string of one argument.                               *)
HeapSound ==
  /\ Reachable \subseteq DOMAIN heap.array
  /\ \A p, q \in Pointers : PointsTo(p) = PointsTo(q) => p = q
  /\ \A a, b \in DOMAIN heap.array :
       /\ Strings(heap, a) \subseteq DOMAIN heap.string
       /\ a # b => Strings(heap, a) \cap Strings(heap, b) = {}

(* Nothing is lost: what exists can still be reached and will be freed,    *)
(* but for arrays whose command was decoded into in place.                 *)
NoLeak ==
  /\ DOMAIN heap.array = Reachable \cup overwritten
  /\ DOMAIN heap.string = UNION {Strings(heap, a) : a \in DOMAIN heap.array}
  /\ DOMAIN commands = {c \in CommandAddr : refs[c] > 0}
                         \cup ({building[t].cmd : t \in Thread} \ {NULL})

(* Who holds a command counts: its refcount is the number of references to *)
(* it, so that the last of them frees it and none before, however it was   *)
(* created, held, freed or decoded into by its only holder.  One that was  *)
(* decoded into while others held it has lost their counts for good: the   *)
(* count is then at most the number of references, and the command may be  *)
(* freed under those who hold it.                                          *)
RefcountExact ==
  \A c \in CommandAddr : refs[c] > 0 =>
     /\ c \in DOMAIN commands
     /\ commands[c].refcount \in 1..refs[c]
     /\ c \notin reset => commands[c].refcount = refs[c]

(* The buffer of a command and the command agree, whoever created it: the  *)
(* array announces as many arguments as there are; decoding gives each one *)
(* that is written, negative ones and the smallest int included, at its    *)
(* place among those that are, a long as an int, and texts if they fit     *)
(* into the buffer; and a task id that names the same instance.            *)
Agrees(h, command) ==
  LET decoded == Decode(command.buffer)
      values  == Values(h, command.args)
  IN /\ command.buffer.nelems = Len(values)
     /\ Len(decoded.args) = Cardinality(Written(values))
     /\ \A i \in Written(values) :
          ArgFits(values[i]) => decoded.args[Place(values, i)] = Arrives(values[i])
     /\ uint32(decoded.task_id) = uint32(command.task_id)
     /\ command.buffer.fn_name < SMALL_CMD_STR_LEN => decoded.fn_name = command.fn_name

BufferAgrees == \A c \in DOMAIN commands : Agrees(heap, commands[c])

(* command.h:145: "Unique command ID".                                     *)
UniqueCommandId ==
  \A c, d \in DOMAIN commands :
     (refs[c] > 0 /\ refs[d] > 0 /\ commands[c].id = commands[d].id) => c = d
=============================================================================
