------------------------------ MODULE KernelArgs ------------------------------
(***************************************************************************)
(* The arguments of a kernel, from the code object that describes them to  *)
(* the kernel that is replayed.                                            *)
(*                                                                         *)
(* While a program is recorded, __hipRegisterFatBinary enters every kernel *)
(* of a code object into one table, kernel_arg_sizes, under the name of    *)
(* the kernel and under that name followed by the number of an argument    *)
(* (elf.h).  hipLaunchKernel looks the kernel up by its name and copies    *)
(* the arguments into one buffer, which is recorded (hip-fatbin.cpp).  The *)
(* replay tool reads the recorded code objects once more, finds the        *)
(* pointers in the buffer and replaces them, and launches the first kernel *)
(* of that name (replay.cpp).                                              *)
(*                                                                         *)
(* A buffer is a function on the offsets of its bytes; byte b of a value v *)
(* is <<v, b>>.  A name is a sequence of characters, the digits among them *)
(* the numbers from 0 to 9.  XXH64 does not collide.                       *)
(***************************************************************************)
EXTENDS Integers, Sequences, FiniteSets

CONSTANTS
    Objects,     \* code objects: sequences of kernels, each a name and the kinds of its arguments
    Pointers,    \* device addresses the program passes
    Allocated,   \* those that replay has in its table ...
    Moved,       \* ... and the address it has for each
    Numbers,     \* values that are no addresses
    Junk,        \* a byte of something else
    Zero,        \* a byte of zero
    MaxLaunches  \* bound: launches made

Kinds == {"pointer", "number", "hidden"}
Kernels == UNION {{o[i] : i \in DOMAIN o} : o \in Objects}

ASSUME ObjectsAssumption == \A o \in Objects : o \in Seq(Kernels)
ASSUME KernelAssumption ==
    \A k \in Kernels : k.args \in Seq(Kinds) /\ k.name \in Seq(UNION {
        {j.name[i] : i \in DOMAIN j.name} : j \in Kernels})
(* The runtime's own arguments come behind the program's. *)
ASSUME HiddenLast ==
    \A k \in Kernels : \A i, j \in DOMAIN k.args :
        (k.args[i] = "hidden" /\ i < j) => k.args[j] = "hidden"
ASSUME MovedAssumption ==
    Allocated \subseteq Pointers /\ DOMAIN Moved = Allocated /\ MaxLaunches \in Nat
ASSUME NumbersAssumption == Numbers \cap Pointers = {}

VARIABLES
    objects,   \* the code objects registered, in that order: the rows of Code
    table,     \* kernel_arg_sizes
    todo,      \* the insertions left of the code object being registered
    rows,      \* the rows of EventsLaunch; kernel and args are history
    raced,     \* history: a launch read the table while a new key was inserted
    phase,     \* "record", "replay", or "gone": an exception nobody catches
    launched   \* what the replayed kernels were given

vars == <<objects, table, todo, rows, raced, phase, launched>>

-----------------------------------------------------------------------------
(* What the compiler wrote into the code object *)

sizeof == [kind \in Kinds |-> IF kind = "number" THEN 4 ELSE 8]

(* Each argument behind the one before, where its size divides the offset. *)
Offset(k) ==
    LET after[i \in 0 .. Len(k.args)] ==
            IF i = 0 THEN 0
            ELSE LET s == sizeof[k.args[i]]
                 IN  ((after[i - 1] + s - 1) \div s) * s + s
    IN  [i \in DOMAIN k.args |-> after[i] - sizeof[k.args[i]]]

(* arg_infos, as the metadata of the kernel has it. *)
ArgInfos(k) == [i \in DOMAIN k.args |->
                   [value_kind |-> k.args[i], size |-> sizeof[k.args[i]], offset |-> Offset(k)[i]]]
Visible(k) == {i \in DOMAIN k.args : k.args[i] # "hidden"}

-----------------------------------------------------------------------------
(* getArgInfo *)

(* The decimal digits of a number. *)
to_string[n \in Nat] == IF n < 10 THEN <<n>> ELSE Append(to_string[n \div 10], n % 10)

(* kernel_name + std::to_string(i) *)
Key(name, i) == name \o to_string[i]

(* Slip: one argument too many. *)
KernelEntriesLess(k) ==
    [i \in 1 .. Len(k.args) + 1 |->
        IF i <= Len(k.args)
        THEN [key |-> Key(k.name, i - 1),
              entry |-> [size |-> IF k.args[i] = "hidden" THEN 0 ELSE ArgInfos(k)[i].size,
                         offset |-> ArgInfos(k)[i].offset]]
        ELSE [key |-> k.name, entry |-> [size |-> Len(k.args) + 1, offset |-> 0]]]

(* An entry for every argument, hidden ones without a size, and then one   *)
(* under the name itself whose size is the number of arguments.            *)
KernelEntries(k) ==
    [i \in 1 .. Len(k.args) + 1 |->
        IF i <= Len(k.args)
        THEN [key |-> Key(k.name, i - 1),
              entry |-> [size |-> IF k.args[i] = "hidden" THEN 0 ELSE ArgInfos(k)[i].size,
                         offset |-> ArgInfos(k)[i].offset]]
        ELSE [key |-> k.name, entry |-> [size |-> Len(k.args), offset |-> 0]]]

(* The insertions for a code object: kernel after kernel. *)
Insertions(o) ==
    LET upto[i \in 0 .. Len(o)] == IF i = 0 THEN << >> ELSE upto[i - 1] \o KernelEntries(o[i])
    IN  upto[Len(o)]

(* Slip: a code object that was registered is registered again. *)
RegisterAgain(o) ==
    /\ phase = "record"
    /\ todo = << >>
    /\ objects' = Append(objects, o)
    /\ todo' = Insertions(o)
    /\ UNCHANGED <<table, rows, raced, phase, launched>>

(* __hipRegisterFatBinary, once for every code object. *)
Register(o) ==
    /\ phase = "record"
    /\ todo = << >>
    /\ \A i \in DOMAIN objects : objects[i] # o
    /\ objects' = Append(objects, o)
    /\ todo' = Insertions(o)
    /\ UNCHANGED <<table, rows, raced, phase, launched>>

(* argument_sizes[hash] = size_offset, over what may be there. *)
Insert ==
    /\ todo # << >>
    /\ table' = [key \in DOMAIN table \cup {Head(todo).key} |->
                    IF key = Head(todo).key THEN Head(todo).entry ELSE table[key]]
    /\ todo' = Tail(todo)
    /\ UNCHANGED <<objects, rows, raced, phase, launched>>

-----------------------------------------------------------------------------
(* hipLaunchKernel *)

(* num_args: none if the name is not in the table. *)
num_args(name) == IF name \in DOMAIN table THEN table[name].size ELSE 0
(* kernel_arg_sizes.at(hash) throws if there is no such entry. *)
Throws(name) == \E i \in 0 .. num_args(name) - 1 : Key(name, i) \notin DOMAIN table
Entry(name, i) == table[Key(name, i)]

(* Slip: the sizes are added up, and what lies between arguments forgotten. *)
total_size_sum(name) ==
    LET upto[n \in 0 .. num_args(name)] ==
            IF n = 0 THEN 0 ELSE upto[n - 1] + Entry(name, n - 1).size
    IN  upto[num_args(name)]

(* The end of the last argument; a hidden one ends where it begins. *)
total_size(name) ==
    IF num_args(name) = 0 THEN 0
    ELSE LET e == Entry(name, num_args(name) - 1) IN e.offset + e.size

(* The i-th memcpy (from 0): where it writes and what, byte after byte.    *)
(* What lies behind a value, or behind the program's array of arguments,   *)
(* is anything.  In the hidden case it is the element of that array.  (A   *)
(* null element of a size, which the runtime could not read either, is     *)
(* not in the program's array.)                                            *)
Copied(name, args, kinds, i) ==
    LET e == Entry(name, i)
        copy(v, n, have) == [o \in e.offset .. e.offset + n - 1 |->
                                IF o - e.offset < have THEN <<v, o - e.offset>> ELSE Junk]
    IN  IF e.size # 0
        THEN IF i < Len(args)
             THEN copy(args[i + 1], e.size, sizeof[kinds[i + 1]])
             ELSE copy(Junk, e.size, 0)
        ELSE copy(Junk, 8, 0)

(* All of them, the later over the earlier ones: in the buffer and behind it. *)
Writes(name, args, kinds) ==
    LET last(o) == {i \in 0 .. num_args(name) - 1 :
                      /\ o \in DOMAIN Copied(name, args, kinds, i)
                      /\ \A j \in i + 1 .. num_args(name) - 1 :
                            o \notin DOMAIN Copied(name, args, kinds, j)}
        offsets == UNION {DOMAIN Copied(name, args, kinds, i) : i \in 0 .. num_args(name) - 1}
    IN  [o \in offsets \cup 0 .. total_size(name) - 1 |->
            IF o \in offsets THEN LET i == CHOOSE i \in last(o) : TRUE
                                  IN  Copied(name, args, kinds, i)[o]
            ELSE Zero]
arg_data(name, args, kinds) ==
    [o \in 0 .. total_size(name) - 1 |-> Writes(name, args, kinds)[o]]
Beyond(name, args, kinds) == DOMAIN Writes(name, args, kinds) \ (0 .. total_size(name) - 1)

Row(k, args, data, beyond) ==
    [kernel_name |-> k.name, argdata |-> data, kernel |-> k, args |-> args, beyond |-> beyond]
Values(kind) == IF kind = "pointer" THEN Pointers ELSE Numbers

(* A key that is not there yet may move others while it is inserted. *)
Moving == todo # << >> /\ Head(todo).key \notin DOMAIN table

(* The program launches a kernel of an object that has been registered,    *)
(* with an array of its own arguments; the runtime adds the hidden ones.   *)
Program(k) ==
    /\ phase = "record"
    /\ Len(rows) < MaxLaunches
    /\ \E i \in DOMAIN objects : /\ k \in {objects[i][j] : j \in DOMAIN objects[i]}
                                 /\ i = Len(objects) => todo = << >>

Launch(k, args) ==
    /\ Program(k)
    /\ ~Throws(k.name)
    /\ rows' = Append(rows, Row(k, args, arg_data(k.name, args, k.args),
                                Beyond(k.name, args, k.args)))
    /\ raced' = (raced \/ Moving)
    /\ UNCHANGED <<objects, table, todo, phase, launched>>

(* An argument of the kernel is not in the table: std::out_of_range.  Or   *)
(* the table has more of them than the program's array.                    *)
LaunchFails(k) ==
    /\ Program(k)
    /\ \E i \in 0 .. num_args(k.name) - 1 :
          Key(k.name, i) \in DOMAIN table =>
              (i >= Cardinality(Visible(k)) /\ Entry(k.name, i).size # 0)
    /\ phase' = "gone"
    /\ UNCHANGED <<objects, table, todo, rows, raced, launched>>

(* The table is read while its entries move: the name is not found, so     *)
(* nothing is recorded of the arguments, or an argument is not found.      *)
LaunchRaces(k, args) ==
    /\ Program(k)
    /\ Moving
    /\ raced' = TRUE
    /\ \/ phase' = "gone" /\ UNCHANGED rows
       \/ rows' = Append(rows, Row(k, args, << >>, {})) /\ UNCHANGED phase
    /\ UNCHANGED <<objects, table, todo, launched>>

-----------------------------------------------------------------------------
(* step_event *)

Has(o, name) == \E i \in DOMAIN o : o[i].name = name
(* In a code object the kernel of this name; arg_infos of the last one.  *)
KernelOf(o, name) == o[CHOOSE i \in DOMAIN o : o[i].name = name]

(* oldGetArgInfo over all code objects: names_to_info[kernel_name] is      *)
(* overwritten, so the last one counts ...                                 *)
DescribedBy(name) ==
    LET I == {i \in DOMAIN objects : Has(objects[i], name)}
    IN  KernelOf(objects[CHOOSE i \in I : \A j \in I : j <= i], name)
(* ... while hipModuleGetFunction is asked until one has the kernel.       *)
Function(name) ==
    LET I == {i \in DOMAIN objects : Has(objects[i], name)}
    IN  KernelOf(objects[CHOOSE i \in I : \A j \in I : i <= j], name)

(* Slip: an argument is looked for where the ones before it end, whatever  *)
(* its offset.                                                             *)
TranslatedPacked(name, data) ==
    LET k == DescribedBy(name)
        upto[i \in 1 .. Len(k.args) + 1] == IF i = 1 THEN 0 ELSE upto[i - 1] + sizeof[k.args[i - 1]]
        offset(i) == upto[i]
        at(i) == {p \in Allocated : \A b \in 0 .. 7 :
                     offset(i) + b \in DOMAIN data /\ data[offset(i) + b] = <<p, b>>}
        buffers == {i \in DOMAIN k.args : k.args[i] = "pointer" /\ at(i) # {}}
    IN  [o \in DOMAIN data |->
            IF \E i \in buffers : o \in offset(i) .. offset(i) + 7
            THEN LET i == CHOOSE i \in buffers : o \in offset(i) .. offset(i) + 7
                 IN  <<Moved[CHOOSE p \in at(i) : TRUE], o - offset(i)>>
            ELSE data[o]]

(* A global_buffer argument whose value is in allocations gets what is     *)
(* there; other arguments stay what they are.                              *)
Translated(name, data) ==
    LET k == DescribedBy(name)
        offset(i) == ArgInfos(k)[i].offset
        at(i) == {p \in Allocated : \A b \in 0 .. 7 :
                     offset(i) + b \in DOMAIN data /\ data[offset(i) + b] = <<p, b>>}
        buffers == {i \in DOMAIN k.args : k.args[i] = "pointer" /\ at(i) # {}}
    IN  [o \in DOMAIN data |->
            IF \E i \in buffers : o \in offset(i) .. offset(i) + 7
            THEN LET i == CHOOSE i \in buffers : o \in offset(i) .. offset(i) + 7
                 IN  <<Moved[CHOOSE p \in at(i) : TRUE], o - offset(i)>>
            ELSE data[o]]

(* The program has exited and the tool is started. *)
Open ==
    /\ phase = "record"
    /\ todo = << >>
    /\ phase' = "replay"
    /\ UNCHANGED <<objects, table, todo, rows, raced, launched>>

(* EVENT_LAUNCH: HIP_LAUNCH_PARAM_BUFFER_POINTER with the buffer. *)
ReplayLaunch ==
    /\ phase = "replay"
    /\ Len(launched) < Len(rows)
    /\ LET r == rows[Len(launched) + 1]
       IN  launched' = Append(launched, Translated(r.kernel_name, r.argdata))
    /\ UNCHANGED <<objects, table, todo, rows, raced, phase>>

-----------------------------------------------------------------------------
Init ==
    /\ objects = << >>
    /\ table = << >>
    /\ todo = << >>
    /\ rows = << >>
    /\ raced = FALSE
    /\ phase = "record"
    /\ launched = << >>

(* The arguments the program passes to a kernel. *)
Arguments(k) == {a \in [Visible(k) -> Pointers \cup Numbers] :
                    \A i \in Visible(k) : a[i] \in Values(k.args[i])}

Next ==
    \/ \E o \in Objects : Register(o)
    \/ Insert
    \/ \E k \in Kernels :
        \/ \E a \in Arguments(k) : Launch(k, a) \/ LaunchRaces(k, a)
        \/ LaunchFails(k)
    \/ Open
    \/ ReplayLaunch

Spec == Init /\ [][Next]_vars

-----------------------------------------------------------------------------
Registered == UNION {{objects[i][j] : j \in DOMAIN objects[i]} : i \in DOMAIN objects}

TypeOK ==
    /\ \A i \in DOMAIN objects : objects[i] \in Objects \ {objects[j] : j \in 1 .. i - 1}
    /\ \A key \in DOMAIN table : table[key] \in [size : Nat, offset : Nat]
    /\ \A i \in DOMAIN todo : todo[i].entry \in [size : Nat, offset : Nat]
    /\ \A i \in DOMAIN rows : rows[i].kernel \in Registered
    /\ raced \in BOOLEAN
    /\ phase \in {"record", "replay", "gone"}
    /\ Len(launched) <= Len(rows)

(* No kernel is called like another one with a number behind: the table    *)
(* would have one entry for the one and an argument of the other, and for  *)
(* arguments of both if the numbers run together (k and 10, k1 and 0).     *)
Keys(k) == {k.name} \cup {Key(k.name, i) : i \in 0 .. Len(k.args) - 1}
KeysDistinct == \A k, l \in Registered : k.name # l.name => Keys(k) \cap Keys(l) = {}
(* Kernels of one name in several code objects have the same arguments;    *)
(* those of the runtime may differ.                                        *)
SameVisible ==
    \A k, l \in Registered : k.name = l.name =>
        /\ Visible(k) = Visible(l)
        /\ \A i \in Visible(k) : k.args[i] = l.args[i]
Orderly == KeysDistinct /\ SameVisible /\ ~raced

(* What a replayed kernel is given is what the program passed: every       *)
(* argument of the function that is launched stands where that function    *)
(* looks for it, addresses replaced by those replay has for them.  This    *)
(* takes three readings of the metadata (the table, the last code object   *)
(* of that name for the pointers, the first for the code), and holds       *)
(* although the table is overwritten by every code object that is loaded   *)
(* in between.                                                             *)
ArgumentsArrive ==
    Orderly => \A n \in DOMAIN launched :
        LET k == Function(rows[n].kernel_name)
            value(i) == LET v == rows[n].args[i] IN IF v \in Allocated THEN Moved[v] ELSE v
        IN  \A i \in Visible(k) : \A b \in 0 .. sizeof[k.args[i]] - 1 :
                LET o == Offset(k)[i] + b
                IN  o \in DOMAIN launched[n] /\ launched[n][o] = <<value(i), b>>

(* Packing the arguments writes nothing behind the buffer, if the kernel   *)
(* has no hidden arguments, and never more than one address behind it.     *)
WithinBuffer ==
    Orderly => \A n \in DOMAIN rows :
        /\ Cardinality(rows[n].beyond) <= 8
        /\ rows[n].beyond # {} =>
              \E k \in Registered : k.name = rows[n].kernel_name /\ Visible(k) # DOMAIN k.args

(* Looking the arguments up does not bring the recorded program down.      *)
LaunchGoesOn == Orderly => phase # "gone"

-----------------------------------------------------------------------------
(* What the documentation says and the code does not do.                   *)

(* Recording leaves the program alone: it writes nothing but its buffer.   *)
NothingOverwritten == Orderly => \A n \in DOMAIN rows : rows[n].beyond = {}
=============================================================================
