------------------------------- MODULE Replay -------------------------------
(***************************************************************************)
(* The replay tool (replay/replay.cpp): its command loop, the list of      *)
(* events it loads, and step_event with the table by which it translates   *)
(* what the recorded program called its memory into what the replaying     *)
(* process calls it.                                                       *)
(*                                                                         *)
(* First a program runs and is recorded: it allocates, frees, copies and   *)
(* launches kernels as a correct program may, and `truth' remembers what   *)
(* its memory held after every call.  The capture has these calls by their *)
(* ids, as Capture leaves them: it may end early, and calls made at the    *)
(* same time by several threads may have changed places.  Then the capture *)
(* is replayed.                                                            *)
(*                                                                         *)
(* A call is known by `fx', its place in the order in which the calls took *)
(* effect, and a block of device memory by the call that allocated it, in  *)
(* the replaying process by the place of the event.  What is in a block or *)
(* a host array is the sequence of calls that made it: a copy from the     *)
(* host overwrites, a kernel works on what it finds.                       *)
(* Streams are not told apart: Events is read back without its column      *)
(* Stream, so that replay never finds a stream again and uses the default. *)
(***************************************************************************)
EXTENDS Integers, Sequences, FiniteSets

CONSTANTS
    Addrs,      \* device addresses the recorded program was given
    Hosts,      \* host arrays it copied to
    Sizes,      \* sizes it asked for
    Word,       \* the numbers an int holds are those of Word values around 0 (2^32)
    None,
    MaxEvents,  \* bound: calls recorded ...
    MaxOdd,     \* ... and those among them that are not Simple
    MaxRuns,    \* bound: run commands ...
    MaxLoaded,  \* ... and events loaded by all of them together
    MaxStrays   \* bound: step commands

ASSUME SizesAssumption == Sizes \subseteq Nat \ {0}
ASSUME WordAssumption == Word \in Nat \ {0} /\ Word % 2 = 0
ASSUME ReplayBounds ==
    MaxEvents \in Nat /\ MaxOdd \in Nat /\ MaxRuns \in Nat /\ MaxLoaded \in Nat /\ MaxStrays \in Nat

VARIABLES
    \* the recorded program and its recording
    at,          \* at[a]: the block at address a, or NoBlock
    truth,       \* history: what its memory held before the first and after each call
    recorded,    \* its calls, in the order they took effect in
    rows,        \* Events ORDER BY Id, each with its row of the table of its kind
    \* the replay tool
    phase,       \* "record", "prompt", "run", "gone"
    events, curr_event, allocations, timers, results,
    memory,      \* what its blocks and host_buffers hold
    \* history
    runs,        \* run commands given
    stepped,     \* ids of the events stepped
    failed       \* a step returned early, or had no event

program == <<at, truth, recorded, rows>>
tool == <<phase, events, curr_event, allocations, timers, results, memory>>
vars == <<program, tool, runs, stepped, failed>>

NoBlock == 0
Empty == [blocks |-> << >>, host |-> << >>]

(* A pointer: an address, and 0 for the beginning of the memory there. *)
Pointers == Addrs \X {0, 1}
ASSUME NamesAssumption == None \notin Pointers /\ Hosts \cap Nat = {}
Ops == {"malloc", "free", "h2d", "d2h", "d2d", "launch", "other"}
(* A row, with what step_event looks at.  ok: the recorded call succeeded; *)
(* strm: it was hipMemcpyWithStream; code: the kernel is in some recorded  *)
(* code object.  History: fx, and the blocks and host arrays it was about. *)
Event == [id : Nat, fx : Nat, uses : SUBSET (Nat \cup Hosts), op : Ops, ptr : Pointers \cup {None}, host : Hosts \cup {None},
          size : Sizes \cup {None}, ok : BOOLEAN, strm : BOOLEAN, code : BOOLEAN]

TypeOK ==
    /\ at \in [Addrs -> Nat]
    /\ \A i \in DOMAIN recorded : recorded[i] \in Event
    /\ Len(truth) = Len(recorded) + 1
    /\ \A i \in DOMAIN rows : rows[i] \in Event /\ rows[i].id = i
    /\ phase \in {"record", "prompt", "run", "gone"}
    /\ \A i \in DOMAIN events : events[i] \in Event
    /\ curr_event \in 0 .. Len(events)
    /\ DOMAIN allocations \subseteq Pointers
    /\ \A p \in DOMAIN allocations : allocations[p] \in 0 .. curr_event
    /\ \A i \in DOMAIN timers : timers[i] \in 0 .. curr_event
    /\ DOMAIN results \subseteq 1 .. Len(rows)
    /\ DOMAIN memory.blocks \subseteq 1 .. curr_event
    /\ DOMAIN memory.host \subseteq Hosts
    /\ runs \in 0 .. MaxRuns
    /\ failed \in BOOLEAN

Init ==
    /\ at = [a \in Addrs |-> NoBlock]
    /\ truth = <<Empty>>
    /\ recorded = << >>
    /\ rows = << >>
    /\ phase = "record"
    /\ events = << >>
    /\ curr_event = 0
    /\ allocations = << >>
    /\ timers = << >>
    /\ results = << >>
    /\ memory = Empty
    /\ runs = 0
    /\ stepped = << >>
    /\ failed = FALSE

-----------------------------------------------------------------------------
(* What a call does to a memory *)

(* f with value v at x, which may be new. *)
Put(f, x, v) == [y \in DOMAIN f \cup {x} |-> IF y = x THEN v ELSE f[y]]

Live(m) == DOMAIN m.blocks
Allocate(m, b) == [m EXCEPT !.blocks = Put(@, b, << >>)]
Release(m, b) == [m EXCEPT !.blocks = [c \in DOMAIN @ \ {b} |-> @[c]]]
CopyIn(m, b, i) == [m EXCEPT !.blocks = Put(@, b, <<i>>)]
CopyOut(m, b, h) == [m EXCEPT !.host = Put(@, h, m.blocks[b])]
Kernel(m, b, i) == [m EXCEPT !.blocks[b] = Append(@, i)]

-----------------------------------------------------------------------------
(* The recorded program *)

Row(op, uses) ==
    [id |-> 0, fx |-> Len(recorded) + 1, uses |-> uses, op |-> op, ptr |-> None, host |-> None,
     size |-> None, ok |-> TRUE, strm |-> FALSE, code |-> TRUE]
(* What step_event has a translation for: pointers to the beginning of a   *)
(* block, sizes an int holds, kernels whose code is recorded, copies       *)
(* between host and device on no stream.                                   *)
Simple(e) ==
    /\ e.op # "d2d" /\ e.ok /\ e.code /\ ~e.strm
    /\ e.ptr # None => e.ptr[2] = 0
    /\ e.size # None => e.size < Word \div 2

Now == truth[Len(truth)]
Record(e, m) ==
    /\ phase = "record"
    /\ Len(recorded) < MaxEvents
    /\ Simple(e) \/ Cardinality({i \in DOMAIN recorded : ~Simple(recorded[i])}) < MaxOdd
    /\ recorded' = Append(recorded, e)
    /\ truth' = Append(truth, m)
    /\ UNCHANGED <<rows, tool, runs, stepped, failed>>

Malloc(a, s) ==
    LET b == Len(recorded) + 1 IN
    /\ at[a] = NoBlock
    /\ at' = [at EXCEPT ![a] = b]
    /\ Record([Row("malloc", {b}) EXCEPT !.ptr = <<a, 0>>, !.size = s], Allocate(Now, b))

(* hipMalloc leaves *p alone when it fails, and *p is recorded. *)
MallocFails(a, s) ==
    /\ Record([Row("malloc", {}) EXCEPT !.ptr = <<a, 0>>, !.size = s, !.ok = FALSE], Now)
    /\ UNCHANGED at

Free(a) ==
    /\ at[a] # NoBlock
    /\ at' = [at EXCEPT ![a] = NoBlock]
    /\ Record([Row("free", {at[a]}) EXCEPT !.ptr = <<a, 0>>], Release(Now, at[a]))

MemcpyIn(p, strm) ==
    LET b == at[p[1]] IN
    /\ b # NoBlock
    /\ Record([Row("h2d", {b}) EXCEPT !.ptr = p, !.strm = strm],
              CopyIn(Now, b, Len(recorded) + 1))
    /\ UNCHANGED at

MemcpyOut(p, h, strm) ==
    LET b == at[p[1]] IN
    /\ b # NoBlock
    /\ Record([Row("d2h", {b, h}) EXCEPT !.ptr = p, !.host = h, !.strm = strm], CopyOut(Now, b, h))
    /\ UNCHANGED at

MemcpyWithin(a, b) ==
    /\ at[a] # NoBlock /\ at[b] # NoBlock
    /\ Record([Row("d2d", {at[a], at[b]}) EXCEPT !.ptr = <<a, 0>>],
              [Now EXCEPT !.blocks[at[a]] = Now.blocks[at[b]]])
    /\ UNCHANGED at

(* A kernel that works on one block. *)
LaunchKernel(p, code) ==
    LET b == at[p[1]] IN
    /\ b # NoBlock
    /\ Record([Row("launch", {b}) EXCEPT !.ptr = p, !.code = code],
              Kernel(Now, b, Len(recorded) + 1))
    /\ UNCHANGED at

(* Device queries, streams, synchronisation. *)
Other == Record(Row("other", {}), Now) /\ UNCHANGED at

Recording ==
    \/ \E a \in Addrs, s \in Sizes : Malloc(a, s) \/ MallocFails(a, s)
    \/ \E a \in Addrs : Free(a)
    \/ \E p \in Pointers, f \in BOOLEAN :
        \/ MemcpyIn(p, f)
        \/ \E h \in Hosts : MemcpyOut(p, h, f)
        \/ LaunchKernel(p, f)
    \/ \E a, b \in Addrs : MemcpyWithin(a, b)
    \/ Other

-----------------------------------------------------------------------------
(* What is captured *)

(* A correct program does not leave the order of these two calls open: it  *)
(* makes the later one when the earlier one has returned.                  *)
Conflict(e, f) ==
    /\ e.uses \cap f.uses # {}
    /\ e.op = "d2h" /\ f.op = "d2h" => e.host = f.host

(* The calls that may be captured, in the order of their ids: none without *)
(* those it depends on, and not before them (CausallyClosed in Capture).   *)
Captures ==
    {order \in UNION {[1 .. n -> DOMAIN recorded] : n \in 0 .. Len(recorded)} :
        /\ \A i, j \in DOMAIN order : order[i] = order[j] => i = j
        /\ \A i \in DOMAIN order : \A c \in 1 .. order[i] - 1 :
               Conflict(recorded[c], recorded[order[i]]) => \E j \in 1 .. i - 1 : order[j] = c}

(* The program is gone and the tool is started. *)
Open ==
    /\ phase = "record"
    /\ \E order \in Captures :
          rows' = [i \in DOMAIN order |-> [recorded[order[i]] EXCEPT !.id = i]]
    /\ phase' = "prompt"
    /\ UNCHANGED <<at, truth, recorded, events, curr_event, allocations, timers, results, memory,
                   runs, stepped, failed>>

-----------------------------------------------------------------------------
(* step_event *)

(* sqlite3_bind_int of a size_t, read back into a size_t: the lower half   *)
(* of the bits, with a sign; less than 0 is more than any device has.      *)
Bound(n) == LET m == n % Word IN IF m < Word \div 2 THEN m ELSE m - Word

Pos == curr_event + 1
Replayed == events[Pos]
Stepping(op) == phase = "run" /\ curr_event < Len(events) /\ Replayed.op = op

(* Back in the loop of the run command. *)
Advance ==
    /\ curr_event' = Pos
    /\ stepped' = Append(stepped, Replayed.id)
    /\ UNCHANGED <<program, events, results, runs>>

(* return 0, the timer kept, and return -1 *)
Finish ==
    /\ timers' = Append(timers, Pos)
    /\ UNCHANGED <<phase, failed>>
    /\ Advance
GiveUp ==
    /\ failed' = TRUE
    /\ UNCHANGED <<phase, timers>>
    /\ Advance
(* The process is brought down in the middle of the event. *)
Fault ==
    /\ phase' = "gone"
    /\ UNCHANGED <<program, events, curr_event, allocations, timers, results, memory,
                   runs, stepped, failed>>

(* Where a pointer that denotes no live block may lead: the device may have *)
(* put another block there.                                                *)
Stray == {NoBlock} \cup Live(memory)
(* The blocks an entry of allocations may denote, and NoBlock for none. *)
Denotes(p) == IF allocations[p] \in Live(memory) THEN {allocations[p]}
              ELSE IF allocations[p] = NoBlock THEN {NoBlock} ELSE Stray
Known(p) == p \in DOMAIN allocations

(* hipMalloc succeeds.  insert() leaves alone an entry that is there. *)
StepMalloc ==
    /\ Stepping("malloc")
    /\ Bound(Replayed.size) > 0
    /\ memory' = Allocate(memory, Pos)
    /\ allocations' = IF Known(Replayed.ptr) THEN allocations
                      ELSE Put(allocations, Replayed.ptr, Pos)
    /\ Finish

(* It gives no memory: no size, too large a size, or the device is full. *)
StepMallocFails ==
    /\ Stepping("malloc")
    /\ UNCHANGED <<allocations, memory>>
    /\ GiveUp

(* Slip: the pointer found in the table is not used. *)
StepFreeNot ==
    /\ Stepping("free")
    /\ UNCHANGED <<allocations, memory>>
    /\ Finish

(* hipFree of what the table has; the entry stays. *)
StepFree ==
    /\ Stepping("free")
    /\ \E b \in IF Known(Replayed.ptr) THEN Denotes(Replayed.ptr) ELSE {NoBlock} :
          memory' = IF b = NoBlock THEN memory ELSE Release(memory, b)
    /\ UNCHANGED allocations
    /\ Finish

(* hipMemcpyWithStream is given a stream that run never set: it may refuse. *)
Refused == IF Replayed.strm THEN BOOLEAN ELSE {FALSE}

(* hipMemcpyHostToDevice.  A pointer that is not in the table is looked at  *)
(* all the same, behind the end of it.                                     *)
StepMemcpyIn ==
    /\ Stepping("h2d")
    /\ \E b \in IF Known(Replayed.ptr) THEN Denotes(Replayed.ptr) ELSE Stray, r \in Refused :
          memory' = IF b = NoBlock \/ r THEN memory ELSE CopyIn(memory, b, Replayed.fx)
    /\ UNCHANGED allocations
    /\ Finish
StepMemcpyInFault ==
    /\ Stepping("h2d")
    /\ ~Known(Replayed.ptr)
    /\ Fault

(* hipMemcpyDeviceToHost.  allocations[src] enters an unknown pointer, as  *)
(* null; the buffer exists from then on.                                   *)
StepMemcpyOut ==
    /\ Stepping("d2h")
    /\ allocations' = IF Known(Replayed.ptr) THEN allocations
                      ELSE Put(allocations, Replayed.ptr, NoBlock)
    /\ \E b \in IF Known(Replayed.ptr) THEN Denotes(Replayed.ptr) ELSE {NoBlock}, r \in Refused :
          memory' = IF b # NoBlock /\ ~r THEN CopyOut(memory, b, Replayed.host)
                    ELSE IF Replayed.host \in DOMAIN memory.host THEN memory
                    ELSE [memory EXCEPT !.host = Put(@, Replayed.host, << >>)]
    /\ Finish

(* The argument is translated if it is in the table, else the kernel gets  *)
(* the recorded pointer.                                                   *)
StepLaunch ==
    /\ Stepping("launch")
    /\ Replayed.code
    /\ \E b \in IF Known(Replayed.ptr) THEN Denotes(Replayed.ptr) ELSE Stray :
          memory' = IF b = NoBlock THEN memory ELSE Kernel(memory, b, Replayed.fx)
    /\ UNCHANGED allocations
    /\ Finish
StepLaunchFault ==
    /\ Stepping("launch")
    /\ Replayed.code
    /\ Known(Replayed.ptr) => allocations[Replayed.ptr] \notin Live(memory)
    /\ Fault

(* The kernel is in no code object: return -1. *)
StepLaunchNotFound ==
    /\ Stepping("launch")
    /\ ~Replayed.code
    /\ UNCHANGED <<allocations, memory>>
    /\ GiveUp

(* Slip: an event replay does nothing for keeps no timer. *)
StepOtherUntimed ==
    /\ Stepping("other") \/ Stepping("d2d")
    /\ UNCHANGED <<allocations, memory, timers, phase, failed>>
    /\ Advance

(* Device queries, streams, events not handled; and hipMemcpy in neither   *)
(* direction, for which step_event has no branch.                          *)
StepOther ==
    /\ Stepping("other") \/ Stepping("d2d")
    /\ UNCHANGED <<allocations, memory>>
    /\ Finish

-----------------------------------------------------------------------------
(* main *)

(* Slip: the events loaded before are played again. *)
RunAgain ==
    /\ phase = "prompt"
    /\ Len(events) + Len(rows) <= MaxLoaded /\ runs < MaxRuns
    /\ runs' = runs + 1
    /\ events' = events \o rows
    /\ curr_event' = 0
    /\ phase' = "run"
    /\ UNCHANGED <<program, allocations, timers, results, memory, stepped, failed>>

(* 'r': the rows of Events, ORDER BY Id, behind those loaded before. *)
Run ==
    /\ phase = "prompt"
    /\ Len(events) + Len(rows) <= MaxLoaded /\ runs < MaxRuns
    /\ runs' = runs + 1
    /\ events' = events \o rows
    /\ phase' = "run"
    /\ UNCHANGED <<program, curr_event, allocations, timers, results, memory, stepped, failed>>

(* The results are made anew, timers[i] under the id of events[i]; a second *)
(* row of one id is refused.  A timer more than there are events, which    *)
(* step commands leave, gets the id of no event and is left out here.      *)
Report ==
    /\ phase = "run"
    /\ curr_event = Len(events)
    /\ LET timed(id) == {i \in DOMAIN timers : i <= Len(events) /\ events[i].id = id}
           first(S) == CHOOSE i \in S : \A j \in S : i <= j
       IN  results' = [id \in {events[i].id : i \in {i \in DOMAIN timers : i <= Len(events)}} |->
                          timers[first(timed(id))]]
    /\ phase' = "prompt"
    /\ UNCHANGED <<program, events, curr_event, allocations, timers, memory, runs, stepped, failed>>

(* Slip: 'n' moves on. *)
StepCommandMoves ==
    /\ phase = "prompt"
    /\ curr_event' = curr_event + 1
    /\ failed' = TRUE
    /\ UNCHANGED <<program, phase, events, allocations, timers, results, memory, runs, stepped>>

(* 'n' steps events[curr_event] and stays there.  There is no such event   *)
(* (PromptAtEnd): what lies behind the vector brings the tool down or is   *)
(* taken for an event that is not handled.                                 *)
StepCommand ==
    /\ phase = "prompt"
    /\ curr_event = Len(events)
    /\ Cardinality({i \in DOMAIN timers : timers[i] = NoBlock}) < MaxStrays
    /\ timers' = Append(timers, NoBlock)
    /\ failed' = TRUE
    /\ phase' \in IF events = << >> THEN {"gone"} ELSE {"prompt", "gone"}
    /\ UNCHANGED <<program, events, curr_event, allocations, results, memory, runs, stepped>>

(* End of input. *)
Quit ==
    /\ phase = "prompt"
    /\ phase' = "gone"
    /\ UNCHANGED <<program, events, curr_event, allocations, timers, results, memory,
                   runs, stepped, failed>>

Step ==
    \/ StepMalloc \/ StepMallocFails \/ StepFree
    \/ StepMemcpyIn \/ StepMemcpyInFault \/ StepMemcpyOut
    \/ StepLaunch \/ StepLaunchFault \/ StepLaunchNotFound \/ StepOther

Next == Recording \/ Open \/ Run \/ Step \/ Report \/ StepCommand \/ Quit

Spec == Init /\ [][Next]_vars

-----------------------------------------------------------------------------
(* The address has not been handed out before the i-th event. *)
FreshAddress(i) ==
    events[i].op = "malloc" =>
        \A j \in 1 .. i - 1 : events[j].op = "malloc" => events[j].ptr # events[i].ptr

(* What the recorded program had of block or host array x after the last   *)
(* of the calls about x that have been stepped.                            *)
About(x) == {i \in 1 .. curr_event : x \in events[i].uses}
Then(x) == truth[1 + CHOOSE c \in {events[i].fx : i \in About(x)} :
                        \A i \in About(x) : events[i].fx <= c]

ReplaysLike ==
    /\ Live(memory) \subseteq {i \in 1 .. curr_event : events[i].op = "malloc"}
    /\ \A i \in 1 .. curr_event : events[i].op = "malloc" =>
          LET b == events[i].fx IN
          IF b \in Live(Then(b))
          THEN i \in Live(memory) /\ memory.blocks[i] = Then(b).blocks[b]
          ELSE i \notin Live(memory)
    /\ DOMAIN memory.host = {h \in Hosts : About(h) # {}}
    /\ \A h \in DOMAIN memory.host : memory.host[h] = Then(h).host[h]

(* As long as the recording is simple and hands out no address twice, each *)
(* block and host array holds after every event what the recorded program  *)
(* had in it after the same calls: allocations leads every copy, launch    *)
(* and free to the block the call was about, and none is leaked, also when *)
(* calls that were made at the same time have changed places, and up to    *)
(* the end of a capture that is cut off.  (Before the end of the first     *)
(* run: a second run hands out every address again.)                       *)
SimpleReplays ==
    (~failed /\ curr_event <= Len(rows)
             /\ \A i \in 1 .. curr_event : Simple(events[i]) /\ FreshAddress(i))
        => ReplaysLike

(* Whatever fails on the way, every run command steps every recorded event *)
(* once, in the order of their ids, and the prompt comes back with nothing *)
(* left to step: 'n' and 's' have no event to work on, ever.               *)
PromptAtEnd ==
    /\ Len(stepped) = curr_event
    /\ \A i \in DOMAIN stepped : stepped[i] = ((i - 1) % Len(rows)) + 1
    /\ phase = "prompt" => curr_event = runs * Len(rows) /\ Len(events) = curr_event

(* If no step has failed, the results have one row for every event, and    *)
(* its time is that of the first replay of that event.                     *)
ResultsPaired ==
    (phase = "prompt" /\ ~failed /\ runs > 0) =>
        results = [i \in 1 .. Len(rows) |-> i]

-----------------------------------------------------------------------------
(* What the documentation says and the code does not do.                   *)

(* A simple sequence of calls is replayed, also one in which an address is *)
(* handed out again.                                                       *)
SimpleSequencesReplay ==
    (~failed /\ curr_event <= Len(rows) /\ \A i \in DOMAIN rows : Simple(rows[i]))
        => ReplaysLike
=============================================================================
