---------------------------- MODULE ReplayProofs ----------------------------
(***************************************************************************)
(* Proofs about Replay, for any addresses, host arrays, sizes and bounds:  *)
(* the types, that every run command steps every recorded event once and   *)
(* in order, that the results pair events with their times, and that a     *)
(* simple recording that hands out no address twice replays as it ran.     *)
(*                                                                         *)
(* The last needs most.  Story says what each recorded call did to the     *)
(* program's memory, and Quiet that a block stays as it is between the     *)
(* calls about it.  RowsTrue says that the rows are those calls, and that  *)
(* of two calls that conflict the earlier one has the earlier row.  From   *)
(* these follows CaughtUp: when a row's turn comes, the last replayed call *)
(* about its block has left the block as the row's own call found it, even *)
(* where independent calls have changed places.  Agrees then says of the   *)
(* replaying process, row by row, that allocations leads to the right      *)
(* block and that blocks and host arrays hold what they held; there is one *)
(* lemma Follow... for each kind of event.                                 *)
(***************************************************************************)
EXTENDS Replay, ModArithmetic, TLAPS

-----------------------------------------------------------------------------
(* Memory *)

Memories ==
    [blocks : UNION {[S -> Seq(Nat)] : S \in SUBSET Nat},
     host : UNION {[S -> Seq(Nat)] : S \in SUBSET Hosts}]

(* A memory is a record of two functions, and such a record is a memory.   *)
LEMMA MemoryIs ==
  ASSUME NEW m \in Memories
  PROVE  /\ m = [blocks |-> m.blocks, host |-> m.host]
         /\ DOMAIN m.blocks \subseteq Nat /\ DOMAIN m.host \subseteq Hosts
         /\ m.blocks \in [DOMAIN m.blocks -> Seq(Nat)]
         /\ m.host \in [DOMAIN m.host -> Seq(Nat)]
  BY DEF Memories
(* The converse: two functions of the right kind make a memory.            *)
LEMMA MemoryMade ==
  ASSUME NEW B \in SUBSET Nat, NEW H \in SUBSET Hosts,
         NEW f \in [B -> Seq(Nat)], NEW g \in [H -> Seq(Nat)]
  PROVE  [blocks |-> f, host |-> g] \in Memories
  BY DEF Memories

(* What the calls do to a memory, field by field.                          *)
LEMMA EmptyIs == Empty \in Memories /\ Live(Empty) = {} /\ DOMAIN Empty.host = {}
<1>1. << >> \in [{} -> Seq(Nat)]
  OBVIOUS
<1>2. Empty \in Memories
  BY <1>1, MemoryMade DEF Empty
<1> QED
  BY <1>2 DEF Empty, Live

(* hipMalloc: one more live block, with nothing in it.                     *)
LEMMA AllocateIs ==
  ASSUME NEW m \in Memories, NEW b \in Nat
  PROVE  /\ Allocate(m, b) \in Memories
         /\ Live(Allocate(m, b)) = Live(m) \cup {b}
         /\ Allocate(m, b).blocks[b] = << >>
         /\ \A c \in Live(m) \ {b} : Allocate(m, b).blocks[c] = m.blocks[c]
         /\ Allocate(m, b).host = m.host
<1> DEFINE f == Put(m.blocks, b, << >>)
<1>1. Allocate(m, b) = [blocks |-> f, host |-> m.host]
  BY MemoryIs DEF Allocate
<1>2. f \in [DOMAIN m.blocks \cup {b} -> Seq(Nat)]
  BY MemoryIs DEF Put
<1> HIDE DEF f
<1>3. Allocate(m, b) \in Memories
  <2>1. DOMAIN m.blocks \cup {b} \in SUBSET Nat /\ DOMAIN m.host \in SUBSET Hosts
    BY MemoryIs
  <2>2. m.blocks \in [DOMAIN m.blocks -> Seq(Nat)] /\ m.host \in [DOMAIN m.host -> Seq(Nat)]
    BY MemoryIs
  <2> QED
    BY <1>1, <1>2, <2>1, <2>2, MemoryMade
<1> QED
  BY <1>1, <1>3 DEF Live, Put, f

(* hipFree: the block is gone and the others stay.                         *)
LEMMA ReleaseIs ==
  ASSUME NEW m \in Memories, NEW b
  PROVE  /\ Release(m, b) \in Memories
         /\ Live(Release(m, b)) = Live(m) \ {b}
         /\ \A c \in Live(m) \ {b} : Release(m, b).blocks[c] = m.blocks[c]
         /\ Release(m, b).host = m.host
<1> DEFINE f == [c \in DOMAIN m.blocks \ {b} |-> m.blocks[c]]
<1>1. Release(m, b) = [blocks |-> f, host |-> m.host]
  BY MemoryIs DEF Release
<1>2. f \in [DOMAIN m.blocks \ {b} -> Seq(Nat)]
  BY MemoryIs
<1> HIDE DEF f
<1>3. Release(m, b) \in Memories
  <2>1. DOMAIN m.blocks \ {b} \in SUBSET Nat /\ DOMAIN m.host \in SUBSET Hosts
    BY MemoryIs
  <2>2. m.blocks \in [DOMAIN m.blocks -> Seq(Nat)] /\ m.host \in [DOMAIN m.host -> Seq(Nat)]
    BY MemoryIs
  <2> QED
    BY <1>1, <1>2, <2>1, <2>2, MemoryMade
<1> QED
  BY <1>1, <1>3 DEF Live, f

(* A copy from the host overwrites the block.                              *)
LEMMA CopyInIs ==
  ASSUME NEW m \in Memories, NEW b \in Nat, NEW i \in Nat
  PROVE  /\ CopyIn(m, b, i) \in Memories
         /\ Live(CopyIn(m, b, i)) = Live(m) \cup {b}
         /\ CopyIn(m, b, i).blocks[b] = <<i>>
         /\ \A c \in Live(m) \ {b} : CopyIn(m, b, i).blocks[c] = m.blocks[c]
         /\ CopyIn(m, b, i).host = m.host
<1> DEFINE f == Put(m.blocks, b, <<i>>)
<1>1. CopyIn(m, b, i) = [blocks |-> f, host |-> m.host]
  BY MemoryIs DEF CopyIn
<1>2. f \in [DOMAIN m.blocks \cup {b} -> Seq(Nat)]
  BY MemoryIs DEF Put
<1> HIDE DEF f
<1>3. CopyIn(m, b, i) \in Memories
  <2>1. DOMAIN m.blocks \cup {b} \in SUBSET Nat /\ DOMAIN m.host \in SUBSET Hosts
    BY MemoryIs
  <2>2. m.blocks \in [DOMAIN m.blocks -> Seq(Nat)] /\ m.host \in [DOMAIN m.host -> Seq(Nat)]
    BY MemoryIs
  <2> QED
    BY <1>1, <1>2, <2>1, <2>2, MemoryMade
<1> QED
  BY <1>1, <1>3 DEF Live, Put, f

(* An entry of a host array.                                               *)
SetHost(m, h, x) == [blocks |-> m.blocks, host |-> Put(m.host, h, x)]
(* It is what is put there, and the rest stays.                            *)
LEMMA HostPut ==
  ASSUME NEW m \in Memories, NEW h \in Hosts, NEW x \in Seq(Nat), NEW n, n = SetHost(m, h, x)
  PROVE  /\ n \in Memories
         /\ n.blocks = m.blocks /\ Live(n) = Live(m)
         /\ DOMAIN n.host = DOMAIN m.host \cup {h}
         /\ n.host[h] = x
         /\ \A j \in DOMAIN m.host \ {h} : n.host[j] = m.host[j]
<1> DEFINE f == Put(m.host, h, x)
<1>1. n = [blocks |-> m.blocks, host |-> f]
  BY DEF SetHost
<1>2. f \in [DOMAIN m.host \cup {h} -> Seq(Nat)]
  BY MemoryIs DEF Put
<1> HIDE DEF f
<1>3. n \in Memories
  <2>1. DOMAIN m.blocks \in SUBSET Nat /\ DOMAIN m.host \cup {h} \in SUBSET Hosts
    BY MemoryIs
  <2>2. m.blocks \in [DOMAIN m.blocks -> Seq(Nat)] /\ m.host \in [DOMAIN m.host -> Seq(Nat)]
    BY MemoryIs
  <2> QED
    BY <1>1, <1>2, <2>1, <2>2, MemoryMade
<1> QED
  BY <1>1, <1>3 DEF Live, Put, f

(* A copy to the host leaves the blocks alone.                             *)
LEMMA CopyOutIs ==
  ASSUME NEW m \in Memories, NEW b \in Live(m), NEW h \in Hosts
  PROVE  /\ CopyOut(m, b, h) \in Memories
         /\ CopyOut(m, b, h).blocks = m.blocks /\ Live(CopyOut(m, b, h)) = Live(m)
         /\ DOMAIN CopyOut(m, b, h).host = DOMAIN m.host \cup {h}
         /\ CopyOut(m, b, h).host[h] = m.blocks[b]
         /\ \A j \in DOMAIN m.host \ {h} : CopyOut(m, b, h).host[j] = m.host[j]
<1>1. m.blocks[b] \in Seq(Nat)
  BY MemoryIs DEF Live
<1>2. CopyOut(m, b, h) = SetHost(m, h, m.blocks[b])
  BY MemoryIs DEF CopyOut, SetHost
<1> QED
  <2> DEFINE x == m.blocks[b]
             n == CopyOut(m, b, h)
  <2> HIDE DEF x, n
  <2>1. x \in Seq(Nat) /\ n = SetHost(m, h, x)
    BY <1>1, <1>2 DEF x, n
  <2>2. /\ n \in Memories
        /\ n.blocks = m.blocks /\ Live(n) = Live(m)
        /\ DOMAIN n.host = DOMAIN m.host \cup {h}
        /\ n.host[h] = x
        /\ \A j \in DOMAIN m.host \ {h} : n.host[j] = m.host[j]
    BY <2>1, HostPut
  <2> QED
    BY <2>2 DEF x, n

(* A block that is changed in place.                                       *)
SetBlock(m, b, x) == [blocks |-> [m.blocks EXCEPT ![b] = x], host |-> m.host]
(* It is what it is set to, and the rest stays.                            *)
LEMMA BlockSet ==
  ASSUME NEW m \in Memories, NEW b \in Live(m), NEW x \in Seq(Nat), NEW n, n = SetBlock(m, b, x)
  PROVE  /\ n \in Memories
         /\ Live(n) = Live(m)
         /\ n.blocks[b] = x
         /\ \A c \in Live(m) \ {b} : n.blocks[c] = m.blocks[c]
         /\ n.host = m.host
<1> DEFINE f == [m.blocks EXCEPT ![b] = x]
<1>1. n = [blocks |-> f, host |-> m.host]
  BY DEF SetBlock
<1>2. f \in [DOMAIN m.blocks -> Seq(Nat)]
  BY MemoryIs
<1>3. DOMAIN f = DOMAIN m.blocks /\ f[b] = x /\ \A c \in Live(m) \ {b} : f[c] = m.blocks[c]
  BY MemoryIs DEF Live
<1> HIDE DEF f
<1>4. n \in Memories
  <2>1. DOMAIN m.blocks \in SUBSET Nat /\ DOMAIN m.host \in SUBSET Hosts
    BY MemoryIs
  <2>2. m.blocks \in [DOMAIN m.blocks -> Seq(Nat)] /\ m.host \in [DOMAIN m.host -> Seq(Nat)]
    BY MemoryIs
  <2> QED
    BY <1>1, <1>2, <2>1, <2>2, MemoryMade
<1> QED
  BY <1>1, <1>3, <1>4 DEF Live

(* A kernel works on what it finds in its block.                           *)
LEMMA KernelIs ==
  ASSUME NEW m \in Memories, NEW b \in Live(m), NEW i \in Nat
  PROVE  /\ Kernel(m, b, i) \in Memories
         /\ Live(Kernel(m, b, i)) = Live(m)
         /\ Kernel(m, b, i).blocks[b] = Append(m.blocks[b], i)
         /\ \A c \in Live(m) \ {b} : Kernel(m, b, i).blocks[c] = m.blocks[c]
         /\ Kernel(m, b, i).host = m.host
<1>1. Append(m.blocks[b], i) \in Seq(Nat)
  BY MemoryIs DEF Live
<1>2. Kernel(m, b, i) = SetBlock(m, b, Append(m.blocks[b], i))
  <2>1. PICK B, H : m = [blocks |-> B, host |-> H]
    BY MemoryIs
  <2> QED
    BY <2>1 DEF Kernel, SetBlock
<1> QED
  <2> DEFINE x == Append(m.blocks[b], i)
             n == Kernel(m, b, i)
  <2> HIDE DEF x, n
  <2>1. x \in Seq(Nat) /\ n = SetBlock(m, b, x)
    BY <1>1, <1>2 DEF x, n
  <2>2. /\ n \in Memories
        /\ Live(n) = Live(m)
        /\ n.blocks[b] = x
        /\ \A c \in Live(m) \ {b} : n.blocks[c] = m.blocks[c]
        /\ n.host = m.host
    BY <2>1, BlockSet
  <2> QED
    BY <2>2 DEF x, n

(* One block over another.                                                 *)
LEMMA WithinIs ==
  ASSUME NEW m \in Memories, NEW b \in Live(m), NEW c \in Live(m)
  PROVE  LET n == [m EXCEPT !.blocks[b] = m.blocks[c]]
         IN  /\ n \in Memories
             /\ Live(n) = Live(m)
             /\ \A d \in Live(m) \ {b} : n.blocks[d] = m.blocks[d]
             /\ n.host = m.host
<1> DEFINE x == m.blocks[c]
           n == [m EXCEPT !.blocks[b] = m.blocks[c]]
<1>1. x \in Seq(Nat)
  BY MemoryIs DEF Live
<1>2. n = SetBlock(m, b, x)
  <2>1. PICK B, H : m = [blocks |-> B, host |-> H]
    BY MemoryIs
  <2> QED
    BY <2>1 DEF SetBlock
<1> HIDE DEF x, n
<1>3. /\ n \in Memories
      /\ Live(n) = Live(m)
      /\ \A d \in Live(m) \ {b} : n.blocks[d] = m.blocks[d]
      /\ n.host = m.host
  BY <1>1, <1>2, BlockSet
<1> QED
  BY <1>3 DEF n

-----------------------------------------------------------------------------
(* Types *)

(* What step_event takes for granted of a row of its kind.                 *)
Complete(e) ==
    /\ e \in Event
    /\ e.op \in {"malloc", "free", "h2d", "d2h", "launch"} => e.ptr \in Pointers
    /\ e.op = "malloc" => e.size \in Sizes
    /\ e.op = "d2h" => e.host \in Hosts
Calls == {e \in Event : Complete(e)}

Placed(place, n, live) ==
    /\ place \in [Addrs -> Nat]
    /\ \A a \in Addrs : place[a] <= n
    /\ \A a \in Addrs : place[a] # NoBlock => place[a] \in live
    /\ \A a, b \in Addrs : place[a] = place[b] /\ place[a] # NoBlock => a = b
    /\ \A b \in live : b \in Nat /\ b <= n
(* The call that allocated the block at this address.                      *)
Block(e, a) == e.op = "malloc" /\ e.ok /\ e.ptr = <<a, 0>>
Program ==
    /\ recorded \in Seq(Calls)
    /\ truth \in Seq(Memories)
    /\ Len(truth) = Len(recorded) + 1
    /\ Placed(at, Len(recorded), Live(Now))
    /\ \A a \in Addrs : at[a] # NoBlock => Block(recorded[at[a]], a)

(* The events loaded are the rows, over and over.                          *)
Loaded(i) == ((i - 1) % Len(rows)) + 1
Loading ==
    /\ rows \in Seq(Calls)
    /\ \A i \in 1 .. Len(rows) : rows[i].id = i
    /\ events \in Seq(Calls)
    /\ runs \in Nat /\ Len(events) = runs * Len(rows)
    /\ \A i \in 1 .. Len(events) : Loaded(i) \in 1 .. Len(rows) /\ events[i] = rows[Loaded(i)]
    /\ runs <= MaxRuns
    /\ phase = "record" => runs = 0

Stepped ==
    /\ phase \in {"record", "prompt", "run", "gone"}
    /\ failed \in BOOLEAN
    /\ curr_event \in 0 .. Len(events)
    /\ phase = "prompt" => curr_event = Len(events)
    /\ stepped \in Seq(Nat)
    /\ Len(stepped) = curr_event
    /\ \A i \in 1 .. curr_event : stepped[i] = events[i].id

Tables ==
    /\ DOMAIN allocations \subseteq Pointers
    /\ allocations \in [DOMAIN allocations -> Nat]
    /\ \A p \in DOMAIN allocations : allocations[p] <= curr_event
    /\ timers \in Seq(Nat)
    /\ \A i \in 1 .. Len(timers) : timers[i] <= curr_event
    /\ DOMAIN results \subseteq 1 .. Len(rows)
    /\ phase = "record" => DOMAIN results = {}
    /\ memory \in Memories
    /\ Live(memory) \subseteq 1 .. curr_event

Shape == Program /\ Loading /\ Stepped /\ Tables

(* The rows of the calls.                                                  *)
LEMMA RowType ==
  ASSUME Len(recorded) \in Nat, NEW op \in Ops, NEW u \in SUBSET (Nat \cup Hosts)
  PROVE  Row(op, u) \in Event
  BY DEF Row, Event
MallocMade(a, s, b) == [Row("malloc", {b}) EXCEPT !.ptr = <<a, 0>>, !.size = s]
(* The row of a hipMalloc.                                                 *)
LEMMA MallocRow ==
  ASSUME Len(recorded) \in Nat, NEW a \in Addrs, NEW s \in Sizes, NEW b \in Nat,
         NEW e, e = MallocMade(a, s, b)
  PROVE  /\ e \in Calls
         /\ e.fx = Len(recorded) + 1 /\ e.op = "malloc" /\ e.uses = {b}
         /\ e.ptr = <<a, 0>> /\ e.ok
<1>0. <<a, 0>> \in Pointers
  BY DEF Pointers
<1>1. Row("malloc", {b}) \in Event
  BY RowType DEF Ops
<1>2. e.fx = Len(recorded) + 1 /\ e.op = "malloc" /\ e.uses = {b} /\ e.ptr = <<a, 0>> /\ e.ok
  BY DEF Row, MallocMade
<1>3. e.size = s
  BY DEF Row, MallocMade
<1>4. e \in Event
  BY <1>0, <1>1 DEF Event, MallocMade
<1> QED
  BY <1>0, <1>2, <1>3, <1>4 DEF Calls, Complete

MallocFailsMade(a, s) == [Row("malloc", {}) EXCEPT !.ptr = <<a, 0>>, !.size = s, !.ok = FALSE]
(* The row of a hipMalloc that failed.                                     *)
LEMMA MallocFailsRow ==
  ASSUME Len(recorded) \in Nat, NEW a \in Addrs, NEW s \in Sizes, NEW b \in Nat,
         NEW e, e = MallocFailsMade(a, s)
  PROVE  /\ e \in Calls
         /\ e.fx = Len(recorded) + 1 /\ e.op = "malloc" /\ e.uses = {}
         /\ e.ptr = <<a, 0>> /\ ~e.ok
<1>0. <<a, 0>> \in Pointers
  BY DEF Pointers
<1>1. Row("malloc", {}) \in Event
  BY RowType DEF Ops
<1>2. e.fx = Len(recorded) + 1 /\ e.op = "malloc" /\ e.uses = {} /\ e.ptr = <<a, 0>> /\ ~e.ok
  BY DEF Row, MallocFailsMade
<1>3. e.size = s
  BY DEF Row, MallocFailsMade
<1>4. e \in Event
  BY <1>0, <1>1 DEF Event, MallocFailsMade
<1> QED
  BY <1>0, <1>2, <1>3, <1>4 DEF Calls, Complete

FreeMade(a, b) == [Row("free", {b}) EXCEPT !.ptr = <<a, 0>>]
(* The row of a hipFree.                                                   *)
LEMMA FreeRow ==
  ASSUME Len(recorded) \in Nat, NEW a \in Addrs, NEW b \in Nat,
         NEW e, e = FreeMade(a, b)
  PROVE  /\ e \in Calls
         /\ e.fx = Len(recorded) + 1 /\ e.op = "free" /\ e.uses = {b}
         /\ e.ptr = <<a, 0>>
<1>0. <<a, 0>> \in Pointers
  BY DEF Pointers
<1>1. Row("free", {b}) \in Event
  BY RowType DEF Ops
<1>2. e.fx = Len(recorded) + 1 /\ e.op = "free" /\ e.uses = {b} /\ e.ptr = <<a, 0>>
  BY DEF Row, FreeMade
<1>4. e \in Event
  BY <1>0, <1>1 DEF Event, FreeMade
<1> QED
  BY <1>0, <1>2, <1>4 DEF Calls, Complete

MemcpyInMade(p, f, b) == [Row("h2d", {b}) EXCEPT !.ptr = p, !.strm = f]
(* The row of a copy from the host.                                        *)
LEMMA MemcpyInRow ==
  ASSUME Len(recorded) \in Nat, NEW p \in Pointers, NEW f \in BOOLEAN, NEW b \in Nat,
         NEW e, e = MemcpyInMade(p, f, b)
  PROVE  /\ e \in Calls
         /\ e.fx = Len(recorded) + 1 /\ e.op = "h2d" /\ e.uses = {b}
         /\ e.ptr = p
<1>1. Row("h2d", {b}) \in Event
  BY RowType DEF Ops
<1>2. e.fx = Len(recorded) + 1 /\ e.op = "h2d" /\ e.uses = {b} /\ e.ptr = p
  BY DEF Row, MemcpyInMade
<1>4. e \in Event
  BY <1>1 DEF Event, MemcpyInMade
<1> QED
  BY <1>2, <1>4 DEF Calls, Complete

MemcpyOutMade(p, h, f, b) == [Row("d2h", {b, h}) EXCEPT !.ptr = p, !.host = h, !.strm = f]
(* The row of a copy to the host.                                          *)
LEMMA MemcpyOutRow ==
  ASSUME Len(recorded) \in Nat, NEW p \in Pointers, NEW h \in Hosts, NEW f \in BOOLEAN, NEW b \in Nat,
         NEW e, e = MemcpyOutMade(p, h, f, b)
  PROVE  /\ e \in Calls
         /\ e.fx = Len(recorded) + 1 /\ e.op = "d2h" /\ e.uses = {b, h}
         /\ e.ptr = p /\ e.host = h
<1>1. Row("d2h", {b, h}) \in Event
  BY RowType DEF Ops
<1>2. e.fx = Len(recorded) + 1 /\ e.op = "d2h" /\ e.uses = {b, h} /\ e.ptr = p /\ e.host = h
  BY DEF Row, MemcpyOutMade
<1>4. e \in Event
  BY <1>1 DEF Event, MemcpyOutMade
<1> QED
  BY <1>2, <1>4 DEF Calls, Complete

LaunchMade(p, f, b) == [Row("launch", {b}) EXCEPT !.ptr = p, !.code = f]
(* The row of a kernel launch.                                             *)
LEMMA LaunchRow ==
  ASSUME Len(recorded) \in Nat, NEW p \in Pointers, NEW f \in BOOLEAN, NEW b \in Nat,
         NEW e, e = LaunchMade(p, f, b)
  PROVE  /\ e \in Calls
         /\ e.fx = Len(recorded) + 1 /\ e.op = "launch" /\ e.uses = {b}
         /\ e.ptr = p
<1>1. Row("launch", {b}) \in Event
  BY RowType DEF Ops
<1>2. e.fx = Len(recorded) + 1 /\ e.op = "launch" /\ e.uses = {b} /\ e.ptr = p
  BY DEF Row, LaunchMade
<1>4. e \in Event
  BY <1>1 DEF Event, LaunchMade
<1> QED
  BY <1>2, <1>4 DEF Calls, Complete

MemcpyWithinMade(a, b, c) == [Row("d2d", {b, c}) EXCEPT !.ptr = <<a, 0>>]
(* The row of a copy on the device.                                        *)
LEMMA MemcpyWithinRow ==
  ASSUME Len(recorded) \in Nat, NEW a \in Addrs, NEW c \in Nat, NEW b \in Nat,
         NEW e, e = MemcpyWithinMade(a, b, c)
  PROVE  /\ e \in Calls
         /\ e.fx = Len(recorded) + 1 /\ e.op = "d2d" /\ e.uses = {b, c}
         /\ e.ptr = <<a, 0>>
<1>0. <<a, 0>> \in Pointers
  BY DEF Pointers
<1>1. Row("d2d", {b, c}) \in Event
  BY RowType DEF Ops
<1>2. e.fx = Len(recorded) + 1 /\ e.op = "d2d" /\ e.uses = {b, c} /\ e.ptr = <<a, 0>>
  BY DEF Row, MemcpyWithinMade
<1>4. e \in Event
  BY <1>0, <1>1 DEF Event, MemcpyWithinMade
<1> QED
  BY <1>0, <1>2, <1>4 DEF Calls, Complete

(* What a call did to the memory: from t it made m.  rec is the recording  *)
(* up to it, which has the call that allocated the block it is about.      *)
Of(rec, e, b) == b \in 1 .. e.fx - 1 /\ Block(rec[b], e.ptr[1])
Does(rec, e, t, m) ==
    \/ e.op = "malloc" /\ e.ok /\ e.uses = {e.fx} /\ m = Allocate(t, e.fx)
    \/ e.op = "malloc" /\ ~e.ok /\ e.uses = {} /\ m = t
    \/ e.op = "other" /\ e.uses = {} /\ m = t
    \/ \E b \in Live(t) :
        /\ Of(rec, e, b)
        /\ \/ e.op = "free" /\ e.uses = {b} /\ m = Release(t, b)
           \/ e.op = "h2d" /\ e.uses = {b} /\ m = CopyIn(t, b, e.fx)
           \/ e.op = "d2h" /\ e.uses = {b, e.host} /\ m = CopyOut(t, b, e.host)
           \/ e.op = "launch" /\ e.uses = {b} /\ m = Kernel(t, b, e.fx)
    \/ /\ e.op = "d2d"
       /\ \E b, c \in Live(t) : e.uses = {b, c} /\ m = [t EXCEPT !.blocks[b] = t.blocks[c]]

(* Recording a call.                                                       *)
LEMMA RecordingIs ==
  ASSUME Program, Recording
  PROVE  \E e \in Calls, m \in Memories :
            /\ Record(e, m)
            /\ e.fx = Len(recorded) + 1
            /\ Does(recorded, e, Now, m)
            /\ Placed(at', Len(recorded) + 1, Live(m))
            /\ \A a \in Addrs : at'[a] # NoBlock =>
                  at'[a] = at[a] \/ (at'[a] = Len(recorded) + 1 /\ Block(e, a))
<1> DEFINE Goal ==
        \E e \in Calls, m \in Memories :
            /\ Record(e, m)
            /\ e.fx = Len(recorded) + 1
            /\ Does(recorded, e, Now, m)
            /\ Placed(at', Len(recorded) + 1, Live(m))
            /\ \A a \in Addrs : at'[a] # NoBlock =>
                  at'[a] = at[a] \/ (at'[a] = Len(recorded) + 1 /\ Block(e, a))
<1> USE DEF NoBlock
<1>0. /\ Now \in Memories /\ Len(recorded) \in Nat /\ recorded \in Seq(Calls)
      /\ \A a \in Addrs : at[a] \in Nat /\ <<a, 0>> \in Pointers
      /\ \A a \in Addrs : at[a] # 0 =>
            at[a] \in Live(Now) /\ at[a] \in 1 .. Len(recorded) /\ Block(recorded[at[a]], a)
  BY DEF Now, Program, Placed, Pointers
<1> DEFINE b == Len(recorded) + 1
<1>b. b \in Nat /\ b = Len(recorded) + 1
  BY <1>0
<1> HIDE DEF b, Goal
<1>1. ASSUME NEW a \in Addrs, NEW s \in Sizes, Malloc(a, s) PROVE Goal
  <2> DEFINE e == [Row("malloc", {b}) EXCEPT !.ptr = <<a, 0>>, !.size = s]
  <2>4. e = MallocMade(a, s, b)
    BY DEF MallocMade
  <2> HIDE DEF e
  <2>6. /\ e \in Calls /\ e.fx = Len(recorded) + 1 /\ e.op = "malloc"
        /\ e.ok /\ e.uses = {b} /\ e.ptr = <<a, 0>>
    BY <1>0, <1>b, <2>4, MallocRow
  <2>2. /\ Allocate(Now, b) \in Memories
        /\ Live(Allocate(Now, b)) = Live(Now) \cup {b}
    BY <1>0, <1>b, AllocateIs
  <2>3. Record(e, Allocate(Now, b)) /\ at' = [at EXCEPT ![a] = b]
    BY <1>1, <1>b DEF Malloc, e
  <2>5. Placed(at', Len(recorded) + 1, Live(Allocate(Now, b)))
    BY <1>0, <1>b, <2>2, <2>3 DEF Program, Placed
  <2>7. Does(recorded, e, Now, Allocate(Now, b))
    BY <1>b, <2>6 DEF Does, Of, Block
  <2>8. \A u \in Addrs : at'[u] # 0 =>
            at'[u] = at[u] \/ (at'[u] = Len(recorded) + 1 /\ Block(e, u))
    BY <1>0, <1>b, <2>3, <2>6 DEF Block, Program, Placed
  <2> QED
    BY <1>0, <1>b, <2>6, <2>2, <2>3, <2>5, <2>7, <2>8 DEF Goal
<1>2. ASSUME NEW a \in Addrs, NEW s \in Sizes, MallocFails(a, s) PROVE Goal
  <2> DEFINE e == [Row("malloc", {}) EXCEPT !.ptr = <<a, 0>>, !.size = s, !.ok = FALSE]
  <2>4. e = MallocFailsMade(a, s)
    BY DEF MallocFailsMade
  <2> HIDE DEF e
  <2>6. e \in Calls /\ e.fx = Len(recorded) + 1 /\ e.op = "malloc" /\ ~e.ok /\ e.uses = {}
    BY <1>0, <1>b, <2>4, MallocFailsRow
  <2>3. Record(e, Now) /\ at' = at
    BY <1>2, <1>b DEF MallocFails, e
  <2>5. Placed(at', Len(recorded) + 1, Live(Now))
    BY <1>0, <1>b, <2>3 DEF Program, Placed
  <2>7. Does(recorded, e, Now, Now)
    BY <1>b, <2>6 DEF Does, Of, Block
  <2>8. \A u \in Addrs : at'[u] # 0 =>
            at'[u] = at[u] \/ (at'[u] = Len(recorded) + 1 /\ Block(e, u))
    BY <1>0, <1>b, <2>3, <2>6 DEF Block, Program, Placed
  <2> QED
    BY <1>0, <1>b, <2>6, <2>3, <2>5, <2>7, <2>8 DEF Goal
<1>3. ASSUME NEW a \in Addrs, Free(a) PROVE Goal
  <2> DEFINE e == [Row("free", {at[a]}) EXCEPT !.ptr = <<a, 0>>]
  <2>4. e = FreeMade(a, at[a])
    BY DEF FreeMade
  <2> HIDE DEF e
  <2>6. /\ e \in Calls /\ e.fx = Len(recorded) + 1 /\ e.op = "free"
        /\ e.uses = {at[a]} /\ e.ptr = <<a, 0>>
    BY <1>0, <1>b, <2>4, FreeRow
  <2>2. Release(Now, at[a]) \in Memories /\ Live(Release(Now, at[a])) = Live(Now) \ {at[a]}
    BY <1>0, <1>b, ReleaseIs
  <2>3. Record(e, Release(Now, at[a])) /\ at' = [at EXCEPT ![a] = 0] /\ at[a] # 0
    BY <1>3, <1>b DEF Free, e
  <2>5. Placed(at', Len(recorded) + 1, Live(Release(Now, at[a])))
    BY <1>0, <1>b, <2>2, <2>3 DEF Program, Placed
  <2>7. Does(recorded, e, Now, Release(Now, at[a]))
    BY <1>0, <1>b, <2>3, <2>6 DEF Does, Of, Block
  <2>8. \A u \in Addrs : at'[u] # 0 =>
            at'[u] = at[u] \/ (at'[u] = Len(recorded) + 1 /\ Block(e, u))
    BY <1>0, <1>b, <2>3, <2>6 DEF Block, Program, Placed
  <2> QED
    BY <1>0, <1>b, <2>6, <2>2, <2>3, <2>5, <2>7, <2>8 DEF Goal
<1>4. ASSUME NEW p \in Pointers, NEW f \in BOOLEAN, MemcpyIn(p, f) PROVE Goal
  <2>0. PICK c \in Nat : c = at[p[1]] /\ p[1] \in Addrs
    BY <1>0 DEF Pointers
  <2> DEFINE e == [Row("h2d", {c}) EXCEPT !.ptr = p, !.strm = f]
  <2>4. e = MemcpyInMade(p, f, c)
    BY DEF MemcpyInMade
  <2> HIDE DEF e
  <2>6. e \in Calls /\ e.fx = Len(recorded) + 1 /\ e.op = "h2d" /\ e.uses = {c} /\ e.ptr = p
    BY <1>0, <1>b, <2>0, <2>4, MemcpyInRow
  <2>2. /\ CopyIn(Now, c, b) \in Memories
        /\ Live(CopyIn(Now, c, b)) = Live(Now) \cup {c}
    BY <1>0, <1>b, <2>0, CopyInIs
  <2>3. Record(e, CopyIn(Now, c, b)) /\ at' = at /\ c # 0
    BY <1>4, <1>b, <2>0 DEF MemcpyIn, e
  <2>5. Placed(at', Len(recorded) + 1, Live(CopyIn(Now, c, b)))
    BY <1>0, <1>b, <2>0, <2>2, <2>3 DEF Program, Placed
  <2>7. Does(recorded, e, Now, CopyIn(Now, c, b))
    BY <1>0, <1>b, <2>0, <2>3, <2>6 DEF Does, Of, Block
  <2>8. \A u \in Addrs : at'[u] # 0 =>
            at'[u] = at[u] \/ (at'[u] = Len(recorded) + 1 /\ Block(e, u))
    BY <1>0, <1>b, <2>3, <2>6 DEF Block, Program, Placed
  <2> QED
    BY <1>0, <1>b, <2>6, <2>2, <2>3, <2>5, <2>7, <2>8 DEF Goal
<1>5. ASSUME NEW p \in Pointers, NEW f \in BOOLEAN, NEW h \in Hosts, MemcpyOut(p, h, f)
      PROVE  Goal
  <2>0. PICK c \in Nat : c = at[p[1]] /\ p[1] \in Addrs
    BY <1>0 DEF Pointers
  <2> DEFINE e == [Row("d2h", {c, h}) EXCEPT !.ptr = p, !.host = h, !.strm = f]
             m == CopyOut(Now, c, h)
  <2>4. e = MemcpyOutMade(p, h, f, c)
    BY DEF MemcpyOutMade
  <2> HIDE DEF e
  <2>6. /\ e \in Calls /\ e.fx = Len(recorded) + 1 /\ e.op = "d2h"
        /\ e.uses = {c, h} /\ e.ptr = p /\ e.host = h
    BY <1>0, <1>b, <2>0, <2>4, MemcpyOutRow
  <2>2. Record(e, m) /\ at' = at /\ c # 0
    BY <1>5, <1>b, <2>0 DEF MemcpyOut, e
  <2>3. m \in Memories /\ Live(m) = Live(Now)
    BY <1>0, <1>b, <2>0, <2>2, CopyOutIs DEF Program, Placed
  <2> HIDE DEF m
  <2>5. Placed(at', Len(recorded) + 1, Live(m))
    BY <1>0, <1>b, <2>0, <2>2, <2>3 DEF Program, Placed
  <2>7. Does(recorded, e, Now, m)
    BY <1>0, <1>b, <2>0, <2>2, <2>6 DEF Does, Of, Block, m
  <2>8. \A u \in Addrs : at'[u] # 0 =>
            at'[u] = at[u] \/ (at'[u] = Len(recorded) + 1 /\ Block(e, u))
    BY <1>0, <1>b, <2>2, <2>6 DEF Block, Program, Placed
  <2> QED
    BY <1>0, <1>b, <2>6, <2>2, <2>3, <2>5, <2>7, <2>8 DEF Goal
<1>6. ASSUME NEW p \in Pointers, NEW f \in BOOLEAN, LaunchKernel(p, f) PROVE Goal
  <2>0. PICK c \in Nat : c = at[p[1]] /\ p[1] \in Addrs
    BY <1>0 DEF Pointers
  <2> DEFINE e == [Row("launch", {c}) EXCEPT !.ptr = p, !.code = f]
             m == Kernel(Now, c, b)
  <2>4. e = LaunchMade(p, f, c)
    BY DEF LaunchMade
  <2> HIDE DEF e
  <2>6. e \in Calls /\ e.fx = Len(recorded) + 1 /\ e.op = "launch" /\ e.uses = {c} /\ e.ptr = p
    BY <1>0, <1>b, <2>0, <2>4, LaunchRow
  <2>2. Record(e, m) /\ at' = at /\ c # 0
    BY <1>6, <1>b, <2>0 DEF LaunchKernel, e
  <2>3. m \in Memories /\ Live(m) = Live(Now)
    BY <1>0, <1>b, <2>0, <2>2, KernelIs DEF Program, Placed
  <2> HIDE DEF m
  <2>5. Placed(at', Len(recorded) + 1, Live(m))
    BY <1>0, <1>b, <2>0, <2>2, <2>3 DEF Program, Placed
  <2>7. Does(recorded, e, Now, m)
    BY <1>0, <1>b, <2>0, <2>2, <2>6 DEF Does, Of, Block, m
  <2>8. \A u \in Addrs : at'[u] # 0 =>
            at'[u] = at[u] \/ (at'[u] = Len(recorded) + 1 /\ Block(e, u))
    BY <1>0, <1>b, <2>2, <2>6 DEF Block, Program, Placed
  <2> QED
    BY <1>0, <1>b, <2>6, <2>2, <2>3, <2>5, <2>7, <2>8 DEF Goal
<1>7. ASSUME NEW a \in Addrs, NEW c \in Addrs, MemcpyWithin(a, c) PROVE Goal
  <2>0. PICK x \in Nat, y \in Nat : x = at[a] /\ y = at[c]
    BY <1>0
  <2> DEFINE e == [Row("d2d", {x, y}) EXCEPT !.ptr = <<a, 0>>]
             m == [Now EXCEPT !.blocks[x] = Now.blocks[y]]
  <2>4. e = MemcpyWithinMade(a, x, y)
    BY DEF MemcpyWithinMade
  <2> HIDE DEF e
  <2>6. e \in Calls /\ e.fx = Len(recorded) + 1 /\ e.op = "d2d" /\ e.uses = {x, y}
    BY <1>0, <1>b, <2>0, <2>4, MemcpyWithinRow
  <2>2. Record(e, m) /\ at' = at /\ x # 0 /\ y # 0
    BY <1>7, <1>b, <2>0 DEF MemcpyWithin, e
  <2>3. m \in Memories /\ Live(m) = Live(Now)
    BY <1>0, <1>b, <2>0, <2>2, WithinIs DEF Program, Placed
  <2> HIDE DEF m
  <2>5. Placed(at', Len(recorded) + 1, Live(m))
    BY <1>0, <1>b, <2>0, <2>2, <2>3 DEF Program, Placed
  <2>7. Does(recorded, e, Now, m)
    BY <1>0, <1>b, <2>0, <2>2, <2>6 DEF Does, Of, Block, m
  <2>8. \A u \in Addrs : at'[u] # 0 =>
            at'[u] = at[u] \/ (at'[u] = Len(recorded) + 1 /\ Block(e, u))
    BY <1>0, <1>b, <2>2, <2>6 DEF Block, Program, Placed
  <2> QED
    BY <1>0, <1>b, <2>6, <2>2, <2>3, <2>5, <2>7, <2>8 DEF Goal
<1>8. ASSUME Other PROVE Goal
  <2> DEFINE e == Row("other", {})
  <2>6. e \in Calls /\ e.fx = Len(recorded) + 1 /\ e.op = "other" /\ e.uses = {}
    BY <1>0, <1>b, RowType DEF Row, Calls, Complete, Ops
  <2>2. Record(e, Now) /\ at' = at
    BY <1>8, <1>b DEF Other
  <2> HIDE DEF e
  <2>5. Placed(at', Len(recorded) + 1, Live(Now))
    BY <1>0, <1>b, <2>2 DEF Program, Placed
  <2>7. Does(recorded, e, Now, Now)
    BY <2>6 DEF Does, Of, Block
  <2>8. \A u \in Addrs : at'[u] # 0 =>
            at'[u] = at[u] \/ (at'[u] = Len(recorded) + 1 /\ Block(e, u))
    BY <1>0, <1>b, <2>2, <2>6 DEF Block, Program, Placed
  <2> QED
    BY <1>0, <1>b, <2>6, <2>2, <2>5, <2>7, <2>8 DEF Goal
<1> QED
  BY <1>1, <1>2, <1>3, <1>4, <1>5, <1>6, <1>7, <1>8 DEF Recording, Goal

(* What is true of the recorded program stays true with one more call.     *)
LEMMA ProgramStep == ASSUME Program, Recording PROVE Program'
<1>1. PICK e \in Calls, m \in Memories :
            /\ Record(e, m)
            /\ Placed(at', Len(recorded) + 1, Live(m))
            /\ \A a \in Addrs : at'[a] # NoBlock =>
                  at'[a] = at[a] \/ (at'[a] = Len(recorded) + 1 /\ Block(e, a))
  BY RecordingIs
<1>2. /\ recorded' \in Seq(Calls) /\ Len(recorded') = Len(recorded) + 1
      /\ recorded'[Len(recorded) + 1] = e
      /\ \A i \in 1 .. Len(recorded) : recorded'[i] = recorded[i]
  BY <1>1 DEF Record, Program
<1>3. truth' \in Seq(Memories) /\ Len(truth') = Len(truth) + 1 /\ truth'[Len(truth')] = m
  BY <1>1 DEF Record, Program
<1>4. Now' = m
  BY <1>3 DEF Now
<1>5. \A a \in Addrs : at'[a] # NoBlock => Block(recorded'[at'[a]], a)
  BY <1>1, <1>2 DEF Program, Placed, NoBlock
<1> QED
  BY <1>1, <1>2, <1>3, <1>4, <1>5 DEF Program

(* An event is stepped: the next one, and the tool is in the run command.  *)
Forwards ==
    /\ phase = "run" /\ phase' = "run"
    /\ curr_event < Len(events)
    /\ UNCHANGED <<program, events, results, runs>>
    /\ curr_event' = Pos
    /\ stepped' = Append(stepped, Replayed.id)
    /\ failed' \in BOOLEAN
(* Unless it brings the process down, a step goes forwards, and it keeps a *)
(* timer or sets failed.                                                   *)
LEMMA StepIs ==
  ASSUME Stepped, Step
  PROVE  \/ Fault
         \/ Forwards /\ (failed' \/ (failed' = failed /\ timers' = Append(timers, Pos)))
  BY DEF Stepped, Step, StepMalloc, StepMallocFails, StepFree, StepMemcpyIn,
     StepMemcpyInFault,
         StepMemcpyOut, StepLaunch, StepLaunchFault, StepLaunchNotFound, StepOther,
         Finish, GiveUp, Advance, Forwards, Stepping

(* The event that is stepped.                                              *)
LEMMA ReplayedIs ==
  ASSUME Loading, Stepped, curr_event < Len(events)
  PROVE  /\ Pos \in 1 .. Len(events) /\ Pos = curr_event + 1
         /\ Replayed \in Calls /\ Replayed = events[Pos]
  BY DEF Loading, Stepped, Pos, Replayed

(* Recording a call leaves the tool alone.                                 *)
LEMMA RecordingLeaves ==
  ASSUME Recording PROVE phase = "record" /\ UNCHANGED <<rows, tool, runs, stepped, failed>>
<1>1. ASSUME NEW e, NEW m, Record(e, m)
      PROVE  phase = "record" /\ UNCHANGED <<rows, tool, runs, stepped, failed>>
  BY <1>1 DEF Record
<1> QED
  BY <1>1 DEF Recording, Malloc, MallocFails, Free, MemcpyIn, MemcpyOut, LaunchKernel,
              MemcpyWithin, Other

(* The events stepped are those before curr_event, in every step of the    *)
(* tool.                                                                   *)
LEMMA SteppedStep ==
  ASSUME Loading, Stepped, [Next]_vars PROVE Stepped'
<1>1. CASE Recording
  BY <1>1, RecordingLeaves DEF tool, Stepped
<1>2. CASE Open
  BY <1>2 DEF Open, Stepped, Loading
<1>3. CASE Run
  <2>1. events' \in Seq(Calls) /\ Len(events') = Len(events) + Len(rows)
        /\ \A i \in 1 .. Len(events) : events'[i] = events[i]
    BY <1>3 DEF Run, Loading
  <2> QED
    BY <1>3, <2>1 DEF Run, Stepped, Loading
<1>4. CASE Step
  <2>1. CASE Fault
    BY <2>1 DEF Fault, Stepped
  <2>2. CASE Forwards
    <3>1. Pos \in 1 .. Len(events) /\ Replayed.id \in Nat /\ Replayed = events[Pos]
      BY <2>2, ReplayedIs DEF Forwards, Calls, Event
    <3>2. /\ stepped' \in Seq(Nat) /\ Len(stepped') = Len(stepped) + 1
          /\ \A i \in 1 .. Len(stepped) : stepped'[i] = stepped[i]
          /\ stepped'[Len(stepped) + 1] = Replayed.id
      BY <2>2, <3>1 DEF Forwards, Stepped
    <3> QED
      BY <2>2, <3>1, <3>2 DEF Forwards, Stepped, Pos
  <2> QED
    BY <1>4, <2>1, <2>2, StepIs
<1>5. CASE Report
  BY <1>5 DEF Report, Stepped
<1>6. CASE StepCommand
  BY <1>6 DEF StepCommand, Stepped
<1>7. CASE Quit
  BY <1>7 DEF Quit, Stepped
<1>8. CASE UNCHANGED vars
  BY <1>8 DEF vars, tool, Stepped
<1> QED
  BY <1>1, <1>2, <1>3, <1>4, <1>5, <1>6, <1>7, <1>8 DEF Next

(* A row of Events is the row of a call under its id.                      *)
Renumbered(e, i) == [e EXCEPT !.id = i]
(* Only the id is another.                                                 *)
LEMMA RenumberedIs ==
  ASSUME NEW e \in Calls, NEW i \in Nat
  PROVE  LET r == Renumbered(e, i)
         IN  /\ r \in Calls
             /\ r.id = i /\ r.fx = e.fx /\ r.uses = e.uses /\ r.op = e.op /\ r.ptr = e.ptr
             /\ r.host = e.host /\ r.ok = e.ok /\ r.strm = e.strm /\ r.code = e.code
             /\ r.size = e.size
<1> DEFINE r == Renumbered(e, i)
<1>1. e \in Event /\ Complete(e)
  BY DEF Calls
<1>2. r \in Event
  BY <1>1 DEF Event, Renumbered
<1>3. /\ r.id = i /\ r.fx = e.fx /\ r.uses = e.uses /\ r.op = e.op /\ r.ptr = e.ptr
      /\ r.host = e.host /\ r.ok = e.ok /\ r.strm = e.strm /\ r.code = e.code
      /\ r.size = e.size
  BY <1>1 DEF Event, Renumbered
<1> HIDE DEF r
<1>4. r \in Calls
  BY <1>1, <1>2, <1>3 DEF Calls, Complete
<1> QED
  BY <1>3, <1>4 DEF r

(* What is captured, in the order of the ids.                              *)
LEMMA OpenIs ==
  ASSUME Program, Open
  PROVE  \E order \in Captures :
            /\ Len(rows') \in Nat /\ DOMAIN order = 1 .. Len(rows')
            /\ rows' \in Seq(Calls)
            /\ \A i \in 1 .. Len(rows') :
                  order[i] \in 1 .. Len(recorded) /\ rows'[i] = Renumbered(recorded[order[i]], i)
<1>1. PICK order \in Captures :
          rows' = [i \in DOMAIN order |-> Renumbered(recorded[order[i]], i)]
  BY DEF Open, Renumbered
<1>2. PICK n \in 0 .. Len(recorded) : order \in [1 .. n -> DOMAIN recorded]
  BY DEF Captures
<1>3. n \in Nat /\ DOMAIN order = 1 .. n /\ DOMAIN recorded = 1 .. Len(recorded)
  BY <1>2 DEF Program
<1>4. \A i \in 1 .. n : order[i] \in 1 .. Len(recorded) /\ recorded[order[i]] \in Calls
  BY <1>2, <1>3 DEF Program
<1>5. \A i \in 1 .. n : Renumbered(recorded[order[i]], i) \in Calls
  BY <1>3, <1>4, RenumberedIs
<1>6. rows' \in Seq(Calls) /\ Len(rows') = n
  BY <1>1, <1>3, <1>5
<1> QED
  BY <1>1, <1>3, <1>4, <1>6

(* Behind k rounds of the rows comes the next.                             *)
LEMMA NextRound ==
  ASSUME NEW n \in Nat, NEW k \in Nat, NEW i \in 1 .. n
  PROVE  (k * n + i - 1) % n = i - 1
<1>1. k * n + i - 1 = n * k + (i - 1) /\ k * n + i - 1 \in Int
  OBVIOUS
<1> QED
  BY <1>1, DivUnique

(* A run command loads one more round of the rows.                         *)
LEMMA RunLoads ==
  ASSUME Loading, Run
  PROVE  /\ rows' = rows /\ runs' = runs + 1 /\ runs' <= MaxRuns
         /\ events' \in Seq(Calls) /\ Len(events') = runs' * Len(rows')
         /\ \A i \in 1 .. Len(events) : events'[i] = events[i]
         /\ \A i \in 1 .. Len(events') : Loaded(i)' \in 1 .. Len(rows') /\ events'[i] = rows'[Loaded(i)']
<1> DEFINE n == Len(rows)
           k == runs
<1>1. n \in Nat /\ k \in Nat /\ Len(events) = k * n
  BY DEF Loading
<1>2. rows' = rows /\ runs' = runs + 1 /\ runs' <= MaxRuns /\ events' = events \o rows
  BY ReplayBounds DEF Run, program, Loading
<1>3. /\ events' \in Seq(Calls) /\ Len(events') = k * n + n
      /\ \A i \in 1 .. Len(events) : events'[i] = events[i]
      /\ \A i \in 1 .. n : events'[k * n + i] = rows[i]
  <2>1. events \in Seq(Calls) /\ rows \in Seq(Calls)
    BY DEF Loading
  <2>2. /\ events \o rows \in Seq(Calls) /\ Len(events \o rows) = Len(events) + Len(rows)
        /\ \A i \in 1 .. Len(events) : (events \o rows)[i] = events[i]
        /\ \A i \in 1 .. Len(rows) : (events \o rows)[Len(events) + i] = rows[i]
    BY <2>1
  <2> QED
    BY <1>1, <1>2, <2>2
<1>4. Len(events') = runs' * Len(rows')
  <2>1. (k + 1) * n = k * n + n
    BY <1>1
  <2> QED
    BY <1>2, <1>3, <2>1
<1>5. ASSUME NEW i \in 1 .. Len(events')
      PROVE  ((i - 1) % n) + 1 \in 1 .. n /\ events'[i] = rows[((i - 1) % n) + 1]
  <2>1. CASE i \in 1 .. Len(events)
    BY <1>3, <2>1 DEF Loading, Loaded
  <2>2. CASE i \notin 1 .. Len(events)
    <3>1. k * n \in Nat
      BY <1>1
    <3>2. PICK j \in 1 .. n : i = k * n + j
      <4>1. i - k * n \in 1 .. n /\ i = k * n + (i - k * n)
        BY <1>1, <1>3, <2>2, <3>1
      <4> QED
        BY <4>1
    <3>3. (i - 1) % n = j - 1
      <4>1. (k * n + j - 1) % n = j - 1
        BY <1>1, NextRound
      <4>2. i - 1 = k * n + j - 1
        BY <3>1, <3>2
      <4> QED
        BY <4>1, <4>2, Zenon
    <3> QED
      BY <1>1, <1>3, <3>2, <3>3
  <2> QED
    BY <2>1, <2>2
<1> QED
  BY <1>2, <1>3, <1>4, <1>5 DEF Loaded

(* Every step leaves the loaded events the rows, over and over.            *)
LEMMA LoadingStep ==
  ASSUME Program, Loading, Stepped, [Next]_vars PROVE Loading'
<1>1. CASE Recording
  BY <1>1, RecordingLeaves DEF tool, Loading, Loaded
<1>2. CASE Open
  <2>1. phase = "record" /\ phase' = "prompt" /\ UNCHANGED <<events, runs>>
    BY <1>2 DEF Open
  <2>2. runs = 0 /\ events = << >> /\ Len(events) = 0
    BY <2>1 DEF Loading
  <2>3. rows' \in Seq(Calls) /\ \A i \in 1 .. Len(rows') : rows'[i].id = i
    <3>1. PICK order \in Captures :
            /\ Len(rows') \in Nat /\ DOMAIN order = 1 .. Len(rows')
            /\ rows' \in Seq(Calls)
            /\ \A i \in 1 .. Len(rows') :
                  order[i] \in 1 .. Len(recorded) /\ rows'[i] = Renumbered(recorded[order[i]], i)
      BY <1>2, OpenIs
    <3>2. \A i \in 1 .. Len(rows') : recorded[order[i]] \in Calls /\ i \in Nat
      BY <3>1 DEF Program
    <3>3. \A i \in 1 .. Len(rows') : Renumbered(recorded[order[i]], i).id = i
      BY <3>2, RenumberedIs
    <3> QED
      BY <3>1, <3>3
  <2>4. runs' * Len(rows') = 0
    BY <2>1, <2>2, <2>3
  <2> QED
    BY <2>1, <2>2, <2>3, <2>4 DEF Loading
<1>3. CASE Run
  <2>1. runs' \in Nat /\ rows' \in Seq(Calls) /\ \A i \in 1 .. Len(rows') : rows'[i].id = i
    BY <1>3, RunLoads DEF Loading
  <2>2. phase' # "record"
    BY <1>3 DEF Run
  <2> QED
    BY <1>3, <2>1, <2>2, RunLoads DEF Loading
<1>4. CASE Step
  <2>1. UNCHANGED <<rows, events, runs>> /\ (phase' = "record" => phase = "record")
    BY <1>4, StepIs DEF Fault, Forwards, program
  <2> QED
    BY <2>1 DEF Loading, Loaded
<1>5. CASE Report
  BY <1>5 DEF Report, program, Loading, Loaded
<1>6. CASE StepCommand
  BY <1>6 DEF StepCommand, program, Loading, Loaded
<1>7. CASE Quit
  BY <1>7 DEF Quit, program, Loading, Loaded
<1>8. CASE UNCHANGED vars
  BY <1>8 DEF vars, program, tool, Loading, Loaded
<1> QED
  BY <1>1, <1>2, <1>3, <1>4, <1>5, <1>6, <1>7, <1>8 DEF Next

(* The blocks a pointer may lead to.                                       *)
LEMMA DenotesIs ==
  ASSUME NEW p, NEW b \in Denotes(p) PROVE b = NoBlock \/ b \in Live(memory)
  BY DEF Denotes, Stray
(* The same of a pointer that is not in the table.                         *)
LEMMA StrayIs == ASSUME NEW b \in Stray PROVE b = NoBlock \/ b \in Live(memory)
  BY DEF Stray

(* Tables, when only memory and allocations have changed with the step.    *)
LEMMA TablesForward ==
  ASSUME Tables, curr_event \in Nat, curr_event' = Pos, phase' = "run", UNCHANGED <<results, rows>>,
         timers' = timers \/ timers' = Append(timers, Pos),
         \/ allocations' = allocations
         \/ \E p \in Pointers, v \in 0 .. Pos : allocations' = Put(allocations, p, v),
         memory' \in Memories, Live(memory') \subseteq Live(memory) \cup {Pos}
  PROVE  Tables'
<1>1. Pos = curr_event + 1 /\ Pos \in Nat
  BY DEF Pos
<1>2. timers' \in Seq(Nat) /\ \A i \in 1 .. Len(timers') : timers'[i] <= curr_event'
  <2>1. timers \in Seq(Nat) /\ \A i \in 1 .. Len(timers) : timers[i] \in Nat /\ timers[i] <= Pos
    BY <1>1 DEF Tables
  <2>2. CASE timers' = Append(timers, Pos)
    <3>1. /\ timers' \in Seq(Nat) /\ Len(timers') = Len(timers) + 1
          /\ \A i \in 1 .. Len(timers) : timers'[i] = timers[i]
          /\ timers'[Len(timers) + 1] = Pos
      BY <1>1, <2>1, <2>2
    <3>2. ASSUME NEW i \in 1 .. Len(timers') PROVE timers'[i] <= Pos
      <4>1. i \in 1 .. Len(timers) \/ i = Len(timers) + 1
        BY <2>1, <3>1
      <4> QED
        BY <1>1, <2>1, <3>1, <4>1
    <3> QED
      BY <3>1, <3>2
  <2> QED
    BY <1>1, <2>1, <2>2
<1>3. /\ DOMAIN allocations' \subseteq Pointers
      /\ allocations' \in [DOMAIN allocations' -> Nat]
      /\ \A p \in DOMAIN allocations' : allocations'[p] <= curr_event'
  <2>1. CASE allocations' = allocations
    BY <1>1, <2>1 DEF Tables
  <2>2. ASSUME NEW p \in Pointers, NEW v \in 0 .. Pos, allocations' = Put(allocations, p, v)
        PROVE  /\ DOMAIN allocations' \subseteq Pointers
               /\ allocations' \in [DOMAIN allocations' -> Nat]
               /\ \A q \in DOMAIN allocations' : allocations'[q] <= curr_event'
    <3>1. /\ Put(allocations, p, v) \in [DOMAIN allocations \cup {p} -> Nat]
          /\ DOMAIN Put(allocations, p, v) = DOMAIN allocations \cup {p}
          /\ Put(allocations, p, v)[p] = v
          /\ \A y \in DOMAIN allocations \ {p} : Put(allocations, p, v)[y] = allocations[y]
      <4>1. v \in Nat /\ allocations \in [DOMAIN allocations -> Nat]
        BY <1>1 DEF Tables
      <4> QED
        BY <4>1 DEF Put
    <3> QED
      BY <1>1, <2>2, <3>1 DEF Tables
  <2> QED
    BY <2>1, <2>2
<1>4. Live(memory') \subseteq 1 .. curr_event'
  BY <1>1 DEF Tables
<1> QED
  BY <1>2, <1>3, <1>4 DEF Tables

(* Every step keeps allocations, timers, results and memory about stepped  *)
(* events.                                                                 *)
LEMMA TablesStep ==
  ASSUME Program, Loading, Stepped, Tables, [Next]_vars PROVE Tables'
<1> USE DEF NoBlock
<1>0. memory \in Memories /\ curr_event \in Nat
  BY DEF Tables, Stepped, Loading
<1>1. CASE Recording
  BY <1>1, RecordingLeaves DEF tool, Tables
<1>2. CASE Open
  <2>1. runs = 0 /\ Len(events) = 0
    BY <1>2 DEF Open, Loading
  <2>2. curr_event = 0
    BY <2>1 DEF Stepped
  <2>3. /\ phase = "record" /\ phase' = "prompt" /\ results' = results
        /\ UNCHANGED <<curr_event, allocations, timers, memory>>
    BY <1>2 DEF Open
  <2> QED
    BY <2>2, <2>3 DEF Tables
<1>3. CASE Run
  BY <1>3 DEF Run, program, Tables
<1>4. CASE Step
  <2>1. CASE Fault
    BY <2>1 DEF Fault, program, Tables
  <2>2. CASE Forwards
    <3>0. /\ Pos \in Nat /\ Replayed \in Calls
          /\ UNCHANGED <<results, rows>> /\ curr_event' = Pos /\ phase' = "run"
          /\ 0 \in 0 .. Pos /\ Pos \in 0 .. Pos
      BY <1>0, <2>2, ReplayedIs DEF Forwards, program, Pos
    <3>1. ASSUME StepMalloc PROVE Tables'
      <4>1. /\ memory' = Allocate(memory, Pos) /\ timers' = Append(timers, Pos)
            /\ allocations' = allocations \/ allocations' = Put(allocations, Replayed.ptr, Pos)
            /\ Replayed.ptr \in Pointers
        BY <3>0, <3>1 DEF StepMalloc, Finish, Stepping, Calls, Complete
      <4>2. memory' \in Memories /\ Live(memory') = Live(memory) \cup {Pos}
        BY <1>0, <3>0, <4>1, AllocateIs
      <4> QED
        BY <1>0, <3>0, <4>1, <4>2, TablesForward
    <3>2. ASSUME StepMallocFails PROVE Tables'
      BY <1>0, <3>0, <3>2, TablesForward DEF StepMallocFails, GiveUp
    <3>3. ASSUME StepFree PROVE Tables'
      <4>1. /\ timers' = Append(timers, Pos) /\ allocations' = allocations
            /\ \E b : memory' = memory \/ memory' = Release(memory, b)
        BY <3>3 DEF StepFree, Finish
      <4>2. memory' \in Memories /\ Live(memory') \subseteq Live(memory)
        BY <1>0, <4>1, ReleaseIs
      <4> QED
        BY <1>0, <3>0, <4>1, <4>2, TablesForward
    <3>4. ASSUME StepMemcpyIn PROVE Tables'
      <4>1. /\ timers' = Append(timers, Pos) /\ allocations' = allocations
            /\ \/ memory' = memory
               \/ \E b \in Live(memory) : memory' = CopyIn(memory, b, Replayed.fx)
        BY <3>4, DenotesIs, StrayIs DEF StepMemcpyIn, Finish
      <4>2. \A b \in Live(memory) : b \in Nat /\ Replayed.fx \in Nat
        BY <1>0, <3>0, MemoryIs DEF Live, Calls, Event
      <4>3. memory' \in Memories /\ Live(memory') \subseteq Live(memory)
        BY <1>0, <4>1, <4>2, CopyInIs
      <4> QED
        BY <1>0, <3>0, <4>1, <4>3, TablesForward
    <3>5. ASSUME StepMemcpyOut PROVE Tables'
      <4>1. /\ timers' = Append(timers, Pos)
            /\ allocations' = allocations \/ allocations' = Put(allocations, Replayed.ptr, 0)
            /\ Replayed.ptr \in Pointers /\ Replayed.host \in Hosts
            /\ \/ memory' = memory
               \/ \E b \in Live(memory) : memory' = CopyOut(memory, b, Replayed.host)
               \/ memory' = [memory EXCEPT !.host = Put(@, Replayed.host, << >>)]
        BY <3>0, <3>5, DenotesIs DEF StepMemcpyOut, Finish, Stepping, Calls, Complete
      <4>2. [memory EXCEPT !.host = Put(@, Replayed.host, << >>)] = SetHost(memory, Replayed.host, << >>)
        BY <1>0, MemoryIs DEF SetHost
      <4>3. memory' \in Memories /\ Live(memory') \subseteq Live(memory)
        <5>1. << >> \in Seq(Nat)
          OBVIOUS
        <5>2. CASE memory' = [memory EXCEPT !.host = Put(@, Replayed.host, << >>)]
          <6> DEFINE n == memory'
                     h == Replayed.host
                     x == << >>
          <6>1. n = SetHost(memory, h, x) /\ h \in Hosts /\ x \in Seq(Nat)
            BY <4>1, <4>2, <5>1, <5>2
          <6> HIDE DEF n, h, x
          <6>2. n \in Memories /\ Live(n) = Live(memory)
            BY <1>0, <6>1, HostPut
          <6> QED
            BY <6>2 DEF n
        <5>3. CASE \E b \in Live(memory) : memory' = CopyOut(memory, b, Replayed.host)
          BY <1>0, <4>1, <5>3, CopyOutIs
        <5> QED
          BY <1>0, <4>1, <5>2, <5>3
      <4> QED
        BY <1>0, <3>0, <4>1, <4>3, TablesForward
    <3>6. ASSUME StepLaunch PROVE Tables'
      <4>1. /\ timers' = Append(timers, Pos) /\ allocations' = allocations
            /\ \/ memory' = memory
               \/ \E b \in Live(memory) : memory' = Kernel(memory, b, Replayed.fx)
        BY <3>6, DenotesIs, StrayIs DEF StepLaunch, Finish
      <4>2. Replayed.fx \in Nat
        BY <3>0 DEF Calls, Event
      <4>3. memory' \in Memories /\ Live(memory') \subseteq Live(memory)
        BY <1>0, <4>1, <4>2, KernelIs
      <4> QED
        BY <1>0, <3>0, <4>1, <4>3, TablesForward
    <3>7. ASSUME StepLaunchNotFound PROVE Tables'
      BY <1>0, <3>0, <3>7, TablesForward DEF StepLaunchNotFound, GiveUp
    <3>8. ASSUME StepOther PROVE Tables'
      BY <1>0, <3>0, <3>8, TablesForward DEF StepOther, Finish
    <3>9. ~StepMemcpyInFault /\ ~StepLaunchFault
      BY <2>2 DEF Forwards, StepMemcpyInFault, StepLaunchFault, Fault
    <3> QED
      BY <1>4, <3>1, <3>2, <3>3, <3>4, <3>5, <3>6, <3>7, <3>8, <3>9 DEF Step
  <2> QED
    BY <1>4, <2>1, <2>2, StepIs
<1>5. CASE Report
  <2>1. /\ UNCHANGED <<program, curr_event, allocations, timers, memory>> /\ phase' = "prompt"
        /\ DOMAIN results' = {events[i].id : i \in {i \in DOMAIN timers : i <= Len(events)}}
    BY <1>5 DEF Report
  <2>2. ASSUME NEW i \in DOMAIN timers, i <= Len(events) PROVE events[i].id \in 1 .. Len(rows)
    <3>1. i \in 1 .. Len(events)
      BY <2>2 DEF Tables, Loading
    <3> QED
      BY <3>1 DEF Loading
  <2> QED
    BY <2>1, <2>2 DEF Tables, program
<1>6. CASE StepCommand
  <2>1. /\ UNCHANGED <<program, curr_event, allocations, results, memory>> /\ phase' # "record"
        /\ timers' = Append(timers, 0)
    BY <1>6 DEF StepCommand
  <2>2. /\ timers' \in Seq(Nat) /\ Len(timers') = Len(timers) + 1 /\ Len(timers) \in Nat
        /\ \A i \in 1 .. Len(timers) : timers'[i] = timers[i]
        /\ timers'[Len(timers) + 1] = 0
    BY <2>1 DEF Tables
  <2>3. ASSUME NEW i \in 1 .. Len(timers') PROVE timers'[i] <= curr_event
    <3>1. i \in 1 .. Len(timers) \/ i = Len(timers) + 1
      BY <2>2
    <3> QED
      BY <1>0, <2>2, <3>1 DEF Tables
  <2> QED
    BY <2>1, <2>2, <2>3 DEF Tables, program
<1>7. CASE Quit
  BY <1>7 DEF Quit, program, Tables
<1>8. CASE UNCHANGED vars
  BY <1>8 DEF vars, program, tool, Tables
<1> QED
  BY <1>1, <1>2, <1>3, <1>4, <1>5, <1>6, <1>7, <1>8 DEF Next

(* The shape of the variables at the start.                                *)
LEMMA ShapeInit == ASSUME Init PROVE Shape
<1>1. at = [a \in Addrs |-> 0] /\ truth = <<Empty>> /\ recorded = << >>
  BY DEF Init, NoBlock
<1>2. truth \in Seq(Memories) /\ Len(truth) = 1 /\ Len(recorded) = 0 /\ Now = Empty
  BY <1>1, EmptyIs DEF Now
<1>3. Program
  BY <1>1, <1>2, EmptyIs DEF Program, Placed, NoBlock
<1>4. Loading
  BY ReplayBounds DEF Init, Loading
<1>5. Stepped
  <2>1. stepped = << >> /\ stepped \in Seq(Nat) /\ Len(stepped) = 0
    BY DEF Init
  <2>2. Len(events) = 0 /\ curr_event = 0 /\ phase = "record" /\ failed \in BOOLEAN
    BY DEF Init
  <2>3. \A i \in 1 .. curr_event : stepped[i] = events[i].id
    BY <2>2
  <2> QED
    BY <2>1, <2>2, <2>3 DEF Stepped
<1>6. Tables
  BY EmptyIs DEF Init, Tables
<1> QED
  BY <1>3, <1>4, <1>5, <1>6 DEF Shape

(* Every step keeps it.                                                    *)
LEMMA ShapeStep == ASSUME Shape, [Next]_vars PROVE Shape'
<1>1. Program'
  <2>1. CASE Recording
    BY <2>1, ProgramStep DEF Shape
  <2>2. CASE Step
    BY <2>2, StepIs DEF Shape, Fault, Forwards, program, Program, Now
  <2>3. CASE ~Recording /\ ~Step
    <3>1. UNCHANGED <<at, truth, recorded>>
      BY <2>3 DEF Next, Open, Run, Report, StepCommand, Quit, vars, program
    <3> QED
      BY <3>1 DEF Shape, Program, Now
  <2> QED
    BY <2>1, <2>2, <2>3
<1> QED
  BY <1>1, LoadingStep, SteppedStep, TablesStep DEF Shape

(* It is an invariant.                                                     *)
LEMMA ShapeHolds == Spec => []Shape
  BY ShapeInit, ShapeStep, PTL DEF Spec

(* The variables keep their types: rows are numbered through, allocations  *)
(* and timers are about events that were stepped.                          *)
THEOREM TypeCorrect == Spec => []TypeOK
<1>1. Shape => TypeOK
  <2> SUFFICES ASSUME Shape PROVE TypeOK
    OBVIOUS
  <2>1. DOMAIN memory.host \subseteq Hosts
    BY MemoryIs DEF Shape, Tables
  <2>2. at \in [Addrs -> Nat] /\ Len(truth) = Len(recorded) + 1
    BY DEF Shape, Program, Placed
  <2>3. /\ \A i \in DOMAIN recorded : recorded[i] \in Event
        /\ \A i \in DOMAIN rows : rows[i] \in Event /\ rows[i].id = i
        /\ \A i \in DOMAIN events : events[i] \in Event
    BY DEF Shape, Program, Loading, Calls
  <2>4. \A p \in DOMAIN allocations : allocations[p] \in 0 .. curr_event
    BY DEF Shape, Stepped, Tables, Loading
  <2>5. \A i \in DOMAIN timers : timers[i] \in 0 .. curr_event
    <3>1. timers \in Seq(Nat) /\ curr_event \in Nat
      BY DEF Shape, Stepped, Tables, Loading
    <3>2. DOMAIN timers = 1 .. Len(timers) /\ \A i \in DOMAIN timers : timers[i] \in Nat
      BY <3>1
    <3> QED
      BY <3>1, <3>2 DEF Shape, Tables
  <2>6. runs \in 0 .. MaxRuns
    BY ReplayBounds DEF Shape, Loading
  <2> QED
    BY <2>1, <2>2, <2>3, <2>4, <2>5, <2>6 DEF Shape, Stepped, Tables, Live, TypeOK
<1> QED
  BY <1>1, ShapeHolds, PTL

(* Every run command steps every recorded event once, in the order of      *)
(* their ids, and leaves nothing for 'n' to step, whatever is recorded and *)
(* whatever fails.                                                         *)
THEOREM PromptAtEndHolds == Spec => []PromptAtEnd
<1>1. Shape => PromptAtEnd
  <2> SUFFICES ASSUME Shape PROVE PromptAtEnd
    OBVIOUS
  <2>1. Len(stepped) = curr_event /\ DOMAIN stepped = 1 .. curr_event
    BY DEF Shape, Stepped
  <2>2. ASSUME NEW i \in 1 .. curr_event PROVE stepped[i] = ((i - 1) % Len(rows)) + 1
    <3>1. i \in 1 .. Len(events)
      BY DEF Shape, Stepped, Loading
    <3>2. events[i].id = Loaded(i)
      BY <3>1 DEF Shape, Loading
    <3> QED
      BY <3>2 DEF Shape, Stepped, Loaded
  <2>3. phase = "prompt" => curr_event = runs * Len(rows) /\ Len(events) = curr_event
    BY DEF Shape, Stepped, Loading
  <2> QED
    BY <2>1, <2>2, <2>3 DEF PromptAtEnd
<1> QED
  BY <1>1, ShapeHolds, PTL

-----------------------------------------------------------------------------
(* Results *)

(* As long as nothing has failed, every step has kept its timer.           *)
Timed ==
    ~failed => Len(timers) = curr_event /\ \A i \in 1 .. curr_event : timers[i] = i
Reports == Timed /\ ResultsPaired

(* Within the first round of the rows, an event is its own first.          *)
LEMMA FirstRound ==
  ASSUME NEW n \in Nat, NEW i \in 1 .. n
  PROVE  ((i - 1) % n) + 1 = i
<1>1. 0 * n + i - 1 = i - 1
  OBVIOUS
<1>2. (0 * n + i - 1) % n = i - 1
  BY NextRound
<1> QED
  BY <1>1, <1>2

(* A step that does not fail keeps one timer.                              *)
LEMMA TimedStep ==
  ASSUME Shape, Timed, [Next]_vars PROVE Timed'
<1>0. timers \in Seq(Nat) /\ curr_event \in Nat
  BY DEF Shape, Tables, Stepped, Loading
<1>1. CASE Step
  <2>1. CASE Fault
    BY <2>1 DEF Fault, Timed
  <2>2. CASE Forwards /\ ~failed /\ timers' = Append(timers, Pos)
    <3>1. Pos = curr_event + 1 /\ Pos \in Nat /\ curr_event' = Pos
      BY <1>0, <2>2 DEF Forwards, Pos
    <3>2. /\ Len(timers') = Len(timers) + 1
          /\ \A i \in 1 .. Len(timers) : timers'[i] = timers[i]
          /\ timers'[Len(timers) + 1] = Pos
      BY <1>0, <2>2, <3>1
    <3> QED
      BY <1>0, <2>2, <3>1, <3>2 DEF Timed
  <2> QED
    BY <1>1, <2>1, <2>2, StepIs DEF Timed, Shape
<1>2. CASE Recording
  BY <1>2, RecordingLeaves DEF tool, Timed
<1>3. CASE ~Step /\ ~Recording
  BY <1>3 DEF Next, Open, Run, Report, StepCommand, Quit, vars, program, tool, Timed
<1> QED
  BY <1>1, <1>2, <1>3

(* The report has the timer of each id's first event.                      *)
LEMMA ReportPairs ==
  ASSUME Shape, Timed, Report, ~failed, runs > 0
  PROVE  results' = [i \in 1 .. Len(rows) |-> i]
<1> DEFINE n == Len(rows)
           N == Len(events)
           timed(id) == {i \in DOMAIN timers : i <= Len(events) /\ events[i].id = id}
           first(S) == CHOOSE i \in S : \A j \in S : i <= j
<1>1. n \in Nat /\ N \in Nat /\ runs \in Nat /\ N = runs * n
  BY DEF Shape, Loading
<1>2. n <= N
  <2>1. PICK k \in Nat : runs = k + 1
    <3>1. runs = (runs - 1) + 1 /\ runs - 1 \in Nat
      BY <1>1
    <3> QED
      BY <3>1
  <2>2. N = k * n + n /\ k * n \in Nat
    BY <1>1, <2>1
  <2> QED
    BY <1>1, <2>2
<1>3. DOMAIN timers = 1 .. N /\ \A i \in 1 .. N : timers[i] = i
  <2>1. timers \in Seq(Nat) /\ curr_event = N
    BY DEF Shape, Tables, Report
  <2> QED
    BY <2>1 DEF Timed
<1>4. \A i \in 1 .. N : events[i].id = ((i - 1) % n) + 1 /\ events[i].id \in 1 .. n
  BY DEF Shape, Loading, Loaded
<1>5. \A i \in 1 .. n : i \in 1 .. N /\ events[i].id = i
  BY <1>1, <1>2, <1>4, FirstRound
<1>6. {events[i].id : i \in {i \in DOMAIN timers : i <= N}} = 1 .. n
  BY <1>3, <1>4, <1>5
<1>7. ASSUME NEW id \in 1 .. n PROVE timers[first(timed(id))] = id
  <2>1. id \in timed(id)
    BY <1>1, <1>3, <1>5
  <2>2. ASSUME NEW j \in timed(id) PROVE id <= j
    <3>1. j \in 1 .. N /\ events[j].id = id
      BY <1>3
    <3>2. j \in 1 .. n => j = id
      BY <1>5, <3>1
    <3> QED
      BY <1>1, <3>1, <3>2
  <2>3. timed(id) \subseteq Nat
    BY <1>1, <1>3
  <2> HIDE DEF timed
  <2>4. first(timed(id)) \in timed(id) /\ \A j \in timed(id) : first(timed(id)) <= j
    BY <2>1, <2>2
  <2>5. first(timed(id)) = id
    BY <2>1, <2>2, <2>3, <2>4
  <2>6. timers[id] = id
    BY <1>1, <1>2, <1>3
  <2> HIDE DEF first
  <2> QED
    BY <2>5, <2>6
<1>8. results' = [id \in {events[i].id : i \in {i \in DOMAIN timers : i <= Len(events)}} |->
                          timers[first(timed(id))]]
  BY DEF Report
<1> QED
  BY <1>6, <1>7, <1>8

(* Every step keeps the timers and the results.                            *)
LEMMA ReportsStep ==
  ASSUME Shape, Reports, [Next]_vars PROVE Reports'
<1>1. Timed'
  BY TimedStep DEF Reports
<1>2. CASE Report
  <2>1. UNCHANGED <<rows, failed, runs>>
    BY <1>2 DEF Report, program
  <2> QED
    BY <1>1, <1>2, <2>1, ReportPairs DEF Reports, ResultsPaired
<1>3. CASE Recording
  BY <1>1, <1>3, RecordingLeaves DEF tool, Reports, ResultsPaired
<1>4. CASE Open
  BY <1>1, <1>4 DEF Open, Reports, ResultsPaired, Shape, Loading
<1>5. CASE Step
  BY <1>1, <1>5, StepIs DEF Fault, Forwards, Reports, ResultsPaired, Shape
<1>6. CASE ~Report /\ ~Recording /\ ~Open /\ ~Step
  BY <1>1, <1>6 DEF Next, Run, StepCommand, Quit, vars, program, tool, Reports,
     ResultsPaired
<1> QED
  BY <1>2, <1>3, <1>4, <1>5, <1>6

(* Unless a step fails, the results of a run command have one row for each *)
(* recorded event, with the time of its first replay.                      *)
THEOREM ResultsPairedHolds == Spec => []ResultsPaired
<1>1. Init => Reports
  <2> SUFFICES ASSUME Init PROVE Reports
    OBVIOUS
  <2>1. Len(timers) = 0 /\ curr_event = 0 /\ phase = "record"
    BY DEF Init
  <2> QED
    BY <2>1 DEF Reports, Timed, ResultsPaired
<1>2. Shape /\ Reports /\ [Next]_vars => Reports'
  BY ReportsStep
<1>3. Reports => ResultsPaired
  BY DEF Reports
<1> QED
  BY <1>1, <1>2, <1>3, ShapeHolds, PTL DEF Spec

-----------------------------------------------------------------------------
(* What the replaying process has of what the recorded program had *)

(* Block i of memory m is as block b of memory t. *)
Same(m, i, t, b) ==
    /\ i \in Live(m) <=> b \in Live(t)
    /\ b \in Live(t) => m.blocks[i] = t.blocks[b]

(* Each call did what it is recorded to have done, and a block stays as it *)
(* is until the next call that is about it and is not a copy out of it.    *)
Story ==
    \A c \in 1 .. Len(recorded) :
        recorded[c].fx = c /\ Does(recorded, recorded[c], truth[c], truth[c + 1])
LeavesAlone(e, x) == x \notin e.uses \/ e.op = "d2h"
Quiet ==
    \A x \in Nat : \A d \in 1 .. Len(truth) : \A c \in 1 .. d :
        (\A k \in c .. d - 1 : LeavesAlone(recorded[k], x)) => Same(truth[c], x, truth[d], x)

(* The rows are recorded calls, each at most once, and none without those  *)
(* it depends on.                                                          *)
RowsTrue ==
    /\ phase = "record" => Len(rows) = 0
    /\ \A i \in 1 .. Len(rows) :
          /\ rows[i].fx \in 1 .. Len(recorded)
          /\ rows[i] = Renumbered(recorded[rows[i].fx], i)
          /\ \A j \in 1 .. Len(rows) : rows[i].fx = rows[j].fx => i = j
          /\ \A c \in 1 .. rows[i].fx - 1 :
                Conflict(recorded[c], recorded[rows[i].fx]) => \E j \in 1 .. i - 1 : rows[j].fx = c

Mallocs(n) == {i \in 1 .. n : rows[i].op = "malloc"}
Using(x, n) == {i \in 1 .. n : x \in rows[i].uses}
(* c is the last call about x among those of the first n rows. *)
Last(x, c, n) ==
    /\ \E i \in Using(x, n) : rows[i].fx = c
    /\ \A i \in Using(x, n) : rows[i].fx <= c

(* Every stepped allocation has its entry in allocations, its block is as  *)
(* the recorded program's was after the last stepped call about it, and so *)
(* is every host array.                                                    *)
TableTrue(n, al) ==
    /\ \A i \in Mallocs(n) : rows[i].ptr \in DOMAIN al /\ al[rows[i].ptr] = i
    /\ \A p \in DOMAIN al : \E i \in Mallocs(n) : rows[i].ptr = p
BlocksTrue(n, m) ==
    /\ Live(m) \subseteq Mallocs(n)
    /\ \A i \in Mallocs(n), c \in Nat :
          Last(rows[i].fx, c, n) => Same(m, i, truth[c + 1], rows[i].fx)
HostsTrue(n, m) ==
    /\ DOMAIN m.host = {h \in Hosts : Using(h, n) # {}}
    /\ \A h \in Hosts, c \in Nat : Last(h, c, n) => m.host[h] = truth[c + 1].host[h]
LastsExist(n) == \A x \in Nat \cup Hosts : Using(x, n) # {} => \E c \in Nat : Last(x, c, n)
Agrees(n, m, al) == TableTrue(n, al) /\ BlocksTrue(n, m) /\ HostsTrue(n, m) /\ LastsExist(n)

(* As FreshAddress, of the rows. *)
FreshRow(i) ==
    rows[i].op = "malloc" =>
        \A j \in 1 .. i - 1 : rows[j].op = "malloc" => rows[j].ptr # rows[i].ptr
Plain(n) == \A i \in 1 .. n : Simple(rows[i]) /\ FreshRow(i)
Follows ==
    ~failed /\ curr_event <= Len(rows) /\ Plain(curr_event)
        => Agrees(curr_event, memory, allocations)

(* What a call does is told by the calls before it.                        *)
LEMMA DoesLater ==
  ASSUME NEW r, NEW s, NEW e, NEW t, NEW m, \A b \in 1 .. e.fx - 1 : s[b] = r[b], Does(r, e, t, m)
  PROVE  Does(s, e, t, m)
<1>1. \A b : Of(r, e, b) => Of(s, e, b)
  BY DEF Of
<1> QED
  BY <1>1 DEF Does

(* Same is passed on.                                                      *)
LEMMA SameIs ==
  ASSUME NEW m, NEW n, NEW t, NEW i, NEW j, NEW b, Same(m, i, n, j), Same(n, j, t, b)
  PROVE  Same(m, i, t, b)
  BY DEF Same

(* A call leaves a block as it is that it is not about, or copies it out.  *)
LEMMA DoesElsewhere ==
  ASSUME NEW rec, NEW e \in Calls, NEW t \in Memories, NEW m, Does(rec, e, t, m),
         NEW x \in Nat, LeavesAlone(e, x)
  PROVE  Same(t, x, m, x)
<1>0. e.fx \in Nat /\ Live(t) \subseteq Nat
  BY MemoryIs DEF Calls, Event, Live
<1>1. CASE e.op = "malloc" /\ e.ok /\ e.uses = {e.fx} /\ m = Allocate(t, e.fx)
  BY <1>0, <1>1, AllocateIs DEF LeavesAlone, Same
<1>2. CASE m = t
  BY <1>2 DEF Same
<1>3. ASSUME NEW b \in Live(t), e.op = "free" /\ e.uses = {b} /\ m = Release(t, b)
      PROVE  Same(t, x, m, x)
  BY <1>0, <1>3, ReleaseIs DEF LeavesAlone, Same
<1>4. ASSUME NEW b \in Live(t), e.op = "h2d" /\ e.uses = {b} /\ m = CopyIn(t, b, e.fx)
      PROVE  Same(t, x, m, x)
  <2>1. Live(m) = Live(t) \cup {b} /\ \A c \in Live(t) \ {b} : m.blocks[c] = t.blocks[c]
    <3>1. PICK i \in Nat : i = e.fx
      BY <1>0
    <3>2. b \in Nat /\ m = CopyIn(t, b, i)
      BY <1>0, <1>4, <3>1
    <3>3. /\ Live(CopyIn(t, b, i)) = Live(t) \cup {b}
          /\ \A c \in Live(t) \ {b} : CopyIn(t, b, i).blocks[c] = t.blocks[c]
      BY <3>2, CopyInIs
    <3> QED
      BY <3>2, <3>3
  <2>2. x # b
    BY <1>4 DEF LeavesAlone
  <2> QED
    BY <2>1, <2>2 DEF Same
<1>5. ASSUME NEW b \in Live(t), e.op = "d2h" /\ m = CopyOut(t, b, e.host)
      PROVE  Same(t, x, m, x)
  <2>1. e.host \in Hosts
    BY <1>5 DEF Calls, Complete
  <2> QED
    BY <1>5, <2>1, CopyOutIs DEF Same
<1>6. ASSUME NEW b \in Live(t), e.op = "launch" /\ e.uses = {b} /\ m = Kernel(t, b, e.fx)
      PROVE  Same(t, x, m, x)
  <2>1. Live(m) = Live(t) /\ \A c \in Live(t) \ {b} : m.blocks[c] = t.blocks[c]
    BY <1>0, <1>6, KernelIs
  <2>2. x # b
    BY <1>6 DEF LeavesAlone
  <2> QED
    BY <2>1, <2>2 DEF Same
<1>7. ASSUME NEW b \in Live(t), NEW c \in Live(t), e.op = "d2d", e.uses = {b, c},
             m = [t EXCEPT !.blocks[b] = t.blocks[c]]
      PROVE  Same(t, x, m, x)
  <2>1. Live(m) = Live(t) /\ \A d \in Live(t) \ {b} : m.blocks[d] = t.blocks[d]
    BY <1>7, WithinIs
  <2> QED
    BY <1>7, <2>1 DEF LeavesAlone, Same
<1> QED
  BY <1>1, <1>2, <1>3, <1>4, <1>5, <1>6, <1>7 DEF Does

(* Recording one more call, by the places of the two sequences.            *)
LEMMA RecordedMore ==
  ASSUME Program, Recording, Story
  PROVE  \E e \in Calls, m \in Memories :
            /\ Len(recorded') = Len(recorded) + 1 /\ Len(truth') = Len(truth) + 1
            /\ Len(truth) = Len(recorded) + 1
            /\ recorded'[Len(recorded) + 1] = e /\ truth'[Len(truth) + 1] = m
            /\ \A i \in 1 .. Len(recorded) : recorded'[i] = recorded[i]
            /\ \A i \in 1 .. Len(truth) : truth'[i] = truth[i] /\ truth[i] \in Memories
            /\ e.fx = Len(recorded) + 1
            /\ Does(recorded, e, truth[Len(truth)], m)
<1>1. PICK e \in Calls, m \in Memories :
            Record(e, m) /\ e.fx = Len(recorded) + 1 /\ Does(recorded, e, Now, m)
  BY RecordingIs
<1>2. recorded' = Append(recorded, e) /\ truth' = Append(truth, m)
  BY <1>1 DEF Record
<1>3. recorded \in Seq(Calls) /\ truth \in Seq(Memories) /\ Len(truth) = Len(recorded) + 1
  BY DEF Program
<1>4. /\ Len(recorded') = Len(recorded) + 1 /\ recorded'[Len(recorded) + 1] = e
      /\ \A i \in 1 .. Len(recorded) : recorded'[i] = recorded[i]
  BY <1>1, <1>2, <1>3
<1>5. /\ Len(truth') = Len(truth) + 1 /\ truth'[Len(truth) + 1] = m
      /\ \A i \in 1 .. Len(truth) : truth'[i] = truth[i] /\ truth[i] \in Memories
  BY <1>1, <1>2, <1>3
<1> QED
  BY <1>1, <1>3, <1>4, <1>5 DEF Now

(* The recording stays the story of the truth.                             *)
LEMMA StoryStep ==
  ASSUME Program, Story, Recording PROVE Story'
<1>1. PICK e \in Calls, m \in Memories :
            /\ Len(recorded') = Len(recorded) + 1 /\ Len(truth') = Len(truth) + 1
            /\ Len(truth) = Len(recorded) + 1
            /\ recorded'[Len(recorded) + 1] = e /\ truth'[Len(truth) + 1] = m
            /\ \A i \in 1 .. Len(recorded) : recorded'[i] = recorded[i]
            /\ \A i \in 1 .. Len(truth) : truth'[i] = truth[i] /\ truth[i] \in Memories
            /\ e.fx = Len(recorded) + 1
            /\ Does(recorded, e, truth[Len(truth)], m)
  BY RecordedMore
<1>2. Len(recorded) \in Nat
  BY DEF Program
<1>3. ASSUME NEW c \in 1 .. Len(recorded')
      PROVE  recorded'[c].fx = c /\ Does(recorded', recorded'[c], truth'[c], truth'[c + 1])
  <2>1. CASE c \in 1 .. Len(recorded)
    <3>1. recorded[c].fx = c /\ Does(recorded, recorded[c], truth[c], truth[c + 1])
      BY <2>1 DEF Story
    <3>2. recorded'[c] = recorded[c] /\ truth'[c] = truth[c] /\ truth'[c + 1] = truth[c + 1]
      BY <1>1, <1>2, <2>1
    <3>3. \A b \in 1 .. recorded[c].fx - 1 : recorded'[b] = recorded[b]
      BY <1>1, <1>2, <2>1, <3>1
    <3> QED
      BY <3>1, <3>2, <3>3, DoesLater
  <2>2. CASE c = Len(recorded) + 1
    <3>1. \A b \in 1 .. e.fx - 1 : recorded'[b] = recorded[b]
      BY <1>1, <1>2
    <3>2. Does(recorded', e, truth[Len(truth)], m)
      BY <1>1, <3>1, DoesLater
    <3>3. truth'[c] = truth[Len(truth)] /\ truth'[c + 1] = m /\ recorded'[c] = e
      BY <1>1, <1>2, <2>2
    <3> QED
      BY <1>1, <2>2, <3>2, <3>3
  <2> QED
    BY <1>1, <1>2, <2>1, <2>2
<1> QED
  BY <1>3 DEF Story

(* Blocks stay as they are between the calls about them, also when a call  *)
(* is added.                                                               *)
LEMMA QuietStep ==
  ASSUME Program, Story, Quiet, Recording PROVE Quiet'
<1>1. PICK e \in Calls, m \in Memories :
            /\ Len(recorded') = Len(recorded) + 1 /\ Len(truth') = Len(truth) + 1
            /\ Len(truth) = Len(recorded) + 1
            /\ recorded'[Len(recorded) + 1] = e /\ truth'[Len(truth) + 1] = m
            /\ \A i \in 1 .. Len(recorded) : recorded'[i] = recorded[i]
            /\ \A i \in 1 .. Len(truth) : truth'[i] = truth[i] /\ truth[i] \in Memories
            /\ e.fx = Len(recorded) + 1
            /\ Does(recorded, e, truth[Len(truth)], m)
  BY RecordedMore
<1>2. Len(recorded) \in Nat /\ Len(truth) \in Nat
  BY DEF Program
<1>3. ASSUME NEW x \in Nat, NEW d \in 1 .. Len(truth'), NEW c \in 1 .. d,
             \A k \in c .. d - 1 : LeavesAlone(recorded'[k], x)
      PROVE  Same(truth'[c], x, truth'[d], x)
  <2>1. CASE d \in 1 .. Len(truth)
    <3>1. \A k \in c .. d - 1 : LeavesAlone(recorded[k], x)
      BY <1>1, <1>2, <1>3, <2>1
    <3>2. Same(truth[c], x, truth[d], x)
      BY <2>1, <3>1 DEF Quiet
    <3> QED
      BY <1>1, <1>2, <2>1, <3>2
  <2>2. CASE d = Len(truth) + 1 /\ c = d
    BY <2>2 DEF Same
  <2>3. CASE d = Len(truth) + 1 /\ c < d
    <3>0. Len(truth) \in 1 .. Len(truth) /\ c \in 1 .. Len(truth)
      BY <1>1, <1>2, <2>3
    <3>1. \A k \in c .. Len(truth) - 1 : LeavesAlone(recorded[k], x)
      BY <1>1, <1>2, <1>3, <2>3
    <3>2. Same(truth[c], x, truth[Len(truth)], x)
      BY <3>0, <3>1 DEF Quiet
    <3>3. LeavesAlone(e, x)
      BY <1>1, <1>2, <1>3, <2>3
    <3>4. Same(truth[Len(truth)], x, m, x)
      BY <1>1, <3>0, <3>3, DoesElsewhere
    <3>5. truth'[c] = truth[c] /\ truth'[d] = m
      BY <1>1, <2>3, <3>0
    <3> QED
      BY <3>2, <3>4, <3>5, SameIs
  <2> QED
    BY <1>1, <1>2, <2>1, <2>2, <2>3
<1> QED
  BY <1>3 DEF Quiet

(* The rows are what is captured, and stay so: Open chooses them, and a    *)
(* correct program leaves no other choice of order between calls that      *)
(* conflict.                                                               *)
LEMMA RowsTrueStep ==
  ASSUME Program, Stepped, Story, RowsTrue, [Next]_vars PROVE RowsTrue'
<1>1. CASE Recording
  BY <1>1, RecordingLeaves DEF RowsTrue, tool, Program
<1>2. CASE Open
  <2>1. PICK order \in Captures :
            /\ Len(rows') \in Nat /\ DOMAIN order = 1 .. Len(rows')
            /\ rows' \in Seq(Calls)
            /\ \A i \in 1 .. Len(rows') :
                  order[i] \in 1 .. Len(recorded) /\ rows'[i] = Renumbered(recorded[order[i]], i)
    BY <1>2, OpenIs
  <2>2. phase' # "record" /\ recorded' = recorded
    BY <1>2 DEF Open
  <2>3. ASSUME NEW i \in 1 .. Len(rows')
        PROVE  rows'[i].fx = order[i]
    <3>1. recorded[order[i]] \in Calls /\ recorded[order[i]].fx = order[i] /\ i \in Nat
      BY <2>1 DEF Program, Story
    <3>2. Renumbered(recorded[order[i]], i).fx = recorded[order[i]].fx
      BY <3>1, RenumberedIs
    <3> QED
      BY <2>1, <3>1, <3>2
  <2>4. /\ \A i, j \in DOMAIN order : order[i] = order[j] => i = j
        /\ \A i \in DOMAIN order : \A c \in 1 .. order[i] - 1 :
               Conflict(recorded[c], recorded[order[i]]) => \E j \in 1 .. i - 1 : order[j] = c
    BY DEF Captures
  <2>5. ASSUME NEW i \in 1 .. Len(rows'), NEW c \in 1 .. rows'[i].fx - 1,
               Conflict(recorded[c], recorded[rows'[i].fx])
        PROVE  \E j \in 1 .. i - 1 : rows'[j].fx = c
    <3>1. PICK j \in 1 .. i - 1 : order[j] = c
      BY <2>1, <2>3, <2>4, <2>5
    <3>2. j \in 1 .. Len(rows')
      BY <2>1, <3>1
    <3> QED
      BY <2>3, <3>1, <3>2
  <2>6. \A i, j \in 1 .. Len(rows') : rows'[i].fx = rows'[j].fx => i = j
    BY <2>1, <2>3, <2>4
  <2>7. \A i \in 1 .. Len(rows') :
            rows'[i].fx \in 1 .. Len(recorded) /\ rows'[i] = Renumbered(recorded[rows'[i].fx], i)
    BY <2>1, <2>3
  <2> QED
    BY <2>2, <2>5, <2>6, <2>7 DEF RowsTrue
<1>3. CASE Step
  <2>1. rows' = rows /\ recorded' = recorded /\ (phase' = "record" => phase = "record")
    BY <1>3, StepIs DEF Fault, Forwards, program
  <2> QED
    BY <2>1 DEF RowsTrue
<1>4. CASE ~Recording /\ ~Open /\ ~Step
  <2>1. rows' = rows /\ recorded' = recorded /\ (phase' = "record" => phase = "record")
    BY <1>4 DEF Next, Run, Report, StepCommand, Quit, vars, program, tool
  <2> QED
    BY <2>1 DEF RowsTrue
<1> QED
  BY <1>1, <1>2, <1>3, <1>4

-----------------------------------------------------------------------------
(* Rows and the calls they are of *)

Settled == Program /\ Story /\ Quiet /\ RowsTrue /\ rows \in Seq(Calls)

(* A row and the recorded call it is of.                                   *)
LEMMA RowIs ==
  ASSUME Settled, NEW i \in 1 .. Len(rows)
  PROVE  LET c == rows[i].fx
             e == rows[i]
             f == recorded[rows[i].fx]
         IN  /\ c \in 1 .. Len(recorded) /\ c \in Nat /\ c # 0
             /\ c \in 1 .. Len(truth) /\ c + 1 \in 1 .. Len(truth)
             /\ truth[c] \in Memories /\ truth[c + 1] \in Memories
             /\ e \in Calls /\ f \in Calls
             /\ e.uses = f.uses /\ e.op = f.op /\ e.ptr = f.ptr /\ e.host = f.host /\ e.ok = f.ok
             /\ e.fx = f.fx
             /\ Does(recorded, f, truth[c], truth[c + 1])
<1> DEFINE c == rows[i].fx
<1>1. /\ recorded \in Seq(Calls) /\ truth \in Seq(Memories) /\ Len(truth) = Len(recorded) + 1
      /\ rows \in Seq(Calls) /\ i \in Nat
  BY DEF Settled, Program
<1>2. c \in 1 .. Len(recorded) /\ rows[i] = Renumbered(recorded[c], i)
  BY DEF Settled, RowsTrue
<1>3. rows[i] \in Calls /\ recorded[c] \in Calls /\ truth[c] \in Memories /\ truth[c + 1] \in Memories
  BY <1>1, <1>2
<1>4. recorded[c].fx = c /\ Does(recorded, recorded[c], truth[c], truth[c + 1])
  BY <1>2 DEF Settled, Story
<1> HIDE DEF c
<1>5. LET r == Renumbered(recorded[c], i)
      IN  r.fx = recorded[c].fx /\ r.uses = recorded[c].uses /\ r.op = recorded[c].op
          /\ r.ptr = recorded[c].ptr /\ r.host = recorded[c].host /\ r.ok = recorded[c].ok
  BY <1>1, <1>3, RenumberedIs
<1>6. c \in Nat /\ c # 0 /\ c \in 1 .. Len(truth) /\ c + 1 \in 1 .. Len(truth)
  BY <1>1, <1>2
<1> QED
  BY <1>2, <1>3, <1>4, <1>5, <1>6 DEF c

(* An earlier row that conflicts is an earlier call.                       *)
LEMMA EarlierCall ==
  ASSUME Settled, NEW j \in 1 .. Len(rows), NEW i \in 1 .. j - 1, Conflict(rows[i], rows[j])
  PROVE  rows[i].fx < rows[j].fx
<1> DEFINE c == rows[i].fx
           d == rows[j].fx
<1>0. Len(rows) \in Nat /\ i \in 1 .. Len(rows) /\ i # j
  BY DEF Settled
<1>1. /\ c \in Nat /\ d \in Nat /\ c # 0 /\ d # 0
      /\ rows[i].uses = recorded[c].uses /\ rows[i].op = recorded[c].op /\ rows[i].host = recorded[c].host
      /\ rows[j].uses = recorded[d].uses /\ rows[j].op = recorded[d].op /\ rows[j].host = recorded[d].host
  BY <1>0, RowIs
<1>2. c # d
  BY <1>0 DEF Settled, RowsTrue
<1>3. ASSUME d < c PROVE FALSE
  <2>1. Conflict(recorded[d], recorded[c])
    BY <1>1 DEF Conflict
  <2>2. d \in 1 .. c - 1
    BY <1>1, <1>3
  <2>3. PICK l \in 1 .. i - 1 : rows[l].fx = d
    BY <1>0, <2>1, <2>2 DEF Settled, RowsTrue
  <2>4. l \in 1 .. Len(rows) /\ l # j
    BY <1>0
  <2> QED
    BY <2>3, <2>4 DEF Settled, RowsTrue
<1> QED
  BY <1>1, <1>2, <1>3

(* Same has no direction.                                                  *)
LEMMA SameBack ==
  ASSUME NEW t, NEW u, NEW x, Same(t, x, u, x) PROVE Same(u, x, t, x)
  BY DEF Same

(* When a row's turn comes, the last call about a block so far has left    *)
(* the block as the row's own call found it.                               *)
LEMMA CaughtUp ==
  ASSUME Settled, NEW j \in 1 .. Len(rows), NEW x \in Nat, x \in rows[j].uses,
         NEW c \in Nat, Last(x, c, j - 1)
  PROVE  Same(truth[c + 1], x, truth[rows[j].fx], x)
<1> DEFINE d == rows[j].fx
<1>0. Len(rows) \in Nat /\ Len(recorded) \in Nat /\ Len(truth) = Len(recorded) + 1
  BY DEF Settled, Program
<1>1. PICK i \in Using(x, j - 1) : rows[i].fx = c
  BY DEF Last
<1>2. i \in 1 .. j - 1 /\ i \in 1 .. Len(rows) /\ x \in rows[i].uses /\ i # j
  BY <1>0 DEF Using
<1>3. /\ d \in Nat /\ d # 0 /\ d \in 1 .. Len(recorded)
      /\ rows[j].uses = recorded[d].uses /\ rows[j].op = recorded[d].op /\ rows[j].host = recorded[d].host
      /\ c # 0 /\ c \in 1 .. Len(recorded)
      /\ rows[i].uses = recorded[c].uses /\ rows[i].op = recorded[c].op /\ rows[i].host = recorded[c].host
  BY <1>1, <1>2, RowIs
<1>4. c # d
  BY <1>1, <1>2 DEF Settled, RowsTrue
<1>5. CASE c < d
  <2>1. ASSUME NEW k \in c + 1 .. d - 1, ~LeavesAlone(recorded[k], x) PROVE FALSE
    <3>1. k \in 1 .. d - 1 /\ Conflict(recorded[k], recorded[d])
      BY <1>3, <2>1 DEF LeavesAlone, Conflict
    <3>2. PICK l \in 1 .. j - 1 : rows[l].fx = k
      BY <3>1 DEF Settled, RowsTrue
    <3>3. l \in 1 .. Len(rows)
      BY <1>0
    <3>4. l \in Using(x, j - 1)
      BY <2>1, <3>2, <3>3, RowIs DEF Using, LeavesAlone
    <3>5. k <= c
      BY <3>2, <3>4 DEF Last
    <3> QED
      BY <1>3, <3>5
  <2>2. d \in 1 .. Len(truth) /\ c + 1 \in 1 .. d
    BY <1>0, <1>3, <1>5
  <2> QED
    BY <2>1, <2>2 DEF Settled, Quiet
<1>6. CASE d < c
  <2>1. rows[i].op = "d2h" /\ rows[j].op = "d2h"
    <3>1. ~Conflict(rows[i], rows[j])
      BY <1>1, <1>2, <1>3, <1>6, EarlierCall
    <3> QED
      BY <1>2, <3>1 DEF Conflict
  <2>2. ASSUME NEW k \in d .. c, ~LeavesAlone(recorded[k], x) PROVE FALSE
    <3>0. recorded[c].op = "d2h" /\ recorded[d].op = "d2h" /\ recorded[k].op # "d2h"
      BY <1>3, <2>1, <2>2 DEF LeavesAlone
    <3>1. k # c /\ k # d /\ k \in 1 .. c - 1
      <4>1. k # c /\ k # d
        BY <3>0
      <4> QED
        BY <1>3, <4>1
    <3>2. Conflict(recorded[k], recorded[c])
      BY <1>2, <1>3, <2>2 DEF LeavesAlone, Conflict
    <3>3. PICK l \in 1 .. i - 1 : rows[l].fx = k
      BY <1>1, <1>2, <3>1, <3>2 DEF Settled, RowsTrue
    <3>4. l \in 1 .. Len(rows) /\ l \in 1 .. j - 1
      BY <1>0, <1>2
    <3>5. rows[l].uses = recorded[k].uses /\ rows[l].op = recorded[k].op
      BY <3>3, <3>4, RowIs
    <3>6. Conflict(rows[l], rows[j])
      BY <2>2, <3>5 DEF LeavesAlone, Conflict
    <3>7. k < d
      BY <3>3, <3>4, <3>6, EarlierCall
    <3> QED
      BY <1>3, <3>7
  <2>3. c + 1 \in 1 .. Len(truth) /\ d \in 1 .. c + 1 /\ (c + 1) - 1 = c
    BY <1>0, <1>3, <1>6
  <2>4. Same(truth[d], x, truth[c + 1], x)
    BY <2>2, <2>3 DEF Settled, Quiet
  <2> QED
    BY <2>4, SameBack
<1> QED
  BY <1>3, <1>4, <1>5, <1>6

(* The last call about x, with one row more.                               *)
LEMMA UsingMore ==
  ASSUME NEW n \in Nat, NEW x
  PROVE  Using(x, n + 1) = Using(x, n) \cup (IF x \in rows[n + 1].uses THEN {n + 1} ELSE {})
  BY DEF Using

(* A row about something else leaves the last call about x the last.       *)
LEMMA LastElsewhere ==
  ASSUME NEW n \in Nat, NEW x, x \notin rows[n + 1].uses, NEW c
  PROVE  Last(x, c, n + 1) <=> Last(x, c, n)
<1>1. Using(x, n + 1) = Using(x, n)
  BY UsingMore
<1> QED
  BY <1>1 DEF Last

(* The last call about x is the new row's, or it was the last before.      *)
LEMMA LastIs ==
  ASSUME NEW n \in Nat, NEW x, x \in rows[n + 1].uses, NEW c, Last(x, c, n + 1)
  PROVE  c = rows[n + 1].fx \/ (Last(x, c, n) /\ rows[n + 1].fx <= c)
<1>1. Using(x, n + 1) = Using(x, n) \cup {n + 1}
  BY UsingMore
<1> QED
  BY <1>1 DEF Last

(* There is a last call about whatever a row is about.                     *)
LEMMA LastMade ==
  ASSUME Settled, NEW n \in Nat, n + 1 \in 1 .. Len(rows), NEW x, x \in rows[n + 1].uses,
         Using(x, n) # {} => \E c \in Nat : Last(x, c, n)
  PROVE  \E c \in Nat : Last(x, c, n + 1)
<1>1. Using(x, n + 1) = Using(x, n) \cup {n + 1}
  BY UsingMore
<1>2. rows[n + 1].fx \in Nat
  BY RowIs
<1>3. CASE Using(x, n) = {}
  BY <1>1, <1>2, <1>3 DEF Last
<1>4. ASSUME NEW c \in Nat, Last(x, c, n) PROVE \E k \in Nat : Last(x, k, n + 1)
  <2>1. \A i \in Using(x, n) : rows[i].fx \in Nat
    <3>1. \A i \in Using(x, n) : i \in 1 .. Len(rows)
      BY DEF Using
    <3> QED
      BY <3>1, RowIs
  <2>2. CASE rows[n + 1].fx <= c
    <3>1. Last(x, c, n + 1)
      BY <1>1, <1>4, <2>2 DEF Last
    <3> QED
      BY <3>1
  <2>3. CASE c < rows[n + 1].fx
    <3>1. Last(x, rows[n + 1].fx, n + 1)
      BY <1>1, <1>2, <1>4, <2>1, <2>3 DEF Last
    <3> QED
      BY <1>2, <3>1
  <2> QED
    BY <1>2, <2>2, <2>3
<1> QED
  BY <1>3, <1>4

(* Of the calls about a block the last one is this row's own, unless that  *)
(* only copies it out.                                                     *)
LEMMA LastOwn ==
  ASSUME Settled, NEW n \in Nat, n + 1 \in 1 .. Len(rows), NEW x, x \in rows[n + 1].uses,
         NEW c \in Nat, Last(x, c, n + 1), c # rows[n + 1].fx
  PROVE  /\ rows[n + 1].op = "d2h"
         /\ \E i \in 1 .. n : x \in rows[i].uses /\ rows[i].op = "d2h"
                              /\ rows[i].host # rows[n + 1].host
         /\ Last(x, c, n)
<1>1. Last(x, c, n) /\ rows[n + 1].fx <= c
  BY LastIs
<1>2. PICK i \in Using(x, n) : rows[i].fx = c
  BY <1>1 DEF Last
<1>3. i \in 1 .. (n + 1) - 1 /\ x \in rows[i].uses /\ i \in 1 .. n
  BY <1>2 DEF Using
<1>4. rows[n + 1].fx \in Nat
  BY RowIs
<1>5. ~Conflict(rows[i], rows[n + 1])
  BY <1>1, <1>2, <1>3, <1>4, EarlierCall
<1>6. rows[i].uses \cap rows[n + 1].uses # {}
  BY <1>3
<1> QED
  BY <1>1, <1>3, <1>5, <1>6 DEF Conflict

(* An allocation is about the block it makes.                              *)
LEMMA MallocUses ==
  ASSUME Settled, NEW i \in 1 .. Len(rows), rows[i].op = "malloc", rows[i].ok
  PROVE  rows[i].uses = {rows[i].fx}
<1>1. LET f == recorded[rows[i].fx]
      IN  f.op = "malloc" /\ f.ok /\ f.uses = rows[i].uses /\ f.fx = rows[i].fx
          /\ Does(recorded, f, truth[rows[i].fx], truth[rows[i].fx + 1])
  BY RowIs
<1> QED
  BY <1>1 DEF Does

(* A block, after a row has been stepped.                                  *)
LEMMA BlockForward ==
  ASSUME Settled, NEW n \in Nat, n + 1 \in 1 .. Len(rows), BlocksTrue(n, memory), LastsExist(n),
         NEW i \in Mallocs(n), rows[i].ok, NEW m,
         LET b == rows[i].fx
             d == rows[n + 1].fx
         IN  /\ b \notin rows[n + 1].uses \/ rows[n + 1].op = "d2h" => Same(m, i, memory, i)
             /\ b \in rows[n + 1].uses /\ Same(memory, i, truth[d], b) => Same(m, i, truth[d + 1], b),
         NEW c \in Nat, Last(rows[i].fx, c, n + 1)
  PROVE  Same(m, i, truth[c + 1], rows[i].fx)
<1> DEFINE b == rows[i].fx
           d == rows[n + 1].fx
<1>0. i \in 1 .. Len(rows) /\ i \in 1 .. n /\ rows[i].op = "malloc" /\ (n + 1) - 1 = n
  BY DEF Mallocs
<1>1. b \in Nat /\ i \in Using(b, n)
  BY <1>0, RowIs, MallocUses DEF Using
<1> HIDE DEF b, d
<1>2. CASE b \notin rows[n + 1].uses
  <2>1. Last(b, c, n)
    BY <1>2, LastElsewhere DEF b
  <2>2. Same(memory, i, truth[c + 1], b)
    BY <2>1 DEF BlocksTrue, b
  <2>3. Same(m, i, memory, i)
    BY <1>2 DEF b
  <2> QED
    BY <2>2, <2>3, SameIs DEF b
<1>3. CASE b \in rows[n + 1].uses /\ c = d
  <2>1. PICK k \in Nat : Last(b, k, n)
    BY <1>1 DEF LastsExist
  <2>2. Same(memory, i, truth[k + 1], b)
    BY <2>1 DEF BlocksTrue, b
  <2>3. Same(truth[k + 1], b, truth[d], b)
    BY <1>0, <1>1, <1>3, <2>1, CaughtUp DEF d
  <2>4. Same(memory, i, truth[d], b)
    BY <2>2, <2>3, SameIs
  <2> QED
    BY <1>3, <2>4 DEF b, d
<1>4. CASE b \in rows[n + 1].uses /\ c # d
  <2>1. rows[n + 1].op = "d2h" /\ Last(b, c, n)
    BY <1>4, LastOwn DEF b, d
  <2>2. Same(memory, i, truth[c + 1], b)
    BY <2>1 DEF BlocksTrue, b
  <2>3. Same(m, i, memory, i)
    BY <2>1
  <2> QED
    BY <2>2, <2>3, SameIs DEF b
<1> QED
  BY <1>2, <1>3, <1>4

(* The block of row i is what the row behind the first n is about, and the *)
(* replaying process has it as the recorded call found it.                 *)
Found(n, i) ==
    LET e == rows[n + 1]
        b == rows[i].fx
        t == truth[e.fx]
        u == truth[e.fx + 1]
    IN  /\ Known(e.ptr) /\ Denotes(e.ptr) = {i} /\ i \in Live(memory) /\ i # 0
        /\ b \in Nat /\ b \in Live(t) /\ Same(memory, i, t, b)
        /\ \/ e.op = "free" /\ e.uses = {b} /\ u = Release(t, b)
           \/ e.op = "h2d" /\ e.uses = {b} /\ u = CopyIn(t, b, e.fx)
           \/ e.op = "d2h" /\ e.uses = {b, e.host} /\ u = CopyOut(t, b, e.host)
           \/ e.op = "launch" /\ e.uses = {b} /\ u = Kernel(t, b, e.fx)

(* The block a row is about is in the table, and as the row's own call     *)
(* found it.                                                               *)
LEMMA BlockFound ==
  ASSUME Settled, NEW n \in Nat, n + 1 \in 1 .. Len(rows),
         TableTrue(n, allocations), BlocksTrue(n, memory), LastsExist(n),
         Simple(rows[n + 1]), rows[n + 1].op \in {"free", "h2d", "d2h", "launch"}
  PROVE  \E i \in Mallocs(n) : Found(n, i)
<1> USE DEF Found
<1> DEFINE e == rows[n + 1]
           d == e.fx
           t == truth[e.fx]
           u == truth[e.fx + 1]
<1>1. /\ d \in 1 .. Len(recorded) /\ d \in Nat /\ e \in Calls /\ t \in Memories
      /\ LET f == recorded[d]
         IN  /\ e.uses = f.uses /\ e.op = f.op /\ e.ptr = f.ptr /\ e.host = f.host /\ e.fx = f.fx
             /\ Does(recorded, f, t, u)
  BY RowIs
<1>2. PICK b \in Live(t) :
        /\ Of(recorded, recorded[d], b)
        /\ \/ e.op = "free" /\ e.uses = {b} /\ u = Release(t, b)
           \/ e.op = "h2d" /\ e.uses = {b} /\ u = CopyIn(t, b, e.fx)
           \/ e.op = "d2h" /\ e.uses = {b, e.host} /\ u = CopyOut(t, b, e.host)
           \/ e.op = "launch" /\ e.uses = {b} /\ u = Kernel(t, b, e.fx)
  <2> DEFINE f == recorded[d]
  <2>1. /\ e.uses = f.uses /\ e.op = f.op /\ e.ptr = f.ptr /\ e.host = f.host /\ e.fx = f.fx
        /\ Does(recorded, f, t, u) /\ f.op \in {"free", "h2d", "d2h", "launch"}
    BY <1>1
  <2>2. \E b \in Live(t) :
        /\ Of(recorded, f, b)
        /\ \/ f.op = "free" /\ f.uses = {b} /\ u = Release(t, b)
           \/ f.op = "h2d" /\ f.uses = {b} /\ u = CopyIn(t, b, f.fx)
           \/ f.op = "d2h" /\ f.uses = {b, f.host} /\ u = CopyOut(t, b, f.host)
           \/ f.op = "launch" /\ f.uses = {b} /\ u = Kernel(t, b, f.fx)
    <3> HIDE DEF f, d, e, t, u
    <3> QED
      BY <2>1 DEF Does
  <2> QED
    BY <2>1, <2>2
<1>3. b \in 1 .. d - 1 /\ Block(recorded[b], e.ptr[1]) /\ b \in e.uses
  BY <1>1, <1>2 DEF Of
<1>4. recorded[b].uses = {b}
  <2>1. b \in 1 .. Len(recorded)
    BY <1>1, <1>3
  <2>2. recorded[b].fx = b /\ Does(recorded, recorded[b], truth[b], truth[b + 1])
    BY <2>1 DEF Settled, Story
  <2>3. recorded[b].op = "malloc" /\ recorded[b].ok
    BY <1>3 DEF Block
  <2> QED
    BY <2>2, <2>3 DEF Does
<1>5. Conflict(recorded[b], recorded[d])
  BY <1>1, <1>3, <1>4 DEF Conflict, Block
<1>6. PICK i \in 1 .. n : rows[i].fx = b
  <2>1. (n + 1) - 1 = n
    OBVIOUS
  <2>2. \A c \in 1 .. e.fx - 1 :
            Conflict(recorded[c], recorded[e.fx]) => \E j \in 1 .. (n + 1) - 1 : rows[j].fx = c
    BY DEF Settled, RowsTrue
  <2> QED
    BY <1>3, <1>5, <2>1, <2>2
<1>7. i \in 1 .. Len(rows) /\ i # 0
  BY DEF Settled
<1>8. rows[i].op = "malloc" /\ rows[i].ok /\ rows[i].ptr = <<e.ptr[1], 0>>
  BY <1>3, <1>6, <1>7, RowIs DEF Block
<1>9. e.ptr = <<e.ptr[1], 0>>
  <2>1. e.ptr \in Pointers
    BY <1>1 DEF Calls, Complete
  <2>2. e.ptr # None
    BY <2>1, NamesAssumption
  <2> QED
    BY <2>1, <2>2 DEF Simple, Pointers
<1>10. i \in Mallocs(n)
  BY <1>8 DEF Mallocs
<1>11. Known(e.ptr) /\ allocations[e.ptr] = i
  BY <1>8, <1>9, <1>10 DEF TableTrue, Known
<1>12. b \in Nat /\ i \in Using(b, n)
  BY <1>3, <1>6, <1>7, <1>8, MallocUses DEF Using
<1>13. PICK k \in Nat : Last(b, k, n)
  BY <1>12 DEF LastsExist
<1>14. Same(memory, i, truth[k + 1], b)
  BY <1>6, <1>10, <1>13 DEF BlocksTrue
<1>15. Same(truth[k + 1], b, t, b)
  <2>1. (n + 1) - 1 = n
    OBVIOUS
  <2> QED
    BY <1>3, <1>12, <1>13, <2>1, CaughtUp
<1>16. Same(memory, i, t, b)
  BY <1>14, <1>15, SameIs
<1>17. i \in Live(memory) /\ Denotes(e.ptr) = {i}
  BY <1>2, <1>11, <1>16 DEF Same, Denotes
<1> QED
  BY <1>2, <1>6, <1>7, <1>10, <1>11, <1>12, <1>16, <1>17

(* What a row's call is about.                                             *)
LEMMA UsesAre ==
  ASSUME Settled, NEW i \in 1 .. Len(rows), rows[i].op # "d2d"
  PROVE  /\ rows[i].op # "d2h" => rows[i].uses \subseteq Nat
         /\ rows[i].op = "d2h" => /\ rows[i].host \in Hosts
                                  /\ \E b \in Nat : rows[i].uses = {b, rows[i].host}
<1> DEFINE c == rows[i].fx
           t == truth[c]
           u == truth[c + 1]
<1>1. /\ c \in Nat /\ t \in Memories /\ rows[i] \in Calls
      /\ LET f == recorded[c]
         IN  /\ rows[i].uses = f.uses /\ rows[i].op = f.op /\ rows[i].host = f.host /\ c = f.fx
             /\ Does(recorded, f, t, u)
  BY RowIs
<1>2. Live(t) \subseteq Nat
  BY <1>1, MemoryIs DEF Live
<1>3. rows[i].op = "d2h" => rows[i].host \in Hosts
  BY <1>1 DEF Calls, Complete
<1> HIDE DEF t, u, c
<1> QED
  BY <1>1, <1>2, <1>3 DEF Does

(* There are last calls also with one row more.                            *)
LEMMA LastsForward ==
  ASSUME Settled, NEW n \in Nat, n + 1 \in 1 .. Len(rows), LastsExist(n)
  PROVE  LastsExist(n + 1)
<1> SUFFICES ASSUME NEW x \in Nat \cup Hosts, Using(x, n + 1) # {}
             PROVE  \E c \in Nat : Last(x, c, n + 1)
  BY DEF LastsExist
<1>1. CASE x \in rows[n + 1].uses
  BY <1>1, LastMade DEF LastsExist
<1>2. CASE x \notin rows[n + 1].uses
  <2>1. Using(x, n + 1) = Using(x, n)
    BY <1>2, UsingMore
  <2> QED
    BY <1>2, <2>1, LastElsewhere DEF LastsExist
<1> QED
  BY <1>1, <1>2

(* The allocations, with one row more.                                     *)
LEMMA MallocsMore ==
  ASSUME NEW n \in Nat
  PROVE  Mallocs(n + 1) = Mallocs(n) \cup (IF rows[n + 1].op = "malloc" THEN {n + 1} ELSE {})
  BY DEF Mallocs

(* A row that allocates nothing leaves the table true.                     *)
LEMMA TableElsewhere ==
  ASSUME NEW n \in Nat, rows[n + 1].op # "malloc", NEW al, TableTrue(n, al)
  PROVE  TableTrue(n + 1, al)
<1>1. Mallocs(n + 1) = Mallocs(n)
  BY MallocsMore
<1> QED
  BY <1>1 DEF TableTrue

(* A row that copies nothing to the host leaves the host arrays true.      *)
LEMMA HostsElsewhere ==
  ASSUME Settled, NEW n \in Nat, n + 1 \in 1 .. Len(rows),
         rows[n + 1].op \notin {"d2h", "d2d"},
         NEW m, NEW t, m.host = t.host, HostsTrue(n, t)
  PROVE  HostsTrue(n + 1, m)
<1>1. \A h \in Hosts : h \notin rows[n + 1].uses
  BY UsesAre, NamesAssumption
<1>2. \A h \in Hosts : Using(h, n + 1) = Using(h, n)
  BY <1>1, UsingMore
<1>3. \A h \in Hosts, c \in Nat : Last(h, c, n + 1) <=> Last(h, c, n)
  BY <1>1, LastElsewhere
<1> QED
  BY <1>2, <1>3 DEF HostsTrue

(* What a row does to the blocks of the rows before it: to none, to its    *)
(* own, or it copies its own out.                                          *)
Forward(n, i, m) ==
    LET b == rows[i].fx
        d == rows[n + 1].fx
    IN  /\ b \notin rows[n + 1].uses \/ rows[n + 1].op = "d2h" => Same(m, i, memory, i)
        /\ b \in rows[n + 1].uses /\ Same(memory, i, truth[d], b) => Same(m, i, truth[d + 1], b)

(* The blocks after a row that allocates nothing.                          *)
LEMMA BlocksForward ==
  ASSUME Settled, NEW n \in Nat, n + 1 \in 1 .. Len(rows), Plain(n + 1),
         rows[n + 1].op # "malloc", BlocksTrue(n, memory), LastsExist(n),
         NEW m, Live(m) \subseteq Live(memory), \A i \in Mallocs(n) : Forward(n, i, m)
  PROVE  BlocksTrue(n + 1, m)
<1>1. Mallocs(n + 1) = Mallocs(n)
  BY MallocsMore
<1>2. Live(m) \subseteq Mallocs(n)
  BY DEF BlocksTrue
<1>3. ASSUME NEW i \in Mallocs(n), NEW c \in Nat, Last(rows[i].fx, c, n + 1)
      PROVE  Same(m, i, truth[c + 1], rows[i].fx)
  <2>1. rows[i].ok
    BY DEF Mallocs, Plain, Simple
  <2>2. Forward(n, i, m)
    OBVIOUS
  <2> QED
    BY <1>3, <2>1, <2>2, BlockForward DEF Forward
<1> QED
  BY <1>1, <1>2, <1>3 DEF BlocksTrue

(* Blocks of different rows are different blocks.                          *)
LEMMA OtherBlock ==
  ASSUME Settled, NEW i \in 1 .. Len(rows), NEW j \in 1 .. Len(rows), i # j
  PROVE  rows[i].fx # rows[j].fx
  BY DEF Settled, RowsTrue

-----------------------------------------------------------------------------
(* Stepping one row more *)

Ready(n) ==
    /\ Settled /\ n \in Nat /\ n + 1 \in 1 .. Len(rows)
    /\ Plain(n + 1)
    /\ memory \in Memories
    /\ Agrees(n, memory, allocations)

(* What Ready has, without its definitions.                                *)
LEMMA ReadyIs ==
  ASSUME NEW n, Ready(n)
  PROVE  /\ Settled /\ n \in Nat /\ n + 1 \in 1 .. Len(rows) /\ Plain(n + 1) /\ Simple(rows[n + 1])
         /\ TableTrue(n, allocations) /\ BlocksTrue(n, memory) /\ HostsTrue(n, memory) /\ LastsExist(n)
         /\ rows[n + 1].op # "d2d"
  BY DEF Ready, Agrees, Plain, Simple

(* An event replay does nothing for.                                       *)
LEMMA FollowOther ==
  ASSUME NEW n, Ready(n), rows[n + 1].op = "other"
  PROVE  Agrees(n + 1, memory, allocations)
<1>0. /\ Settled /\ n \in Nat /\ n + 1 \in 1 .. Len(rows) /\ Plain(n + 1)
      /\ TableTrue(n, allocations) /\ BlocksTrue(n, memory) /\ HostsTrue(n, memory) /\ LastsExist(n)
  BY ReadyIs
<1>1. rows[n + 1].uses = {}
  <2>1. LET f == recorded[rows[n + 1].fx]
        IN  /\ rows[n + 1].uses = f.uses /\ rows[n + 1].op = f.op
            /\ Does(recorded, f, truth[rows[n + 1].fx], truth[rows[n + 1].fx + 1])
    BY <1>0, RowIs
  <2> QED
    BY <2>1 DEF Does
<1>2. \A i \in Mallocs(n) : Forward(n, i, memory)
  BY <1>1 DEF Forward, Same
<1>3. BlocksTrue(n + 1, memory)
  BY <1>0, <1>2, BlocksForward
<1>4. TableTrue(n + 1, allocations) /\ HostsTrue(n + 1, memory) /\ LastsExist(n + 1)
  BY <1>0, TableElsewhere, HostsElsewhere, LastsForward
<1> QED
  BY <1>3, <1>4 DEF Agrees

(* A row that changes its own block and nothing else.                      *)
LEMMA FollowChange ==
  ASSUME NEW n, Ready(n), rows[n + 1].op \in {"free", "h2d", "launch"},
         NEW i \in Mallocs(n), rows[n + 1].uses = {rows[i].fx},
         NEW m, m.host = memory.host, Live(m) \subseteq Live(memory),
         \A k \in Live(memory) \ {i} : k \in Live(m) /\ m.blocks[k] = memory.blocks[k],
         Same(m, i, truth[rows[n + 1].fx + 1], rows[i].fx)
  PROVE  Agrees(n + 1, m, allocations)
<1>0. /\ Settled /\ n \in Nat /\ n + 1 \in 1 .. Len(rows) /\ Plain(n + 1)
      /\ TableTrue(n, allocations) /\ BlocksTrue(n, memory) /\ HostsTrue(n, memory) /\ LastsExist(n)
  BY ReadyIs
<1>1. ASSUME NEW k \in Mallocs(n) PROVE Forward(n, k, m)
  <2>1. CASE k = i
    BY <2>1 DEF Forward
  <2>2. CASE k # i
    <3>1. rows[k].fx # rows[i].fx
      BY <1>0, <2>2, OtherBlock DEF Mallocs
    <3>2. rows[k].fx \notin rows[n + 1].uses
      BY <3>1
    <3>3. Same(m, k, memory, k)
      BY <2>2 DEF Same
    <3> QED
      BY <3>2, <3>3 DEF Forward
  <2> QED
    BY <2>1, <2>2
<1>2. BlocksTrue(n + 1, m)
  BY <1>0, <1>1, BlocksForward
<1>3. TableTrue(n + 1, allocations) /\ HostsTrue(n + 1, m) /\ LastsExist(n + 1)
  BY <1>0, TableElsewhere, HostsElsewhere, LastsForward
<1> QED
  BY <1>2, <1>3 DEF Agrees

(* hipFree replays as it was recorded.                                     *)
LEMMA FollowFree ==
  ASSUME NEW n, Ready(n), rows[n + 1].op = "free"
  PROVE  \E i : /\ Known(rows[n + 1].ptr) /\ Denotes(rows[n + 1].ptr) = {i} /\ i # 0
                /\ Agrees(n + 1, Release(memory, i), allocations)
<1>0. /\ Settled /\ n \in Nat /\ n + 1 \in 1 .. Len(rows) /\ Simple(rows[n + 1])
      /\ TableTrue(n, allocations) /\ BlocksTrue(n, memory) /\ LastsExist(n)
      /\ memory \in Memories
  BY ReadyIs DEF Ready
<1> USE DEF Found
<1>1. PICK i \in Mallocs(n) : Found(n, i)
  BY <1>0, BlockFound
<1> DEFINE b == rows[i].fx
           t == truth[rows[n + 1].fx]
           u == truth[rows[n + 1].fx + 1]
           m == Release(memory, i)
<1>2. rows[n + 1].uses = {b} /\ u = Release(t, b) /\ t \in Memories
  BY <1>0, <1>1, RowIs
<1>3. /\ Live(m) = Live(memory) \ {i} /\ m.host = memory.host
      /\ \A k \in Live(memory) \ {i} : m.blocks[k] = memory.blocks[k]
  BY <1>0, ReleaseIs
<1>4. Live(u) = Live(t) \ {b}
  BY <1>2, ReleaseIs
<1>5. Same(m, i, u, b)
  BY <1>3, <1>4 DEF Same
<1> HIDE DEF m
<1>6. Agrees(n + 1, m, allocations)
  BY <1>2, <1>3, <1>5, FollowChange
<1> QED
  BY <1>1, <1>6 DEF m

(* A copy from the host replays as it was recorded.                        *)
LEMMA FollowCopyIn ==
  ASSUME NEW n, Ready(n), rows[n + 1].op = "h2d"
  PROVE  \E i : /\ Known(rows[n + 1].ptr) /\ Denotes(rows[n + 1].ptr) = {i} /\ i # 0
                /\ Agrees(n + 1, CopyIn(memory, i, rows[n + 1].fx), allocations)
<1>0. /\ Settled /\ n \in Nat /\ n + 1 \in 1 .. Len(rows) /\ Simple(rows[n + 1])
      /\ TableTrue(n, allocations) /\ BlocksTrue(n, memory) /\ LastsExist(n)
      /\ memory \in Memories
  BY ReadyIs DEF Ready
<1> USE DEF Found
<1>1. PICK i \in Mallocs(n) : Found(n, i)
  BY <1>0, BlockFound
<1> DEFINE b == rows[i].fx
           t == truth[rows[n + 1].fx]
           u == truth[rows[n + 1].fx + 1]
<1>2. PICK d \in Nat : d = rows[n + 1].fx
  BY <1>0, RowIs
<1>3. rows[n + 1].uses = {b} /\ u = CopyIn(t, b, d) /\ t \in Memories /\ b \in Nat /\ i \in Nat
  BY <1>0, <1>1, <1>2, RowIs DEF Mallocs
<1> DEFINE m == CopyIn(memory, i, d)
<1>4. /\ Live(m) = Live(memory) \cup {i} /\ m.host = memory.host /\ m.blocks[i] = <<d>>
      /\ \A k \in Live(memory) \ {i} : m.blocks[k] = memory.blocks[k]
  <2>1. memory \in Memories /\ i \in Nat
    BY <1>0, <1>3
  <2> QED
    BY <2>1, CopyInIs
<1> HIDE DEF m, b, t, u
<1>5. Live(u) = Live(t) \cup {b} /\ u.blocks[b] = <<d>>
  <2>1. t \in Memories /\ b \in Nat /\ u = CopyIn(t, b, d)
    BY <1>3
  <2>2. Live(CopyIn(t, b, d)) = Live(t) \cup {b} /\ CopyIn(t, b, d).blocks[b] = <<d>>
    BY <2>1, CopyInIs
  <2> QED
    BY <2>1, <2>2
<1>6. Same(m, i, u, b)
  BY <1>4, <1>5 DEF Same
<1>7. Live(m) \subseteq Live(memory)
  BY <1>1, <1>4
<1>8. Agrees(n + 1, m, allocations)
  BY <1>3, <1>4, <1>6, <1>7, FollowChange DEF b, u
<1> QED
  BY <1>1, <1>2, <1>8 DEF m

(* A kernel launch replays as it was recorded.                             *)
LEMMA FollowLaunch ==
  ASSUME NEW n, Ready(n), rows[n + 1].op = "launch"
  PROVE  \E i : /\ Known(rows[n + 1].ptr) /\ Denotes(rows[n + 1].ptr) = {i} /\ i # 0
                /\ Agrees(n + 1, Kernel(memory, i, rows[n + 1].fx), allocations)
<1>0. /\ Settled /\ n \in Nat /\ n + 1 \in 1 .. Len(rows) /\ Simple(rows[n + 1])
      /\ TableTrue(n, allocations) /\ BlocksTrue(n, memory) /\ LastsExist(n)
      /\ memory \in Memories
  BY ReadyIs DEF Ready
<1> USE DEF Found
<1>1. PICK i \in Mallocs(n) : Found(n, i)
  BY <1>0, BlockFound
<1> DEFINE b == rows[i].fx
           t == truth[rows[n + 1].fx]
           u == truth[rows[n + 1].fx + 1]
<1>2. PICK d \in Nat : d = rows[n + 1].fx
  BY <1>0, RowIs
<1>3. /\ rows[n + 1].uses = {b} /\ u = Kernel(t, b, d) /\ t \in Memories
      /\ b \in Live(t) /\ i \in Live(memory) /\ Same(memory, i, t, b)
  BY <1>0, <1>1, <1>2, RowIs
<1> DEFINE m == Kernel(memory, i, d)
<1>4. /\ Live(m) = Live(memory) /\ m.host = memory.host
      /\ m.blocks[i] = Append(memory.blocks[i], d)
      /\ \A k \in Live(memory) \ {i} : m.blocks[k] = memory.blocks[k]
  BY <1>0, <1>3, KernelIs
<1> HIDE DEF m, b, t, u
<1>5. Live(u) = Live(t) /\ u.blocks[b] = Append(t.blocks[b], d)
  <2>1. t \in Memories /\ b \in Live(t) /\ u = Kernel(t, b, d)
    BY <1>3
  <2>2. Live(Kernel(t, b, d)) = Live(t) /\ Kernel(t, b, d).blocks[b] = Append(t.blocks[b], d)
    BY <2>1, KernelIs
  <2> QED
    BY <2>1, <2>2
<1>6. Same(m, i, u, b)
  BY <1>3, <1>4, <1>5 DEF Same
<1>7. Live(m) \subseteq Live(memory)
  BY <1>4
<1>8. Agrees(n + 1, m, allocations)
  BY <1>3, <1>4, <1>6, <1>7, FollowChange DEF b, u
<1> QED
  BY <1>1, <1>2, <1>8 DEF m

(* An allocation replays as it was recorded: its address is not in the     *)
(* table yet, and the new entry and the new block are its own.             *)
LEMMA FollowMalloc ==
  ASSUME NEW n, Ready(n), rows[n + 1].op = "malloc",
         allocations \in [DOMAIN allocations -> Nat]
  PROVE  /\ ~Known(rows[n + 1].ptr)
         /\ Agrees(n + 1, Allocate(memory, n + 1), Put(allocations, rows[n + 1].ptr, n + 1))
<1> DEFINE e == rows[n + 1]
           m == Allocate(memory, n + 1)
           al == Put(allocations, e.ptr, n + 1)
<1>0. /\ Settled /\ n \in Nat /\ n + 1 \in 1 .. Len(rows) /\ Plain(n + 1) /\ Simple(e)
      /\ TableTrue(n, allocations) /\ BlocksTrue(n, memory) /\ HostsTrue(n, memory) /\ LastsExist(n)
      /\ memory \in Memories /\ n + 1 \in Nat
  BY ReadyIs DEF Ready
<1>1. Mallocs(n + 1) = Mallocs(n) \cup {n + 1}
  BY <1>0, MallocsMore
<1>2. \A i \in Mallocs(n) : i \in 1 .. n /\ i # n + 1 /\ rows[i].ptr # e.ptr
  <2>1. FreshRow(n + 1)
    BY <1>0 DEF Plain
  <2>2. \A j \in 1 .. n : rows[j].op = "malloc" => rows[j].ptr # e.ptr
    <3>1. (n + 1) - 1 = n
      BY <1>0
    <3> QED
      BY <2>1, <3>1 DEF FreshRow
  <2> QED
    BY <1>0, <2>2 DEF Mallocs
<1>3. ~Known(e.ptr)
  BY <1>0, <1>2 DEF TableTrue, Known
<1>4. /\ DOMAIN al = DOMAIN allocations \cup {e.ptr} /\ al[e.ptr] = n + 1
      /\ \A p \in DOMAIN allocations \ {e.ptr} : al[p] = allocations[p]
  BY DEF Put
<1>5. TableTrue(n + 1, al)
  <2> HIDE DEF al
  <2>1. ASSUME NEW i \in Mallocs(n + 1) PROVE rows[i].ptr \in DOMAIN al /\ al[rows[i].ptr] = i
    <3>1. CASE i = n + 1
      BY <1>4, <3>1
    <3>2. CASE i \in Mallocs(n)
      BY <1>0, <1>2, <1>4, <3>2 DEF TableTrue
    <3> QED
      BY <1>1, <2>1, <3>1, <3>2
  <2>2. ASSUME NEW p \in DOMAIN al PROVE \E i \in Mallocs(n + 1) : rows[i].ptr = p
    BY <1>0, <1>1, <1>4 DEF TableTrue
  <2> QED
    BY <2>1, <2>2 DEF TableTrue
<1>6. /\ Live(m) = Live(memory) \cup {n + 1} /\ m.blocks[n + 1] = << >> /\ m.host = memory.host
      /\ \A k \in Live(memory) \ {n + 1} : m.blocks[k] = memory.blocks[k]
  BY <1>0, AllocateIs
<1> HIDE DEF m, al
<1>7. e.uses = {e.fx} /\ e.ok
  BY <1>0, MallocUses DEF Simple
<1>8. ASSUME NEW i \in Mallocs(n), NEW c \in Nat, Last(rows[i].fx, c, n + 1)
      PROVE  Same(m, i, truth[c + 1], rows[i].fx)
  <2>1. rows[i].ok
    BY <1>0 DEF Mallocs, Plain, Simple
  <2>2. rows[i].fx \notin e.uses
    BY <1>0, <1>2, <1>7, OtherBlock DEF Mallocs
  <2>3. Same(m, i, memory, i)
    BY <1>2, <1>6 DEF Same
  <2> QED
    BY <1>0, <1>8, <2>1, <2>2, <2>3, BlockForward
<1>9. ASSUME NEW c \in Nat, Last(e.fx, c, n + 1)
      PROVE  Same(m, n + 1, truth[c + 1], e.fx)
  <2>1. c = e.fx
    BY <1>0, <1>7, <1>9, LastOwn
  <2>2. PICK d, t, u :
            d \in Nat /\ t \in Memories /\ d = e.fx /\ t = truth[d] /\ u = truth[d + 1] /\ u = Allocate(t, d)
    <3>1. LET f == recorded[e.fx]
          IN  /\ e.uses = f.uses /\ e.op = f.op /\ e.ok = f.ok /\ e.fx = f.fx
              /\ e.fx \in Nat /\ truth[e.fx] \in Memories
              /\ Does(recorded, f, truth[e.fx], truth[e.fx + 1])
      BY <1>0, RowIs
    <3> QED
      BY <1>7, <3>1 DEF Does
  <2>3. d \in Live(Allocate(t, d)) /\ Allocate(t, d).blocks[d] = << >>
    BY <2>2, AllocateIs
  <2> QED
    BY <1>6, <2>1, <2>2, <2>3 DEF Same
<1>10. BlocksTrue(n + 1, m)
  <2>1. Live(m) \subseteq Mallocs(n + 1)
    BY <1>0, <1>1, <1>6 DEF BlocksTrue
  <2> QED
    BY <1>1, <1>8, <1>9, <2>1 DEF BlocksTrue
<1>11. HostsTrue(n + 1, m) /\ LastsExist(n + 1)
  BY <1>0, <1>6, HostsElsewhere, LastsForward
<1> QED
  BY <1>3, <1>5, <1>10, <1>11 DEF Agrees, m, al

(* A copy to the host replays as it was recorded: another copy to the same *)
(* host array cannot have overtaken it.                                    *)
LEMMA FollowCopyOut ==
  ASSUME NEW n, Ready(n), rows[n + 1].op = "d2h"
  PROVE  \E i : /\ Known(rows[n + 1].ptr) /\ Denotes(rows[n + 1].ptr) = {i} /\ i # 0
                /\ Agrees(n + 1, CopyOut(memory, i, rows[n + 1].host), allocations)
<1>0. /\ Settled /\ n \in Nat /\ n + 1 \in 1 .. Len(rows) /\ Plain(n + 1) /\ Simple(rows[n + 1])
      /\ TableTrue(n, allocations) /\ BlocksTrue(n, memory) /\ HostsTrue(n, memory) /\ LastsExist(n)
      /\ memory \in Memories
  BY ReadyIs DEF Ready
<1> USE DEF Found
<1>1. PICK i \in Mallocs(n) : Found(n, i)
  BY <1>0, BlockFound
<1> DEFINE b == rows[i].fx
           t == truth[rows[n + 1].fx]
           u == truth[rows[n + 1].fx + 1]
<1>2. PICK h \in Hosts : h = rows[n + 1].host
  BY <1>0, <1>1, UsesAre
<1>3. /\ rows[n + 1].uses = {b, h} /\ u = CopyOut(t, b, h) /\ t \in Memories /\ b \in Nat
      /\ b \in Live(t) /\ i \in Live(memory) /\ Same(memory, i, t, b)
  BY <1>0, <1>1, <1>2, RowIs
<1> DEFINE m == CopyOut(memory, i, h)
<1>4. /\ Live(m) = Live(memory) /\ m.blocks = memory.blocks
      /\ DOMAIN m.host = DOMAIN memory.host \cup {h} /\ m.host[h] = memory.blocks[i]
      /\ \A j \in DOMAIN memory.host \ {h} : m.host[j] = memory.host[j]
  BY <1>0, <1>3, CopyOutIs
<1> HIDE DEF m, b, t, u
<1>5. Live(u) = Live(t) /\ u.blocks = t.blocks /\ u.host[h] = t.blocks[b]
  <2>1. t \in Memories /\ b \in Live(t) /\ u = CopyOut(t, b, h)
    BY <1>3
  <2>2. /\ Live(CopyOut(t, b, h)) = Live(t) /\ CopyOut(t, b, h).blocks = t.blocks
        /\ CopyOut(t, b, h).host[h] = t.blocks[b]
    BY <2>1, CopyOutIs
  <2> QED
    BY <2>1, <2>2
<1>6. ASSUME NEW k \in Mallocs(n) PROVE Forward(n, k, m)
  <2>1. Same(m, k, memory, k)
    BY <1>4 DEF Same
  <2>2. ASSUME rows[k].fx \in rows[n + 1].uses, Same(memory, k, t, rows[k].fx)
        PROVE  Same(m, k, u, rows[k].fx)
    BY <1>4, <1>5, <2>2 DEF Same
  <2> QED
    BY <2>1, <2>2 DEF Forward, t, u
<1>7. BlocksTrue(n + 1, m)
  BY <1>0, <1>4, <1>6, BlocksForward
<1>8. ASSUME NEW g \in Hosts
      PROVE  /\ g # h => g \notin rows[n + 1].uses
             /\ g = h => Using(g, n + 1) # {}
             /\ g # h => Using(g, n + 1) = Using(g, n)
  <2>1. g # b
    BY <1>3, NamesAssumption
  <2> QED
    BY <1>0, <1>3, <2>1, UsingMore
<1>9. DOMAIN m.host = {g \in Hosts : Using(g, n + 1) # {}}
  BY <1>0, <1>4, <1>8 DEF HostsTrue
<1>10. ASSUME NEW g \in Hosts, NEW c \in Nat, Last(g, c, n + 1)
       PROVE  m.host[g] = truth[c + 1].host[g]
  <2>1. CASE g = h
    <3>1. c = rows[n + 1].fx
      <4>1. SUFFICES ASSUME c # rows[n + 1].fx PROVE FALSE
        OBVIOUS
      <4>2. h \in rows[n + 1].uses
        BY <1>3
      <4>3. PICK j \in 1 .. n : h \in rows[j].uses /\ rows[j].op = "d2h" /\ rows[j].host # h
        BY <1>0, <1>2, <1>10, <2>1, <4>1, <4>2, LastOwn
      <4>4. j \in 1 .. Len(rows)
        BY <1>0
      <4>5. PICK v \in Nat : rows[j].uses = {v, rows[j].host}
        BY <1>0, <4>3, <4>4, UsesAre
      <4>6. h # v
        BY NamesAssumption
      <4> QED
        BY <4>3, <4>5, <4>6
    <3>2. m.host[h] = u.host[h]
      BY <1>3, <1>4, <1>5 DEF Same
    <3> QED
      BY <2>1, <3>1, <3>2 DEF u
  <2>2. CASE g # h
    <3>1. Last(g, c, n)
      BY <1>0, <1>8, <1>10, <2>2, LastElsewhere
    <3>2. memory.host[g] = truth[c + 1].host[g]
      BY <1>0, <3>1 DEF HostsTrue
    <3>3. g \in DOMAIN memory.host
      BY <1>0, <3>1 DEF HostsTrue, Last
    <3> QED
      BY <1>4, <2>2, <3>2, <3>3
  <2> QED
    BY <2>1, <2>2
<1>11. HostsTrue(n + 1, m)
  BY <1>9, <1>10 DEF HostsTrue
<1>12. TableTrue(n + 1, allocations) /\ LastsExist(n + 1)
  BY <1>0, TableElsewhere, LastsForward
<1> QED
  BY <1>1, <1>2, <1>7, <1>11, <1>12 DEF Agrees, m

-----------------------------------------------------------------------------
(* The replay of a simple recording *)

(* Nothing is replayed while the program is recorded.                      *)
Untouched ==
    phase = "record" => /\ Live(memory) = {} /\ DOMAIN memory.host = {}
                        /\ DOMAIN allocations = {}

(* At the start there is nothing to agree on.                              *)
LEMMA FollowsStart ==
  ASSUME NEW m, NEW al, Live(m) = {}, DOMAIN m.host = {}, DOMAIN al = {}
  PROVE  Agrees(0, m, al)
<1>1. Mallocs(0) = {} /\ \A x : Using(x, 0) = {}
  BY DEF Mallocs, Using
<1> QED
  BY <1>1 DEF Agrees, TableTrue, BlocksTrue, HostsTrue, LastsExist, Last

(* What is true of the first n rows is so until memory, allocations or the *)
(* recording change.                                                       *)
LEMMA AgreesStays ==
  ASSUME UNCHANGED <<truth, rows>>,
         NEW n, NEW m, NEW al, n = curr_event', m = memory', al = allocations',
         Agrees(n, m, al)
  PROVE  Agrees(curr_event, memory, allocations)'
<1>1. Mallocs(curr_event)' = Mallocs(n) /\ \A x : Using(x, curr_event)' = Using(x, n)
  BY DEF Mallocs, Using
<1>2. \A x, c : Last(x, c, curr_event)' <=> Last(x, c, n)
  BY <1>1 DEF Last
<1>3. TableTrue(curr_event, allocations)'
  BY <1>1 DEF Agrees, TableTrue
<1>4. BlocksTrue(curr_event, memory)'
  BY <1>1, <1>2 DEF Agrees, BlocksTrue
<1>5. HostsTrue(curr_event, memory)'
  BY <1>1, <1>2 DEF Agrees, HostsTrue
<1>6. LastsExist(curr_event)'
  BY <1>1, <1>2 DEF Agrees, LastsExist
<1> QED
  BY <1>3, <1>4, <1>5, <1>6 DEF Agrees

(* The agreement outlives whatever touches neither memory nor allocations. *)
LEMMA FollowsStays ==
  ASSUME Follows, UNCHANGED <<truth, rows, curr_event, memory, allocations>>, failed' \/ failed' = failed
  PROVE  Follows'
<1> SUFFICES ASSUME ~failed', (curr_event <= Len(rows))', Plain(curr_event)'
             PROVE  Agrees(curr_event, memory, allocations)'
  BY DEF Follows
<1>1. Plain(curr_event)
  BY DEF Plain, FreshRow
<1>2. Agrees(curr_event, memory, allocations)
  BY <1>1 DEF Follows
<1>3. PICK n, m, al : n = curr_event /\ m = memory /\ al = allocations
  OBVIOUS
<1> QED
  BY <1>2, <1>3, AgreesStays

(* The event stepped within the first run is the row of its place.         *)
LEMMA FirstRun ==
  ASSUME Loading, NEW i \in 1 .. Len(events), i <= Len(rows)
  PROVE  i \in 1 .. Len(rows) /\ events[i] = rows[i]
<1>1. i \in 1 .. Len(rows) /\ Len(rows) \in Nat
  BY DEF Loading
<1>2. Loaded(i) = i
  BY <1>1, FirstRound DEF Loaded
<1> QED
  BY <1>1, <1>2 DEF Loading

(* A step of the first run that fails nothing keeps the agreement.         *)
LEMMA FollowsForward ==
  ASSUME Shape, Story, Quiet, RowsTrue, Follows, Step, Forwards PROVE Follows'
<1> USE DEF NoBlock
<1> DEFINE n == curr_event
<1>0. UNCHANGED <<truth, rows>> /\ curr_event' = n + 1 /\ n \in Nat /\ phase' = "run"
  BY DEF Forwards, program, Pos, Shape, Stepped, Loading
<1> SUFFICES ASSUME ~failed', n + 1 <= Len(rows), Plain(n + 1)
             PROVE  Agrees(curr_event, memory, allocations)'
  <2>1. (curr_event <= Len(rows))' <=> n + 1 <= Len(rows)
    BY <1>0
  <2>2. Plain(curr_event)' <=> Plain(n + 1)
    <3>1. rows' = rows /\ curr_event' = n + 1
      BY <1>0
    <3> HIDE DEF n
    <3> QED
      BY <3>1 DEF Plain, FreshRow
  <2> QED
    BY <2>1, <2>2 DEF Follows
<1>1. Plain(n + 1) /\ Plain(n)
  BY <1>0 DEF Plain, FreshRow
<1>2. ~failed
  BY StepIs DEF Shape, Stepped, Fault, Forwards
<1>3. Pos = n + 1 /\ Replayed = rows[n + 1] /\ n + 1 \in 1 .. Len(rows)
  <2>1. Pos \in 1 .. Len(events) /\ Pos = n + 1 /\ Replayed = events[Pos]
    BY ReplayedIs DEF Shape, Forwards
  <2> QED
    BY <2>1, FirstRun DEF Shape
<1>4. Ready(n)
  <2>1. Settled
    BY DEF Settled, Shape, Loading
  <2>2. Len(rows) \in Nat /\ n <= Len(rows)
    BY <1>0, <1>3
  <2>3. Agrees(n, memory, allocations)
    BY <1>1, <1>2, <2>2 DEF Follows
  <2> QED
    BY <1>0, <1>1, <1>3, <2>1, <2>3 DEF Ready, Shape, Tables
<1>5. Simple(Replayed)
  BY <1>1, <1>3, <1>0 DEF Plain
<1>6. allocations \in [DOMAIN allocations -> Nat]
  BY DEF Shape, Tables
<1> DEFINE Goal == Agrees(curr_event, memory, allocations)'
<1>7. ASSUME NEW k, NEW m, NEW al, k = n + 1, m = memory', al = allocations', Agrees(k, m, al)
      PROVE  Goal
  BY <1>0, <1>7, AgreesStays
<1> HIDE DEF Goal
<1>8. ASSUME StepMalloc PROVE Goal
  <2>1. rows[n + 1].op = "malloc"
    BY <1>3, <1>8 DEF StepMalloc, Stepping
  <2>2. /\ ~Known(rows[n + 1].ptr)
        /\ Agrees(n + 1, Allocate(memory, n + 1), Put(allocations, rows[n + 1].ptr, n + 1))
    BY <1>4, <1>6, <2>1, FollowMalloc
  <2>3. memory' = Allocate(memory, n + 1) /\ allocations' = Put(allocations, rows[n + 1].ptr, n + 1)
    BY <1>3, <1>8, <2>2 DEF StepMalloc
  <2> QED
    BY <1>7, <2>2, <2>3
<1>9. ASSUME StepFree PROVE Goal
  <2>1. rows[n + 1].op = "free"
    BY <1>3, <1>9 DEF StepFree, Stepping
  <2>2. PICK i : /\ Known(rows[n + 1].ptr) /\ Denotes(rows[n + 1].ptr) = {i} /\ i # 0
                 /\ Agrees(n + 1, Release(memory, i), allocations)
    BY <1>4, <2>1, FollowFree
  <2>3. memory' = Release(memory, i) /\ allocations' = allocations
    BY <1>3, <1>9, <2>2 DEF StepFree
  <2> QED
    BY <1>7, <2>2, <2>3
<1>10. ASSUME StepMemcpyIn PROVE Goal
  <2>1. rows[n + 1].op = "h2d" /\ ~Replayed.strm
    BY <1>3, <1>5, <1>10 DEF StepMemcpyIn, Stepping, Simple
  <2>2. PICK i : /\ Known(rows[n + 1].ptr) /\ Denotes(rows[n + 1].ptr) = {i} /\ i # 0
                 /\ Agrees(n + 1, CopyIn(memory, i, rows[n + 1].fx), allocations)
    BY <1>4, <2>1, FollowCopyIn
  <2>3. memory' = CopyIn(memory, i, rows[n + 1].fx) /\ allocations' = allocations
    BY <1>3, <1>10, <2>1, <2>2 DEF StepMemcpyIn, Refused
  <2> QED
    BY <1>7, <2>2, <2>3
<1>11. ASSUME StepMemcpyOut PROVE Goal
  <2>1. rows[n + 1].op = "d2h" /\ ~Replayed.strm
    BY <1>3, <1>5, <1>11 DEF StepMemcpyOut, Stepping, Simple
  <2>2. PICK i : /\ Known(rows[n + 1].ptr) /\ Denotes(rows[n + 1].ptr) = {i} /\ i # 0
                 /\ Agrees(n + 1, CopyOut(memory, i, rows[n + 1].host), allocations)
    BY <1>4, <2>1, FollowCopyOut
  <2>3. memory' = CopyOut(memory, i, rows[n + 1].host) /\ allocations' = allocations
    BY <1>3, <1>11, <2>1, <2>2 DEF StepMemcpyOut, Refused
  <2> QED
    BY <1>7, <2>2, <2>3
<1>12. ASSUME StepLaunch PROVE Goal
  <2>1. rows[n + 1].op = "launch"
    BY <1>3, <1>12 DEF StepLaunch, Stepping
  <2>2. PICK i : /\ Known(rows[n + 1].ptr) /\ Denotes(rows[n + 1].ptr) = {i} /\ i # 0
                 /\ Agrees(n + 1, Kernel(memory, i, rows[n + 1].fx), allocations)
    BY <1>4, <2>1, FollowLaunch
  <2>3. memory' = Kernel(memory, i, rows[n + 1].fx) /\ allocations' = allocations
    BY <1>3, <1>12, <2>2 DEF StepLaunch
  <2> QED
    BY <1>7, <2>2, <2>3
<1>13. ASSUME StepOther PROVE Goal
  <2>1. rows[n + 1].op = "other" /\ UNCHANGED <<memory, allocations>>
    BY <1>3, <1>5, <1>13 DEF StepOther, Stepping, Simple
  <2>2. Agrees(n + 1, memory, allocations)
    BY <1>4, <2>1, FollowOther
  <2> QED
    BY <1>7, <2>1, <2>2
<1>14. ~StepMallocFails /\ ~StepLaunchNotFound
  BY DEF StepMallocFails, StepLaunchNotFound, GiveUp
<1>15. ~StepMemcpyInFault /\ ~StepLaunchFault
  BY <1>0 DEF StepMemcpyInFault, StepLaunchFault, Fault
<1> QED
  BY <1>8, <1>9, <1>10, <1>11, <1>12, <1>13, <1>14, <1>15 DEF Step, Goal

(* And so does every other step.                                           *)
LEMMA FollowsStep ==
  ASSUME Shape, Story, Quiet, RowsTrue, Untouched, Follows, [Next]_vars
  PROVE  Follows' /\ Untouched'
<1>0. ASSUME phase = "record" PROVE curr_event = 0
  BY <1>0 DEF Shape, Loading, Stepped
<1>1. CASE Recording \/ Open
  <2>1. phase = "record" /\ UNCHANGED <<curr_event, memory, allocations>>
    BY <1>1, RecordingLeaves DEF Open, tool
  <2>2. /\ Live(memory') = {} /\ DOMAIN memory'.host = {} /\ DOMAIN allocations' = {}
        /\ curr_event' = 0
    BY <1>0, <2>1 DEF Untouched
  <2>3. Agrees(curr_event, memory, allocations)'
    <3>1. Mallocs(curr_event)' = {} /\ \A x : Using(x, curr_event)' = {}
      BY <2>2 DEF Mallocs, Using
    <3> QED
      BY <2>2, <3>1 DEF Agrees, TableTrue, BlocksTrue, HostsTrue, LastsExist, Last
  <2> QED
    BY <2>2, <2>3 DEF Follows, Untouched
<1>2. CASE Step
  <2>1. phase' # "record"
    BY <1>2, StepIs DEF Fault, Forwards, Shape
  <2>2. CASE Fault
    BY <2>1, <2>2, FollowsStays DEF Fault, program, Untouched
  <2>3. CASE Forwards
    BY <1>2, <2>1, <2>3, FollowsForward DEF Forwards, Untouched
  <2> QED
    BY <1>2, <2>2, <2>3, StepIs DEF Shape
<1>3. CASE ~Recording /\ ~Open /\ ~Step
  <2>1. /\ UNCHANGED <<truth, rows, curr_event, memory, allocations>>
        /\ failed' \/ failed' = failed
        /\ phase' = "record" => phase = "record"
    BY <1>3 DEF Next, Run, Report, StepCommand, Quit, vars, program, tool
  <2> QED
    BY <2>1, FollowsStays DEF Untouched
<1> QED
  BY <1>1, <1>2, <1>3

Whole == Shape /\ Story /\ Quiet /\ RowsTrue /\ Untouched /\ Follows

(* The inductive invariant of SimpleReplays, at the start.                 *)
LEMMA WholeInit == ASSUME Init PROVE Whole
<1>1. recorded = << >> /\ truth = <<Empty>> /\ rows = << >> /\ curr_event = 0
      /\ memory = Empty /\ allocations = << >>
  BY DEF Init
<1>2. Len(recorded) = 0 /\ Len(truth) = 1 /\ Len(rows) = 0
  BY <1>1
<1>3. Story /\ RowsTrue
  BY <1>2 DEF Story, RowsTrue
<1>4. Quiet
  <2>1. \A x \in Nat : \A d \in 1 .. Len(truth) : \A c \in 1 .. d : c = d
    BY <1>2
  <2>2. \A x, d : Same(truth[d], x, truth[d], x)
    BY DEF Same
  <2> QED
    BY <2>1, <2>2 DEF Quiet
<1>5. Untouched
  BY <1>1, EmptyIs DEF Untouched
<1>6. Agrees(curr_event, memory, allocations)
  <2>1. Live(memory) = {} /\ DOMAIN memory.host = {} /\ DOMAIN allocations = {}
    BY <1>1, EmptyIs
  <2> QED
    BY <1>1, <2>1, FollowsStart
<1> QED
  BY <1>3, <1>4, <1>5, <1>6, ShapeInit DEF Whole, Follows

(* Every step keeps it.                                                    *)
LEMMA WholeStep == ASSUME Whole, [Next]_vars PROVE Whole'
<1>0. /\ Shape /\ Program /\ Stepped /\ Story /\ Quiet /\ RowsTrue /\ Untouched /\ Follows
  BY DEF Whole, Shape
<1>1. Story' /\ Quiet'
  <2>1. CASE Recording
    BY <1>0, <2>1, StoryStep, QuietStep
  <2>2. CASE ~Recording
    <3>1. UNCHANGED <<truth, recorded>>
      <4>1. CASE Step
        BY <1>0, <4>1, StepIs DEF Fault, Forwards, program
      <4>2. CASE ~Step
        BY <2>2, <4>2 DEF Next, Open, Run, Report, StepCommand, Quit, vars, program
      <4> QED
        BY <4>1, <4>2
    <3> QED
      BY <1>0, <3>1 DEF Story, Quiet
  <2> QED
    BY <2>1, <2>2
<1>2. RowsTrue'
  BY <1>0, RowsTrueStep
<1>3. Follows' /\ Untouched'
  BY <1>0, FollowsStep
<1> QED
  BY <1>0, <1>1, <1>2, <1>3, ShapeStep DEF Whole

(* As long as the recording is simple and hands out no address twice, the  *)
(* replaying process has in every block and host array, after every event  *)
(* of the first run, what the recorded program had there after the same    *)
(* calls, also when calls of other threads have changed places.            *)
THEOREM SimpleReplaysHolds == Spec => []SimpleReplays
<1>1. ASSUME Whole PROVE SimpleReplays
  <2> SUFFICES ASSUME ~failed, curr_event <= Len(rows),
                      \A i \in 1 .. curr_event : Simple(events[i]) /\ FreshAddress(i)
               PROVE  ReplaysLike
    BY DEF SimpleReplays
  <2>0. Settled /\ Shape /\ curr_event \in Nat /\ Len(rows) \in Nat
    BY <1>1 DEF Whole, Settled, Shape, Loading, Stepped
  <2>1. \A i \in 1 .. curr_event : i \in 1 .. Len(rows) /\ events[i] = rows[i]
    <3>1. \A i \in 1 .. curr_event : i \in 1 .. Len(events) /\ i <= Len(rows)
      BY <2>0 DEF Shape, Stepped, Loading
    <3> QED
      BY <2>0, <3>1, FirstRun DEF Shape
  <2>2. Plain(curr_event)
    BY <2>0, <2>1 DEF Plain, FreshRow, FreshAddress
  <2>3. Agrees(curr_event, memory, allocations)
    BY <1>1, <2>2 DEF Whole, Follows
  <2>4. \A x : About(x) = Using(x, curr_event)
    BY <2>1 DEF About, Using
  <2>5. ASSUME NEW x, NEW c \in Nat, Last(x, c, curr_event) PROVE Then(x) = truth[c + 1]
    <3> DEFINE S == {events[i].fx : i \in About(x)}
               k == CHOOSE k \in S : \A i \in About(x) : events[i].fx <= k
    <3>1. \A i \in About(x) : events[i].fx = rows[i].fx /\ events[i].fx \in Nat
      BY <2>0, <2>1, RowIs DEF About
    <3>2. c \in S /\ \A i \in About(x) : events[i].fx <= c
      BY <2>4, <2>5, <3>1 DEF Last
    <3>3. k \in S /\ \A i \in About(x) : events[i].fx <= k
      BY <3>2
    <3>4. k \in Nat /\ k <= c /\ c <= k
      BY <3>1, <3>2, <3>3
    <3>5. k = c /\ 1 + c = c + 1
      BY <3>4
    <3> HIDE DEF S
    <3>6. Then(x) = truth[1 + k]
      BY DEF Then, S
    <3> HIDE DEF k
    <3> QED
      BY <3>5, <3>6
  <2>6. Mallocs(curr_event) = {i \in 1 .. curr_event : events[i].op = "malloc"}
    BY <2>1 DEF Mallocs
  <2>7. ASSUME NEW i \in Mallocs(curr_event)
        PROVE  LET b == events[i].fx IN Same(memory, i, Then(b), b)
    <3>1. i \in 1 .. Len(rows) /\ events[i] = rows[i] /\ rows[i].ok /\ rows[i].op = "malloc"
      BY <2>1 DEF Mallocs, Simple
    <3>2. PICK b \in Nat : b = rows[i].fx
      BY <2>0, <3>1, RowIs
    <3>3. i \in Using(b, curr_event)
      BY <2>0, <3>1, <3>2, MallocUses DEF Using, Mallocs
    <3>4. PICK c \in Nat : Last(b, c, curr_event)
      BY <2>3, <3>3 DEF Agrees, LastsExist
    <3>5. Same(memory, i, truth[c + 1], b)
      BY <2>3, <3>2, <3>4 DEF Agrees, BlocksTrue
    <3>6. Then(b) = truth[c + 1]
      BY <2>5, <3>4
    <3> QED
      BY <3>1, <3>2, <3>5, <3>6
  <2>8. ASSUME NEW h \in DOMAIN memory.host PROVE memory.host[h] = Then(h).host[h]
    <3>1. h \in Hosts /\ Using(h, curr_event) # {}
      BY <2>3 DEF Agrees, HostsTrue
    <3>2. PICK c \in Nat : Last(h, c, curr_event)
      BY <2>3, <3>1 DEF Agrees, LastsExist
    <3>3. memory.host[h] = truth[c + 1].host[h]
      BY <2>3, <3>1, <3>2 DEF Agrees, HostsTrue
    <3>4. Then(h) = truth[c + 1]
      BY <2>5, <3>2
    <3> QED
      BY <3>3, <3>4
  <2>9. DOMAIN memory.host = {h \in Hosts : About(h) # {}} /\ Live(memory) \subseteq Mallocs(curr_event)
    BY <2>3, <2>4 DEF Agrees, HostsTrue, BlocksTrue
  <2>10. ASSUME NEW i \in 1 .. curr_event, events[i].op = "malloc"
         PROVE  LET b == events[i].fx IN
                IF b \in Live(Then(b))
                THEN i \in Live(memory) /\ memory.blocks[i] = Then(b).blocks[b]
                ELSE i \notin Live(memory)
    BY <2>6, <2>7, <2>10 DEF Same
  <2> QED
    BY <2>6, <2>8, <2>9, <2>10 DEF ReplaysLike
<1>2. Init => Whole
  BY WholeInit
<1>3. Whole /\ [Next]_vars => Whole'
  BY WholeStep
<1> QED
  BY <1>1, <1>2, <1>3, PTL DEF Spec

=============================================================================
