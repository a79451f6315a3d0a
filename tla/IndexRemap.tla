----------------------------- MODULE IndexRemap -----------------------------
(***************************************************************************)
(* Where atomic_queue.h puts the element of a ticket: the ring is rounded  *)
(* up to a power of two, and the low bits of a ticket are swapped with the *)
(* bits above them so that neighbours do not share a cache line.  A walk   *)
(* over consecutive tickets, for rings of several sizes.                   *)
(***************************************************************************)
EXTENDS ModArithmetic

CONSTANTS
    Width,    \* bits of an unsigned, 32 in the code
    Sizes,    \* what is asked for as SIZE
    PerLine,  \* how many state bytes a cache line has
    Laps      \* bound: how often the walk goes round the ring

(* 1u << k *)
PowerOf2[k \in 0 .. 32] == IF k = 0 THEN 1 ELSE 2 * PowerOf2[k - 1]

ASSUME RemapBounds ==
    /\ Width \in 1 .. 32
    /\ Sizes \subseteq 1 .. PowerOf2[Width - 1]
    /\ PerLine \subseteq Nat
    /\ Laps \in Nat

VARIABLES
    asked, line,  \* SIZE and the states per cache line of this ring
    ticket,       \* the ticket the walk is at
    used          \* history: the places of the earlier tickets of this lap

vars == <<asked, line, ticket, used>>

-----------------------------------------------------------------------------
(* The bits of an unsigned, and C's operations on them.                    *)

MaxUnsigned == PowerOf2[Width]
Places == 0 .. Width - 1
Bit(x, i) == (x \div PowerOf2[i]) % 2

(* The unsigned with the given bits. *)
Word(bit) ==
    LET above[i \in 0 .. Width] == IF i = Width THEN 0 ELSE bit[i] + 2 * above[i + 1]
    IN  above[0]

And(x, y) == Word([i \in Places |-> Bit(x, i) * Bit(y, i)])
Or(x, y) == Word([i \in Places |-> IF Bit(x, i) = 1 THEN 1 ELSE Bit(y, i)])
Xor(x, y) == Word([i \in Places |-> (Bit(x, i) + Bit(y, i)) % 2])
ShiftRight(x, u) == Word([i \in Places |-> IF i + u < Width THEN Bit(x, i + u) ELSE 0])
ShiftLeft(x, u) == Word([i \in Places |-> IF i >= u THEN Bit(x, i - u) ELSE 0])

-----------------------------------------------------------------------------
decrement(x) == (x - 1) % MaxUnsigned
increment(x) == (x + 1) % MaxUnsigned
or_equal(x, u) == Or(x, ShiftRight(x, u))

(* Slip: x itself is taken for one less than it is. *)
round_up_late(a) ==
    increment(or_equal(or_equal(or_equal(or_equal(or_equal(a, 1), 2), 4), 8), 16))

round_up_to_power_of_2(a) ==
    increment(or_equal(or_equal(or_equal(or_equal(or_equal(decrement(a), 1), 2), 4), 8), 16))

GetCacheLineIndexBits(n) ==
    IF \E b \in 1 .. 8 : PowerOf2[b] = n THEN CHOOSE b \in 1 .. 8 : PowerOf2[b] = n ELSE 0

(* Slip: a ring of one bit less is shuffled too. *)
ShuffleSmall(array_size, elements_per_cache_line) ==
    LET bits == GetCacheLineIndexBits(elements_per_cache_line)
    IN  IF 2 * array_size < PowerOf2[bits * 2] THEN 0 ELSE bits

(* GetIndexShuffleBits: a ring with fewer lines than a line has elements   *)
(* is not shuffled.                                                        *)
GetIndexShuffleBits(array_size, elements_per_cache_line) ==
    LET bits == GetCacheLineIndexBits(elements_per_cache_line)
    IN  IF array_size < PowerOf2[bits * 2] THEN 0 ELSE bits

(* Slip: the low bits are replaced, and go nowhere. *)
remap_half(bits, index) ==
    LET mix == And(Xor(index, ShiftRight(index, bits)), PowerOf2[bits] - 1)
    IN  Xor(index, mix)

remap_index(bits, index) ==
    LET mix == And(Xor(index, ShiftRight(index, bits)), PowerOf2[bits] - 1)
    IN  Xor(Xor(index, mix), ShiftLeft(mix, bits))

size_ == round_up_to_power_of_2(asked)
SHUFFLE_BITS == GetIndexShuffleBits(size_, line)
(* do_push and do_pop: the place of a ticket in states_ and elements_. *)
PlaceOf(n) == remap_index(SHUFFLE_BITS, n % size_)

Init ==
    /\ asked \in Sizes
    /\ line \in PerLine
    /\ ticket = 0
    /\ used = {}

NextTicket ==
    /\ ticket + 1 < Laps * size_
    /\ ticket' = ticket + 1
    /\ used' = IF ticket' % size_ = 0 THEN {} ELSE used \cup {PlaceOf(ticket)}
    /\ UNCHANGED <<asked, line>>

Spec == Init /\ [][NextTicket]_vars

-----------------------------------------------------------------------------
(* The ring has the least power of two of slots that is enough: the size   *)
(* must divide the range of the counters.                                  *)
SizeIsLeastPower ==
    /\ \E k \in 0 .. Width - 1 : size_ = PowerOf2[k]
    /\ asked <= size_ /\ size_ < 2 * asked

(* Within a lap no two tickets share a place and every place is one of the *)
(* ring: remap_index is a permutation of the slots, as AtomicQueue assumes *)
(* of Remap.                                                               *)
EachPlaceOnce == PlaceOf(ticket) \in (0 .. size_ - 1) \ used

(* The two exclusive-ors are what the comment above remap_index says of    *)
(* them: they exchange the lowest SHUFFLE_BITS bits with the next ones,    *)
(* and the ring is as large as to have all of those.                       *)
SwapsDigits ==
    LET base == PowerOf2[SHUFFLE_BITS]
    IN  /\ size_ % (base * base) = 0
        /\ PlaceOf(ticket) = Exchanged(base, ticket % size_)

(* Two consecutive tickets are in different cache lines, also where the    *)
(* walk goes round the end of the ring.                                    *)
NeighboursApart ==
    [][SHUFFLE_BITS > 0 => PlaceOf(ticket) \div line # PlaceOf(ticket') \div line]_vars
=============================================================================
