--------------------------- MODULE RingQueueOrder ---------------------------
(***************************************************************************)
(* When RingQueue is first in, first out.  `lapped' is a history variable: *)
(* it becomes TRUE when a push draws the ticket of a slot that an element  *)
(* in flight still needs or occupies, or a pop the ticket of a slot that   *)
(* another pop still waits for.  Until then pop n gets the element of push *)
(* n.  push() does not ask whether the ring is full, and neither try_push  *)
(* nor try_pop asks whether the older ticket has been served, which is     *)
(* what "This loop is not FIFO" in atomic_queue.h warns of.                *)
(***************************************************************************)
EXTENDS RingQueue

VARIABLE lapped

ovars == <<head, tail, slot, hand, want, out, lapped>>

(* An element in flight needs or occupies the slot of ticket n. *)
InFlight(n) ==
    \/ \E p \in Producers : hand[p] # None /\ SlotOf(hand[p].ticket) = SlotOf(n)
    \/ slot[SlotOf(n)] # None

(* A pop waits for the slot of ticket n. *)
Awaited(n) == \E c \in Consumers : want[c] # NoTicket /\ SlotOf(want[c]) = SlotOf(n)

OInit == Init /\ lapped = FALSE

OReserve(p, x) == Reserve(p, x) /\ lapped' = (lapped \/ InFlight(head))
OStore(p) == Store(p) /\ UNCHANGED lapped
OClaim(c) == Claim(c) /\ lapped' = (lapped \/ Awaited(tail))
OTake(c) == Take(c) /\ UNCHANGED lapped

ONext ==
    \/ \E p \in Producers : (\E x \in Items : OReserve(p, x)) \/ OStore(p)
    \/ \E c \in Consumers : OClaim(c) \/ OTake(c)

OSpec == OInit /\ [][ONext]_ovars

(* Pop n gets the element of push n, as long as no ticket has lapped: the  *)
(* rows of a capture come in the order of the push tickets.                *)
Fifo == ~lapped => \A d \in out : d.got.ticket = d.pop

(* With one popping thread, as the writer of hip.cpp, a push laps only     *)
(* when the ring is one element short of full by was_size: a test of       *)
(* was_full() would come one element too late, because a pop that waits    *)
(* has already been subtracted.                                            *)
LapsOnlyNearFull ==
    [][lapped' # lapped => head - tail >= Size - 1]_ovars
=============================================================================
