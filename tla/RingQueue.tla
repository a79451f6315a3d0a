------------------------------ MODULE RingQueue ------------------------------
(***************************************************************************)
(* What atomic_queue::AtomicQueue2 promises, without its implementation.   *)
(*                                                                         *)
(* The queue hands out tickets.  A push draws the next push ticket, a pop  *)
(* draws the next pop ticket; a ticket n stands for the slot n % Size of   *)
(* the ring.  A push stores its element when the slot of its ticket is     *)
(* vacant, a pop takes the element when the slot of its ticket is taken.   *)
(* Neither looks at the number of the other: the slot is all they share.   *)
(* So a pop can draw its ticket before the matching push does (`pop' on an *)
(* empty queue), and a push can draw its ticket when the ring is full      *)
(* (`push' never asks), and two threads whose tickets stand for the same   *)
(* slot are served in any order.                                           *)
(*                                                                         *)
(* An element in flight is a record of the ticket its push drew and of the *)
(* item; the ticket is what lets the properties say which push a pop got.  *)
(***************************************************************************)
EXTENDS Integers, FiniteSets

CONSTANTS
    Producers,  \* threads that push
    Consumers,  \* threads that pop
    Items,      \* what is pushed
    Size,       \* slots of the ring (size_)
    None,       \* no element
    MaxPush,    \* bound: push tickets drawn
    MaxPop      \* bound: pop tickets drawn

ASSUME SizeAssumption == Size \in Nat \ {0}
ASSUME BoundAssumption == MaxPush \in Nat /\ MaxPop \in Nat

VARIABLES
    head,  \* push tickets drawn so far (head_)
    tail,  \* pop tickets drawn so far (tail_)
    slot,  \* slot[k]: the element in slot k, or None
    hand,  \* hand[p]: the element producer p has a ticket for but no slot yet
    want,  \* want[c]: the ticket consumer c has drawn, or -1
    out    \* every completed pop: its own ticket and the element it got

vars == <<head, tail, slot, hand, want, out>>

Slots == 0 .. Size - 1
Element == [ticket : Nat, item : Items]
Delivery == [pop : Nat, got : Element]
NoTicket == -1

(* The slot a ticket stands for. *)
SlotOf(n) == n % Size

(* Element is an infinite set, so None cannot be tested against it by TLC: *)
(* a vacant slot, an empty hand are told by equality with None.            *)
ASSUME NoneAssumption == None \notin Element

TypeOK ==
    /\ head \in Nat
    /\ tail \in Nat
    /\ slot \in [Slots -> Element \cup {None}]
    /\ hand \in [Producers -> Element \cup {None}]
    /\ want \in [Consumers -> Nat \cup {NoTicket}]
    /\ out \in SUBSET Delivery

Init ==
    /\ head = 0
    /\ tail = 0
    /\ slot = [k \in Slots |-> None]
    /\ hand = [p \in Producers |-> None]
    /\ want = [c \in Consumers |-> NoTicket]
    /\ out = {}

(* Here and below, a definition marked `Slip' is the one after it with a   *)
(* plausible mistake; the model checker must tell the two apart.           *)

(* Slip: the counter is read after it was moved. *)
ReserveLate(p, x) ==
    /\ hand[p] = None
    /\ head < MaxPush
    /\ hand' = [hand EXCEPT ![p] = [ticket |-> head + 1, item |-> x]]
    /\ head' = head + 1
    /\ UNCHANGED <<tail, slot, want, out>>

(* p draws the next push ticket for item x: fetch_add or a won CAS. *)
Reserve(p, x) ==
    /\ hand[p] = None
    /\ head < MaxPush
    /\ hand' = [hand EXCEPT ![p] = [ticket |-> head, item |-> x]]
    /\ head' = head + 1
    /\ UNCHANGED <<tail, slot, want, out>>

(* Slip: does not wait for the slot. *)
StoreOver(p) ==
    /\ hand[p] # None
    /\ slot' = [slot EXCEPT ![SlotOf(hand[p].ticket)] = hand[p]]
    /\ hand' = [hand EXCEPT ![p] = None]
    /\ UNCHANGED <<head, tail, want, out>>

(* p's element goes into its slot, which has become vacant. *)
Store(p) ==
    /\ hand[p] # None
    /\ slot[SlotOf(hand[p].ticket)] = None
    /\ slot' = [slot EXCEPT ![SlotOf(hand[p].ticket)] = hand[p]]
    /\ hand' = [hand EXCEPT ![p] = None]
    /\ UNCHANGED <<head, tail, want, out>>

(* c draws the next pop ticket. *)
Claim(c) ==
    /\ want[c] = NoTicket
    /\ tail < MaxPop
    /\ want' = [want EXCEPT ![c] = tail]
    /\ tail' = tail + 1
    /\ UNCHANGED <<head, slot, hand, out>>

(* Slip: the slot is not given back. *)
TakeAndLeave(c) ==
    /\ want[c] # NoTicket
    /\ slot[SlotOf(want[c])] # None
    /\ out' = out \cup {[pop |-> want[c], got |-> slot[SlotOf(want[c])]]}
    /\ want' = [want EXCEPT ![c] = NoTicket]
    /\ UNCHANGED <<head, tail, slot, hand>>

(* Slip: the ticket is read after the counter was moved. *)
TakeNext(c) ==
    /\ want[c] # NoTicket
    /\ slot[SlotOf(want[c] + 1)] # None
    /\ out' = out \cup {[pop |-> want[c], got |-> slot[SlotOf(want[c] + 1)]]}
    /\ slot' = [slot EXCEPT ![SlotOf(want[c] + 1)] = None]
    /\ want' = [want EXCEPT ![c] = NoTicket]
    /\ UNCHANGED <<head, tail, hand>>

(* Slip: the slot is given back before the element is moved out of it. *)
TakeReleased(c) ==
    /\ want[c] # NoTicket
    /\ slot[SlotOf(want[c])] # None
    /\ slot' = [slot EXCEPT ![SlotOf(want[c])] = None]
    /\ out' = out \cup {[pop |-> want[c], got |-> slot'[SlotOf(want[c])]]}
    /\ want' = [want EXCEPT ![c] = NoTicket]
    /\ UNCHANGED <<head, tail, hand>>

(* c takes the element of its slot and leaves the slot vacant. *)
Take(c) ==
    /\ want[c] # NoTicket
    /\ slot[SlotOf(want[c])] # None
    /\ out' = out \cup {[pop |-> want[c], got |-> slot[SlotOf(want[c])]]}
    /\ slot' = [slot EXCEPT ![SlotOf(want[c])] = None]
    /\ want' = [want EXCEPT ![c] = NoTicket]
    /\ UNCHANGED <<head, tail, hand>>

Next ==
    \/ \E p \in Producers : (\E x \in Items : Reserve(p, x)) \/ Store(p)
    \/ \E c \in Consumers : Claim(c) \/ Take(c)

Spec == Init /\ [][Next]_vars

-----------------------------------------------------------------------------
(* Where the element of push ticket n is. *)
InHand(n) == {p \in Producers : hand[p] # None /\ hand[p].ticket = n}
InSlot(n) == {k \in Slots : slot[k] # None /\ slot[k].ticket = n}
InOut(n) == {d \in out : d.got.ticket = n}

(* Nothing is lost and nothing is delivered twice: the element of every    *)
(* push ticket drawn so far is in exactly one place, the hand of one       *)
(* pushing thread, one slot, or one delivery.  This is the promise         *)
(* atomic_queue.h makes to pushback_event and prepare_events: one row per  *)
(* event.                                                                  *)
ExactlyOnce ==
    \A n \in 0 .. head - 1 :
        Cardinality(InHand(n)) + Cardinality(InSlot(n)) + Cardinality(InOut(n)) = 1

(* No element comes from nowhere: what is in flight or delivered carries a *)
(* ticket that a push has drawn.                                           *)
NoInvention ==
    /\ \A p \in Producers : hand[p] # None => hand[p].ticket < head
    /\ \A k \in Slots : slot[k] # None => slot[k].ticket < head
    /\ \A d \in out : d.got.ticket < head /\ d.pop < tail

(* A pop gets an element whose ticket stands for the slot of its own       *)
(* ticket, and a stored element sits in the slot of its ticket.  Order is  *)
(* only kept between slots, see RingQueueOrder.                            *)
SameSlot ==
    /\ \A k \in Slots : slot[k] # None => SlotOf(slot[k].ticket) = k
    /\ \A d \in out : SlotOf(d.got.ticket) = SlotOf(d.pop)

Busy(S, f, none) == {t \in S : f[t] # none}
Stored == {k \in Slots : slot[k] # None}

(* was_size, which is head - tail, counts what it is used to count: the    *)
(* elements stored or on their way, less the pops that wait for one.       *)
(* was_empty and was_full are right about the ring only through this.      *)
SizeCounts ==
    head - tail = Cardinality(Busy(Producers, hand, None)) + Cardinality(Stored)
                    - Cardinality(Busy(Consumers, want, NoTicket))
=============================================================================
