--------------------------- MODULE RingQueueProofs ---------------------------
(***************************************************************************)
(* Proofs about RingQueue and RingQueueOrder, for every set of threads,    *)
(* every ring size and every bound on the tickets: first what the ring     *)
(* promises, then when it is first in, first out, and when it can stop to  *)
(* be.                                                                     *)
(***************************************************************************)
EXTENDS RingQueueOrder, ModArithmetic, FiniteSetTheorems, TLAPS

(* The slot of a ticket is a slot of the ring.                             *)
LEMMA SlotOfType == ASSUME NEW n \in Nat PROVE SlotOf(n) \in Slots
  BY SizeAssumption DEF SlotOf, Slots

(* A step of the queue keeps the types.                                    *)
LEMMA TypeStep == ASSUME TypeOK, [Next]_vars PROVE TypeOK'
<1> USE DEF TypeOK
<1>1. ASSUME NEW p \in Producers, NEW x \in Items, Reserve(p, x) PROVE TypeOK'
  <2>1. [ticket |-> head, item |-> x] \in Element
    BY DEF Element
  <2> QED
    BY <1>1, <2>1 DEF Reserve
<1>2. ASSUME NEW p \in Producers, Store(p) PROVE TypeOK'
  BY <1>2 DEF Store
<1>3. ASSUME NEW c \in Consumers, Claim(c) PROVE TypeOK'
  BY <1>3 DEF Claim
<1>4. ASSUME NEW c \in Consumers, Take(c) PROVE TypeOK'
  <2>1. want[c] \in Nat
    BY <1>4 DEF Take
  <2>2. slot[SlotOf(want[c])] \in Element
    BY <1>4, <2>1, SlotOfType DEF Take
  <2>3. [pop |-> want[c], got |-> slot[SlotOf(want[c])]] \in Delivery
    BY <2>1, <2>2 DEF Delivery
  <2> QED
    BY <1>4, <2>3 DEF Take
<1>5. CASE UNCHANGED vars
  BY <1>5 DEF vars
<1> QED
  BY <1>1, <1>2, <1>3, <1>4, <1>5 DEF Next

(* The variables of RingQueue keep their types.                            *)
THEOREM TypeCorrect == Spec => []TypeOK
<1>1. Init => TypeOK
  BY DEF Init, TypeOK, NoTicket
<1>2. TypeOK /\ [Next]_vars => TypeOK'
  BY TypeStep
<1> QED
  BY <1>1, <1>2, PTL DEF Spec

(* What is in flight or delivered carries a ticket that was drawn, in the  *)
(* slot it stands for.  Neither half needs the other, but both are about   *)
(* the same three places, so they are proved together.                     *)
Discipline == NoInvention /\ SameSlot /\ \A c \in Consumers : want[c] < tail

THEOREM DisciplineHolds == Spec => []Discipline
<1>1. Init => Discipline
  BY DEF Init, Discipline, NoInvention, SameSlot, NoTicket
<1>2. TypeOK /\ Discipline /\ [Next]_vars => Discipline'
  <2> SUFFICES ASSUME TypeOK, Discipline, [Next]_vars PROVE Discipline'
    OBVIOUS
  <2> USE DEF TypeOK, Discipline, NoInvention, SameSlot
  <2>1. ASSUME NEW p \in Producers, NEW x \in Items, Reserve(p, x) PROVE Discipline'
    <3>1. [ticket |-> head, item |-> x].ticket = head
      OBVIOUS
    <3>2. \A q \in Producers : hand'[q] # None => hand'[q].ticket < head'
      BY <2>1, <3>1 DEF Reserve, Element
    <3> QED
      BY <2>1, <3>2 DEF Reserve, Element, Delivery
  <2>2. ASSUME NEW p \in Producers, Store(p) PROVE Discipline'
    <3>1. SlotOf(hand[p].ticket) \in Slots
      BY <2>2, SlotOfType DEF Store, Element
    <3> QED
      BY <2>2, <3>1 DEF Store
  <2>3. ASSUME NEW c \in Consumers, Claim(c) PROVE Discipline'
    BY <2>3 DEF Claim, Delivery, NoTicket
  <2>4. ASSUME NEW c \in Consumers, Take(c) PROVE Discipline'
    <3> DEFINE d == [pop |-> want[c], got |-> slot[SlotOf(want[c])]]
    <3>1. SlotOf(want[c]) \in Slots
      BY <2>4, SlotOfType DEF Take
    <3>2. d.got.ticket < head /\ d.pop < tail /\ SlotOf(d.got.ticket) = SlotOf(d.pop)
      BY <2>4, <3>1 DEF Take
    <3> HIDE DEF d
    <3>3. out' = out \cup {d}
      BY <2>4 DEF Take, d
    <3>4. \A e \in out' : e.got.ticket < head' /\ e.pop < tail' /\ SlotOf(e.got.ticket) = SlotOf(e.pop)
      BY <2>4, <3>2, <3>3 DEF Take
    <3>5. \A e \in Consumers : want'[e] < tail'
      BY <2>4 DEF Take, NoTicket
    <3> QED
      BY <2>4, <3>1, <3>4, <3>5 DEF Take
  <2>5. CASE UNCHANGED vars
    BY <2>5 DEF vars
  <2> QED
    BY <2>1, <2>2, <2>3, <2>4, <2>5 DEF Next
<1> QED
  BY <1>1, <1>2, TypeCorrect, PTL DEF Spec

-----------------------------------------------------------------------------
(* ExactlyOnce is about cardinalities and is not inductive; the invariant  *)
(* behind it says that a ticket is never in two places and that a drawn    *)
(* one is always in some place.                                            *)
Held(p) == hand[p] # None
Full(k) == slot[k] # None

NeverTwice ==
    /\ \A p, q \in Producers : (Held(p) /\ Held(q) /\ hand[p].ticket = hand[q].ticket) => p = q
    /\ \A j, k \in Slots : (Full(j) /\ Full(k) /\ slot[j].ticket = slot[k].ticket) => j = k
    /\ \A d, e \in out : d.got.ticket = e.got.ticket => d = e
    /\ \A p \in Producers, k \in Slots : (Held(p) /\ Full(k)) => hand[p].ticket # slot[k].ticket
    /\ \A p \in Producers, d \in out : Held(p) => hand[p].ticket # d.got.ticket
    /\ \A k \in Slots, d \in out : Full(k) => slot[k].ticket # d.got.ticket

Somewhere ==
    \A n \in 0 .. head - 1 :
        \/ \E p \in Producers : Held(p) /\ hand[p].ticket = n
        \/ \E k \in Slots : Full(k) /\ slot[k].ticket = n
        \/ \E d \in out : d.got.ticket = n

LEMMA NeverTwiceStep ==
  ASSUME TypeOK, Discipline, NeverTwice, [Next]_vars PROVE NeverTwice'
<1> USE DEF TypeOK, Discipline, NoInvention, NeverTwice, Held, Full
<1>1. ASSUME NEW p \in Producers, NEW x \in Items, Reserve(p, x) PROVE NeverTwice'
  <2>1. hand'[p].ticket = head
    BY <1>1 DEF Reserve
  <2>2. \A q \in Producers : q # p => hand'[q] = hand[q]
    BY <1>1 DEF Reserve
  <2>3. UNCHANGED <<slot, out>>
    BY <1>1 DEF Reserve
  <2> QED
    BY <2>1, <2>2, <2>3 DEF Element
<1>2. ASSUME NEW p \in Producers, Store(p) PROVE NeverTwice'
  <2> DEFINE k == SlotOf(hand[p].ticket)
  <2>1. k \in Slots /\ slot[k] = None /\ slot'[k] = hand[p] /\ hand[p] # None
    BY <1>2, SlotOfType DEF Store, Element
  <2>2. hand'[p] = None /\ \A q \in Producers : q # p => hand'[q] = hand[q]
    BY <1>2 DEF Store
  <2>3. \A j \in Slots : j # k => slot'[j] = slot[j]
    BY <1>2 DEF Store
  <2>4. UNCHANGED out
    BY <1>2 DEF Store
  <2> HIDE DEF k
  <2> QED
    BY <2>1, <2>2, <2>3, <2>4
<1>3. ASSUME NEW c \in Consumers, Claim(c) PROVE NeverTwice'
  BY <1>3 DEF Claim
<1>4. ASSUME NEW c \in Consumers, Take(c) PROVE NeverTwice'
  <2> DEFINE k == SlotOf(want[c])
             d == [pop |-> want[c], got |-> slot[k]]
  <2>1. k \in Slots /\ slot[k] # None /\ d.got = slot[k]
    BY <1>4, SlotOfType DEF Take
  <2>2. slot'[k] = None /\ \A j \in Slots : j # k => slot'[j] = slot[j]
    BY <1>4, <2>1 DEF Take
  <2>3. out' = out \cup {d} /\ UNCHANGED hand
    BY <1>4 DEF Take
  <2> HIDE DEF k, d
  <2> QED
    BY <2>1, <2>2, <2>3
<1>5. CASE UNCHANGED vars
  BY <1>5 DEF vars
<1> QED
  BY <1>1, <1>2, <1>3, <1>4, <1>5 DEF Next

LEMMA SomewhereStep ==
  ASSUME TypeOK, Somewhere, [Next]_vars PROVE Somewhere'
<1> USE DEF TypeOK, Somewhere, Held, Full
<1>1. ASSUME NEW p \in Producers, NEW x \in Items, Reserve(p, x) PROVE Somewhere'
  <2>1. hand'[p].ticket = head /\ hand'[p] # None
    <3>1. [ticket |-> head, item |-> x] \in Element
      BY DEF Element
    <3> QED
      BY <1>1, <3>1, NoneAssumption DEF Reserve
  <2>2. \A q \in Producers : hand[q] # None => hand'[q] = hand[q]
    BY <1>1 DEF Reserve
  <2>3. UNCHANGED <<slot, out>> /\ head' = head + 1
    BY <1>1 DEF Reserve
  <2> SUFFICES ASSUME NEW n \in 0 .. head' - 1
               PROVE  \/ \E q \in Producers : hand'[q] # None /\ hand'[q].ticket = n
                      \/ \E k \in Slots : slot'[k] # None /\ slot'[k].ticket = n
                      \/ \E d \in out' : d.got.ticket = n
    OBVIOUS
  <2>4. CASE n = head
    BY <2>1, <2>4
  <2>5. CASE n \in 0 .. head - 1
    BY <2>2, <2>3, <2>5
  <2> QED
    BY <2>3, <2>4, <2>5
<1>2. ASSUME NEW p \in Producers, Store(p) PROVE Somewhere'
  <2> DEFINE k == SlotOf(hand[p].ticket)
  <2>1. k \in Slots /\ slot[k] = None /\ slot'[k] = hand[p] /\ hand[p] # None
    BY <1>2, SlotOfType DEF Store, Element
  <2>2. \A q \in Producers : q # p => hand'[q] = hand[q]
    BY <1>2 DEF Store
  <2>3. \A j \in Slots : slot[j] # None => slot'[j] = slot[j]
    BY <1>2 DEF Store
  <2>4. UNCHANGED <<head, out>>
    BY <1>2 DEF Store
  <2> HIDE DEF k
  <2> QED
    BY <2>1, <2>2, <2>3, <2>4
<1>3. ASSUME NEW c \in Consumers, Claim(c) PROVE Somewhere'
  BY <1>3 DEF Claim
<1>4. ASSUME NEW c \in Consumers, Take(c) PROVE Somewhere'
  <2> DEFINE k == SlotOf(want[c])
             d == [pop |-> want[c], got |-> slot[k]]
  <2>1. k \in Slots /\ d.got = slot[k]
    BY <1>4, SlotOfType DEF Take
  <2>2. \A j \in Slots : j # k => slot'[j] = slot[j]
    BY <1>4 DEF Take
  <2>3. out' = out \cup {d} /\ UNCHANGED <<hand, head>>
    BY <1>4 DEF Take
  <2> HIDE DEF k, d
  <2> QED
    BY <2>1, <2>2, <2>3
<1>5. CASE UNCHANGED vars
  BY <1>5 DEF vars
<1> QED
  BY <1>1, <1>2, <1>3, <1>4, <1>5 DEF Next

(* A set whose members are all equal has at most one.                      *)
LEMMA AtMostOne ==
  ASSUME NEW S, \A x, y \in S : x = y
  PROVE  Cardinality(S) = IF S = {} THEN 0 ELSE 1
<1>1. CASE S = {}
  BY <1>1, FS_EmptySet
<1>2. CASE S # {}
  <2>1. PICK x \in S : TRUE
    BY <1>2
  <2>2. S = {x}
    BY <2>1
  <2> QED
    BY <1>2, <2>2, FS_Singleton
<1> QED
  BY <1>1, <1>2

LEMMA PlacesCounted ==
  ASSUME NeverTwice, Somewhere PROVE ExactlyOnce
<1> SUFFICES ASSUME NEW n \in 0 .. head - 1
             PROVE  Cardinality(InHand(n)) + Cardinality(InSlot(n)) + Cardinality(InOut(n)) = 1
  BY DEF ExactlyOnce
<1>1. Cardinality(InHand(n)) = IF InHand(n) = {} THEN 0 ELSE 1
  <2>1. \A x, y \in InHand(n) : x = y
    BY DEF NeverTwice, InHand, Held
  <2> QED
    BY <2>1, AtMostOne
<1>2. Cardinality(InSlot(n)) = IF InSlot(n) = {} THEN 0 ELSE 1
  <2>1. \A x, y \in InSlot(n) : x = y
    BY DEF NeverTwice, InSlot, Full
  <2> QED
    BY <2>1, AtMostOne
<1>3. Cardinality(InOut(n)) = IF InOut(n) = {} THEN 0 ELSE 1
  <2>1. \A x, y \in InOut(n) : x = y
    BY DEF NeverTwice, InOut
  <2> QED
    BY <2>1, AtMostOne
<1>4. InHand(n) # {} \/ InSlot(n) # {} \/ InOut(n) # {}
  BY DEF Somewhere, InHand, InSlot, InOut, Held, Full
<1>5. InHand(n) = {} \/ (InSlot(n) = {} /\ InOut(n) = {})
  BY DEF NeverTwice, InHand, InSlot, InOut, Held, Full
<1>6. InSlot(n) = {} \/ InOut(n) = {}
  BY DEF NeverTwice, InSlot, InOut, Full
<1> QED
  BY <1>1, <1>2, <1>3, <1>4, <1>5, <1>6

(* No ticket is in two places and every drawn one is in some place.        *)
THEOREM PlacesHold == Spec => [](NeverTwice /\ Somewhere)
<1>1. Init => NeverTwice /\ Somewhere
  BY DEF Init, NeverTwice, Somewhere, Held, Full
<1>2. TypeOK /\ Discipline /\ NeverTwice /\ Somewhere /\ [Next]_vars => NeverTwice' /\ Somewhere'
  BY NeverTwiceStep, SomewhereStep
<1> QED
  BY <1>1, <1>2, TypeCorrect, DisciplineHolds, PTL DEF Spec

(* Every pushed element is in exactly one place, whatever the threads do.  *)
THEOREM ExactlyOnceHolds == Spec => []ExactlyOnce
<1>1. NeverTwice /\ Somewhere => ExactlyOnce
  BY PlacesCounted
<1> QED
  BY <1>1, PlacesHold, PTL

-----------------------------------------------------------------------------
(* Only drawn tickets are in flight or delivered: half of Discipline.      *)
THEOREM NoInventionHolds == Spec => []NoInvention
BY DisciplineHolds, PTL DEF Discipline

(* A pop gets an element of its own slot: the other half.                  *)
THEOREM SameSlotHolds == Spec => []SameSlot
BY DisciplineHolds, PTL DEF Discipline

-----------------------------------------------------------------------------
(* What a step does to a set of the form {t \in S : f[t] # none}, which is *)
(* all that SizeCounts looks at.                                           *)

(* A thread that gets something joins the busy ones.                       *)
LEMMA BusyMore ==
  ASSUME NEW S, NEW f, NEW g, NEW none, NEW t \in S, IsFiniteSet(Busy(S, f, none)),
         f[t] = none, g[t] # none, \A u \in S : u # t => g[u] = f[u]
  PROVE  /\ IsFiniteSet(Busy(S, g, none))
         /\ Cardinality(Busy(S, g, none)) = Cardinality(Busy(S, f, none)) + 1
<1>1. Busy(S, g, none) = Busy(S, f, none) \cup {t} /\ t \notin Busy(S, f, none)
  BY DEF Busy
<1> QED
  BY <1>1, FS_AddElement

(* One that gives it away leaves them.                                     *)
LEMMA BusyLess ==
  ASSUME NEW S, NEW f, NEW g, NEW none, NEW t \in S, IsFiniteSet(Busy(S, f, none)),
         f[t] # none, g[t] = none, \A u \in S : u # t => g[u] = f[u]
  PROVE  /\ IsFiniteSet(Busy(S, g, none))
         /\ Cardinality(Busy(S, g, none)) = Cardinality(Busy(S, f, none)) - 1
<1>1. Busy(S, g, none) = Busy(S, f, none) \ {t} /\ t \in Busy(S, f, none)
  BY DEF Busy
<1> QED
  BY <1>1, FS_RemoveElement

(* The three sets of SizeCounts, all of one form.                          *)
Pushing == Busy(Producers, hand, None)
Taken == Busy(Slots, slot, None)
Popping == Busy(Consumers, want, NoTicket)

(* SizeCounts with what its steps need: the sets are finite, even when     *)
(* there are infinitely many threads, since a step adds at most one.       *)
Counted ==
    /\ IsFiniteSet(Pushing) /\ IsFiniteSet(Taken) /\ IsFiniteSet(Popping)
    /\ head - tail = Cardinality(Pushing) + Cardinality(Taken) - Cardinality(Popping)

(* Every step moves one of head, tail and the three cardinalities together *)
(* with another.                                                           *)
LEMMA CountedStep ==
  ASSUME TypeOK, Counted, [Next]_vars PROVE Counted'
<1>0. /\ Cardinality(Pushing) \in Nat /\ Cardinality(Taken) \in Nat
      /\ Cardinality(Popping) \in Nat
  BY FS_CardinalityType DEF TypeOK, Counted
<1>sets. /\ Pushing' = Busy(Producers, hand', None) /\ Taken' = Busy(Slots, slot', None)
      /\ Popping' = Busy(Consumers, want', NoTicket)
      /\ Pushing = Busy(Producers, hand, None) /\ Taken = Busy(Slots, slot, None)
      /\ Popping = Busy(Consumers, want, NoTicket)
  BY DEF Pushing, Taken, Popping, Busy
<1>1. ASSUME NEW p \in Producers, NEW x \in Items, Reserve(p, x) PROVE Counted'
  <2>1. hand'[p] # None
    <3>1. [ticket |-> head, item |-> x] \in Element
      BY DEF TypeOK, Element
    <3> QED
      BY <1>1, <3>1, NoneAssumption DEF TypeOK, Reserve
  <2>2. hand[p] = None /\ \A q \in Producers : q # p => hand'[q] = hand[q]
    BY <1>1 DEF TypeOK, Reserve
  <2>3. IsFiniteSet(Pushing') /\ Cardinality(Pushing') = Cardinality(Pushing) + 1
    BY <2>1, <2>2, BusyMore, <1>sets DEF Counted
  <2>4. Taken' = Taken /\ Popping' = Popping /\ head' = head + 1 /\ tail' = tail
    BY <1>1 DEF TypeOK, Reserve, Taken, Popping, Busy
  <2> QED
    BY <1>0, <2>3, <2>4 DEF TypeOK, Counted
<1>2. ASSUME NEW p \in Producers, Store(p) PROVE Counted'
  <2> DEFINE k == SlotOf(hand[p].ticket)
  <2>1. k \in Slots /\ slot[k] = None /\ slot'[k] # None /\ hand[p] # None /\ hand'[p] = None
    BY <1>2, SlotOfType DEF TypeOK, Store, Element
  <2>2. /\ \A q \in Producers : q # p => hand'[q] = hand[q]
        /\ \A j \in Slots : j # k => slot'[j] = slot[j]
    BY <1>2 DEF TypeOK, Store
  <2> HIDE DEF k
  <2>3. IsFiniteSet(Pushing') /\ Cardinality(Pushing') = Cardinality(Pushing) - 1
    BY <2>1, <2>2, BusyLess, <1>sets DEF Counted
  <2>4. IsFiniteSet(Taken') /\ Cardinality(Taken') = Cardinality(Taken) + 1
    BY <2>1, <2>2, BusyMore, <1>sets DEF Counted
  <2>5. Popping' = Popping /\ head' = head /\ tail' = tail
    BY <1>2 DEF TypeOK, Store, Popping, Busy
  <2> QED
    BY <1>0, <2>3, <2>4, <2>5 DEF TypeOK, Counted
<1>3. ASSUME NEW c \in Consumers, Claim(c) PROVE Counted'
  <2>1. want[c] = NoTicket /\ want'[c] # NoTicket /\ \A b \in Consumers : b # c => want'[b] = want[b]
    BY <1>3 DEF TypeOK, Claim, NoTicket
  <2>2. IsFiniteSet(Popping') /\ Cardinality(Popping') = Cardinality(Popping) + 1
    BY <2>1, BusyMore, <1>sets DEF Counted
  <2>3. Pushing' = Pushing /\ Taken' = Taken /\ head' = head /\ tail' = tail + 1
    BY <1>3 DEF TypeOK, Claim, Pushing, Taken, Busy
  <2> QED
    BY <1>0, <2>2, <2>3 DEF TypeOK, Counted
<1>4. ASSUME NEW c \in Consumers, Take(c) PROVE Counted'
  <2> DEFINE k == SlotOf(want[c])
  <2>1. k \in Slots /\ slot[k] # None /\ slot'[k] = None
        /\ want[c] # NoTicket /\ want'[c] = NoTicket
    BY <1>4, SlotOfType DEF TypeOK, Take
  <2>2. /\ \A b \in Consumers : b # c => want'[b] = want[b]
        /\ \A j \in Slots : j # k => slot'[j] = slot[j]
    BY <1>4 DEF TypeOK, Take
  <2> HIDE DEF k
  <2>3. IsFiniteSet(Taken') /\ Cardinality(Taken') = Cardinality(Taken) - 1
    BY <2>1, <2>2, BusyLess, <1>sets DEF Counted
  <2>4. IsFiniteSet(Popping') /\ Cardinality(Popping') = Cardinality(Popping) - 1
    BY <2>1, <2>2, BusyLess, <1>sets DEF Counted
  <2>5. Pushing' = Pushing /\ head' = head /\ tail' = tail
    BY <1>4 DEF TypeOK, Take, Pushing, Busy
  <2> QED
    BY <1>0, <2>3, <2>4, <2>5 DEF TypeOK, Counted
<1>5. CASE UNCHANGED vars
  BY <1>5 DEF vars, Counted, Pushing, Taken, Popping, Busy
<1> QED
  BY <1>1, <1>2, <1>3, <1>4, <1>5 DEF Next

(* The three sets are finite and was_size counts them.                     *)
THEOREM CountedHolds == Spec => []Counted
<1>1. Init => Counted
  <2>1. Init => Pushing = {} /\ Taken = {} /\ Popping = {} /\ head = 0 /\ tail = 0
    BY DEF Init, Pushing, Taken, Popping, Busy
  <2> QED
    BY <2>1, FS_EmptySet DEF Counted
<1>2. TypeOK /\ Counted /\ [Next]_vars => Counted'
  BY CountedStep
<1> QED
  BY <1>1, <1>2, TypeCorrect, PTL DEF Spec

(* was_size counts what it is used to count, for every number of threads.  *)
THEOREM SizeCountsHolds == Spec => []SizeCounts
<1>1. Counted => SizeCounts
  BY DEF Counted, SizeCounts, Pushing, Taken, Popping, Stored, Busy
<1> QED
  BY <1>1, CountedHolds, PTL

-----------------------------------------------------------------------------
(* The order of deliveries *)

(* lapped watches the ring and does not disturb it, so what is proved of   *)
(* RingQueue holds here too.                                               *)
LEMMA OrderIsRing == OSpec => Spec
<1>1. OInit => Init
  BY DEF OInit
<1>2. [ONext]_ovars => [Next]_vars
  BY DEF ONext, Next, OReserve, OStore, OClaim, OTake, ovars, vars
<1> QED
  BY <1>1, <1>2, PTL DEF OSpec, Spec

(* As long as nothing has lapped, only the last ticket drawn for a slot is *)
(* in flight, on either side.                                              *)
PushLatest ==
    /\ \A p \in Producers : Held(p) => hand[p].ticket + Size >= head
    /\ \A k \in Slots : Full(k) => slot[k].ticket + Size >= head
PopLatest == \A c \in Consumers : want[c] # NoTicket => want[c] + Size >= tail

(* Every pop ticket that was drawn is waited on by one thread or has been  *)
(* served, not both.                                                       *)
PopsCounted ==
    /\ \A n \in 0 .. tail - 1 : \/ \E c \in Consumers : want[c] = n
                                \/ \E d \in out : d.pop = n
    /\ \A c \in Consumers : \A d \in out : want[c] # d.pop
    /\ \A b, c \in Consumers : (want[b] = want[c] /\ want[b] # NoTicket) => b = c

(* Fifo is not inductive: that the next delivery is in order follows only  *)
(* from which tickets can still be in flight.                              *)
InOrder ==
    /\ lapped \in BOOLEAN
    /\ ~lapped => Fifo /\ PushLatest /\ PopLatest

Ring == TypeOK /\ Discipline /\ NeverTwice /\ Somewhere

(* What was proved of the ring, for use below.                             *)
LEMMA RingHolds == OSpec => []Ring
BY OrderIsRing, TypeCorrect, DisciplineHolds, PlacesHold, PTL DEF Ring

(* Pop tickets are neither lost nor served twice.                          *)
LEMMA PopsCountedStep ==
  ASSUME Ring, PopsCounted, [Next]_vars PROVE PopsCounted'
<1> USE DEF Ring, TypeOK, PopsCounted
<1>1. ASSUME NEW p \in Producers, NEW x \in Items, Reserve(p, x) PROVE PopsCounted'
  BY <1>1 DEF Reserve
<1>2. ASSUME NEW p \in Producers, Store(p) PROVE PopsCounted'
  BY <1>2 DEF Store
<1>3. ASSUME NEW c \in Consumers, Claim(c) PROVE PopsCounted'
  <2>1. /\ want[c] = NoTicket /\ want'[c] = tail /\ tail' = tail + 1 /\ out' = out
        /\ \A b \in Consumers : b # c => want'[b] = want[b]
    BY <1>3 DEF Claim
  <2>2. /\ \A d \in out : d.pop < tail
        /\ \A b \in Consumers : want[b] < tail
    BY DEF Discipline, NoInvention
  <2>3. \A n \in 0 .. tail' - 1 : n = tail \/ n \in 0 .. tail - 1
    BY <2>1
  <2>4. ASSUME NEW n \in 0 .. tail' - 1
        PROVE  (\E b \in Consumers : want'[b] = n) \/ (\E d \in out' : d.pop = n)
    BY <2>1, <2>3, <2>4 DEF NoTicket
  <2>5. \A b \in Consumers : \A d \in out' : want'[b] # d.pop
    BY <2>1, <2>2 DEF Delivery
  <2>6. \A a, b \in Consumers : (want'[a] = want'[b] /\ want'[a] # NoTicket) => a = b
    BY <2>1, <2>2
  <2> QED
    BY <2>4, <2>5, <2>6
<1>4. ASSUME NEW c \in Consumers, Take(c) PROVE PopsCounted'
  <2> DEFINE d == [pop |-> want[c], got |-> slot[SlotOf(want[c])]]
  <2>1. /\ want[c] # NoTicket /\ want'[c] = NoTicket /\ tail' = tail /\ out' = out \cup {d}
        /\ \A b \in Consumers : b # c => want'[b] = want[b]
    BY <1>4 DEF Take
  <2>2. d.pop = want[c] /\ want[c] \in Nat /\ \A e \in out : e.pop \in Nat
    BY <2>1 DEF Delivery
  <2> HIDE DEF d
  <2>3. ASSUME NEW n \in 0 .. tail' - 1
        PROVE  (\E b \in Consumers : want'[b] = n) \/ (\E e \in out' : e.pop = n)
    BY <2>1, <2>2, <2>3
  <2>4. \A b \in Consumers : \A e \in out' : want'[b] # e.pop
    BY <2>1, <2>2 DEF NoTicket
  <2>5. \A a, b \in Consumers : (want'[a] = want'[b] /\ want'[a] # NoTicket) => a = b
    BY <2>1
  <2> QED
    BY <2>3, <2>4, <2>5
<1>5. CASE UNCHANGED vars
  BY <1>5 DEF vars
<1> QED
  BY <1>1, <1>2, <1>3, <1>4, <1>5 DEF Next

(* A delivery out of order would leave an older ticket of the same slot in *)
(* flight on one of the two sides.                                         *)
LEMMA TakeInOrder ==
  ASSUME Ring, PopsCounted, Fifo, ~lapped, PushLatest, PopLatest, NEW c \in Consumers, Take(c)
  PROVE  slot[SlotOf(want[c])].ticket = want[c]
<1> DEFINE k == SlotOf(want[c])
           n == want[c]
           m == slot[k].ticket
<1>1. n \in Nat /\ k \in Slots /\ slot[k] \in Element /\ Full(k) /\ n < tail
  BY SlotOfType DEF Take, Ring, TypeOK, Full, Discipline
<1>2. m \in Nat /\ m < head /\ m % Size = n % Size
  BY <1>1 DEF Ring, Discipline, NoInvention, SameSlot, Element, Full, SlotOf
<1>3. ASSUME n < m PROVE FALSE
  <2>1. \A d \in out : d.got.ticket # n
    BY <1>1 DEF PopsCounted, Fifo
  <2>2. (\E p \in Producers : Held(p) /\ hand[p].ticket = n)
        \/ (\E j \in Slots : Full(j) /\ slot[j].ticket = n)
    <3>1. n \in 0 .. head - 1
      BY <1>1, <1>2, <1>3 DEF Ring, TypeOK
    <3> HIDE DEF n
    <3> QED
      BY <2>1, <3>1 DEF Ring, Somewhere
  <2>3. n + Size >= head
    BY <2>2 DEF PushLatest
  <2>4. n + Size <= m
    BY <1>1, <1>2, <1>3, ModApart, SizeAssumption
  <2> QED
    BY <1>1, <1>2, <2>3, <2>4, SizeAssumption DEF Ring, TypeOK
<1>4. ASSUME m < n PROVE FALSE
  <2>1. \A d \in out : d.pop # m
    BY <1>1 DEF Ring, NeverTwice, Fifo
  <2>2. PICK b \in Consumers : want[b] = m
    BY <1>1, <1>2, <1>4, <2>1 DEF PopsCounted, Ring, TypeOK
  <2>3. m + Size >= tail
    BY <1>2, <2>2 DEF PopLatest, NoTicket
  <2>4. m + Size <= n
    BY <1>1, <1>2, <1>4, ModApart, SizeAssumption
  <2> QED
    BY <1>1, <1>2, <2>3, <2>4, SizeAssumption DEF Ring, TypeOK
<1> QED
  BY <1>1, <1>2, <1>3, <1>4

(* A push that does not lap leaves every ticket in flight within one lap.  *)
LEMMA ReserveLatest ==
  ASSUME Ring, PushLatest, NEW p \in Producers, NEW x \in Items, Reserve(p, x), ~InFlight(head)
  PROVE  PushLatest'
<1> USE DEF Ring, TypeOK
<1>1. /\ hand'[p].ticket = head /\ head' = head + 1 /\ slot' = slot
      /\ \A q \in Producers : q # p => hand'[q] = hand[q]
  BY DEF Reserve
<1>2. \A m \in Nat : m + Size = head => SlotOf(m) = SlotOf(head)
  BY ModNext, SizeAssumption DEF SlotOf
<1>3. ASSUME NEW q \in Producers, Held(q), q # p PROVE hand[q].ticket + Size >= head + 1
  <2>1. hand[q].ticket \in Nat /\ hand[q].ticket + Size >= head
    BY <1>3 DEF PushLatest, Held, Element
  <2>2. hand[q].ticket + Size # head
    BY <1>2, <1>3, <2>1 DEF InFlight, Held
  <2> QED
    BY <2>1, <2>2, SizeAssumption
<1>4. ASSUME NEW k \in Slots, Full(k) PROVE slot[k].ticket + Size >= head + 1
  <2>1. slot[k].ticket \in Nat /\ slot[k].ticket + Size >= head /\ SlotOf(slot[k].ticket) = k
    BY <1>4 DEF PushLatest, Full, Element, Discipline, SameSlot
  <2>2. slot[k].ticket + Size # head
    BY <1>2, <1>4, <2>1 DEF InFlight, Full
  <2> QED
    BY <2>1, <2>2, SizeAssumption
<1> QED
  BY <1>1, <1>3, <1>4, SizeAssumption DEF PushLatest, Held, Full

(* And a pop that does not lap.                                            *)
LEMMA ClaimLatest ==
  ASSUME Ring, PopLatest, NEW c \in Consumers, Claim(c), ~Awaited(tail)
  PROVE  PopLatest'
<1> USE DEF Ring, TypeOK
<1>1. /\ want'[c] = tail /\ tail' = tail + 1
      /\ \A b \in Consumers : b # c => want'[b] = want[b]
  BY DEF Claim
<1>2. ASSUME NEW b \in Consumers, want[b] # NoTicket, b # c PROVE want[b] + Size >= tail + 1
  <2>1. want[b] \in Nat /\ want[b] + Size >= tail
    BY <1>2 DEF PopLatest
  <2>2. want[b] + Size # tail
    BY <1>2, <2>1, ModNext, SizeAssumption DEF Awaited, SlotOf
  <2> QED
    BY <2>1, <2>2, SizeAssumption
<1> QED
  BY <1>1, <1>2, SizeAssumption DEF PopLatest

(* Order is kept by every step, or the step laps.                          *)
LEMMA InOrderStep ==
  ASSUME Ring, PopsCounted, InOrder, [ONext]_ovars PROVE InOrder'
<1> USE DEF InOrder
<1>1. ASSUME NEW p \in Producers, NEW x \in Items, OReserve(p, x) PROVE InOrder'
  <2>1. Reserve(p, x) /\ lapped' = (lapped \/ InFlight(head))
    BY <1>1 DEF OReserve
  <2>2. lapped' \in BOOLEAN
    BY <2>1
  <2>3. ASSUME ~lapped' PROVE Fifo' /\ PushLatest' /\ PopLatest'
    <3>1. ~lapped /\ ~InFlight(head)
      BY <2>1, <2>3
    <3>2. PushLatest'
      BY <2>1, <3>1, ReserveLatest
    <3>3. Fifo' /\ PopLatest'
      BY <2>1, <3>1 DEF Reserve, Fifo, PopLatest
    <3> QED
      BY <3>2, <3>3
  <2> QED
    BY <2>2, <2>3
<1>2. ASSUME NEW p \in Producers, OStore(p) PROVE InOrder'
  <2> DEFINE k == SlotOf(hand[p].ticket)
  <2>1. /\ k \in Slots /\ Held(p) /\ slot'[k] = hand[p] /\ hand'[p] = None
        /\ \A q \in Producers : q # p => hand'[q] = hand[q]
        /\ \A j \in Slots : j # k => slot'[j] = slot[j]
        /\ UNCHANGED <<head, tail, want, out, lapped>>
    BY <1>2, SlotOfType DEF OStore, Store, Ring, TypeOK, Element, Held
  <2> HIDE DEF k
  <2>2. PushLatest => PushLatest'
    BY <2>1 DEF PushLatest, Held, Full
  <2>3. (Fifo => Fifo') /\ (PopLatest => PopLatest')
    BY <2>1 DEF Fifo, PopLatest
  <2> QED
    BY <2>1, <2>2, <2>3
<1>3. ASSUME NEW c \in Consumers, OClaim(c) PROVE InOrder'
  <2>1. Claim(c) /\ lapped' = (lapped \/ Awaited(tail))
    BY <1>3 DEF OClaim
  <2>2. lapped' \in BOOLEAN
    BY <2>1
  <2>3. ASSUME ~lapped' PROVE Fifo' /\ PushLatest' /\ PopLatest'
    <3>1. ~lapped /\ ~Awaited(tail)
      BY <2>1, <2>3
    <3>2. PopLatest'
      BY <2>1, <3>1, ClaimLatest
    <3>3. Fifo' /\ PushLatest'
      BY <2>1, <3>1 DEF Claim, Fifo, PushLatest, Held, Full
    <3> QED
      BY <3>2, <3>3
  <2> QED
    BY <2>2, <2>3
<1>4. ASSUME NEW c \in Consumers, OTake(c) PROVE InOrder'
  <2> DEFINE k == SlotOf(want[c])
             d == [pop |-> want[c], got |-> slot[k]]
  <2>1. /\ Take(c) /\ want'[c] = NoTicket /\ out' = out \cup {d}
        /\ \A b \in Consumers : b # c => want'[b] = want[b]
        /\ k \in Slots /\ slot'[k] = None
        /\ \A j \in Slots : j # k => slot'[j] = slot[j]
        /\ UNCHANGED <<head, tail, hand, lapped>>
    BY <1>4, SlotOfType DEF OTake, Take, Ring, TypeOK
  <2>2. ASSUME ~lapped PROVE d.got.ticket = d.pop
    BY <2>1, <2>2, TakeInOrder
  <2> HIDE DEF d, k
  <2>3. ~lapped => Fifo'
    BY <2>1, <2>2 DEF Fifo
  <2>4. (PushLatest => PushLatest') /\ (PopLatest => PopLatest')
    BY <2>1 DEF PushLatest, PopLatest, Held, Full
  <2> QED
    BY <2>1, <2>3, <2>4
<1>5. CASE UNCHANGED ovars
  BY <1>5 DEF ovars, Fifo, PushLatest, PopLatest, Held, Full
<1> QED
  BY <1>1, <1>2, <1>3, <1>4, <1>5 DEF ONext

(* Pops are counted and in order, always.                                  *)
LEMMA InOrderHolds == OSpec => [](PopsCounted /\ InOrder)
<1>1. OInit => PopsCounted /\ InOrder
  <2> SUFFICES ASSUME OInit PROVE PopsCounted /\ InOrder
    OBVIOUS
  <2>1. PopsCounted
    BY DEF OInit, Init, PopsCounted, NoTicket
  <2>2. InOrder
    BY DEF OInit, Init, InOrder, Fifo, PushLatest, PopLatest, Held, Full
  <2> QED
    BY <2>1, <2>2
<1>2. Ring /\ PopsCounted /\ [ONext]_ovars => PopsCounted'
  <2>1. [ONext]_ovars => [Next]_vars
    BY DEF ONext, Next, OReserve, OStore, OClaim, OTake, ovars, vars
  <2> QED
    BY <2>1, PopsCountedStep
<1>3. Ring /\ PopsCounted /\ InOrder /\ [ONext]_ovars => InOrder'
  BY InOrderStep
<1> QED
  BY <1>1, <1>2, <1>3, RingHolds, PTL DEF OSpec

(* Until a ticket has lapped, pop n gets the element of push n.            *)
THEOREM FifoHolds == OSpec => []Fifo
<1>1. InOrder => Fifo
  BY DEF InOrder, Fifo
<1> QED
  BY <1>1, InOrderHolds, PTL

-----------------------------------------------------------------------------
(* The program has one popping thread, the writer.                         *)
OnePopper == \A b, c \in Consumers : b = c

(* It waits for the last pop ticket that was drawn, or for none.           *)
WaitsForLast == \A c \in Consumers : want[c] # NoTicket => want[c] = tail - 1

(* A thread draws no ticket while it waits for one.                        *)
LEMMA WaitsForLastStep ==
  ASSUME OnePopper, TypeOK, WaitsForLast, [Next]_vars PROVE WaitsForLast'
<1> USE DEF TypeOK, WaitsForLast
<1>1. ASSUME NEW p \in Producers, NEW x \in Items, Reserve(p, x) PROVE WaitsForLast'
  BY <1>1 DEF Reserve
<1>2. ASSUME NEW p \in Producers, Store(p) PROVE WaitsForLast'
  BY <1>2 DEF Store
<1>3. ASSUME NEW c \in Consumers, Claim(c) PROVE WaitsForLast'
  BY <1>3 DEF Claim, OnePopper
<1>4. ASSUME NEW c \in Consumers, Take(c) PROVE WaitsForLast'
  BY <1>4 DEF Take, OnePopper
<1>5. CASE UNCHANGED vars
  BY <1>5 DEF vars
<1> QED
  BY <1>1, <1>2, <1>3, <1>4, <1>5 DEF Next

(* Only an element as old as the ring is long can be lapped, and the       *)
(* writer has not got past its ticket, for it would have the element.      *)
LEMMA LapStep ==
  ASSUME OnePopper, Ring, PopsCounted, InOrder, WaitsForLast, ONext, lapped' # lapped
  PROVE  head - tail >= Size - 1
<1> USE DEF Ring, TypeOK, InOrder
<1>1. ~lapped
  <2>1. CASE \E p \in Producers, x \in Items : OReserve(p, x)
    BY <2>1 DEF OReserve
  <2>2. CASE \E p \in Producers : OStore(p)
    BY <2>2 DEF OStore
  <2>3. CASE \E c \in Consumers : OClaim(c)
    BY <2>3 DEF OClaim
  <2>4. CASE \E c \in Consumers : OTake(c)
    BY <2>4 DEF OTake
  <2> QED
    BY <2>1, <2>2, <2>3, <2>4 DEF ONext
<1>2. ASSUME NEW c \in Consumers, OClaim(c) PROVE FALSE
  BY <1>1, <1>2 DEF OClaim, Claim, Awaited, OnePopper
<1>3. ASSUME NEW p \in Producers, NEW x \in Items, OReserve(p, x) PROVE head - tail >= Size - 1
  <2>1. InFlight(head)
    BY <1>1, <1>3 DEF OReserve
  <2>2. SlotOf(head) \in Slots
    BY SlotOfType
  <2>3. PICK m \in Nat : /\ SlotOf(m) = SlotOf(head) /\ m < head /\ m + Size >= head
                         /\ \A d \in out : d.got.ticket # m
    <3>1. CASE \E q \in Producers : hand[q] # None /\ SlotOf(hand[q].ticket) = SlotOf(head)
      <4>1. PICK q \in Producers : hand[q] # None /\ SlotOf(hand[q].ticket) = SlotOf(head)
        BY <3>1
      <4>2. hand[q].ticket \in Nat /\ hand[q].ticket < head /\ hand[q].ticket + Size >= head
        BY <1>1, <4>1 DEF Element, Discipline, NoInvention, PushLatest, Held
      <4>3. \A d \in out : d.got.ticket # hand[q].ticket
        BY <4>1 DEF NeverTwice, Held
      <4> QED
        BY <4>1, <4>2, <4>3
    <3>2. CASE slot[SlotOf(head)] # None
      <4> DEFINE k == SlotOf(head)
      <4>1. /\ slot[k].ticket \in Nat /\ slot[k].ticket < head /\ slot[k].ticket + Size >= head
            /\ SlotOf(slot[k].ticket) = k
        BY <1>1, <2>2, <3>2 DEF Element, Discipline, NoInvention, SameSlot, PushLatest, Full
      <4>2. \A d \in out : d.got.ticket # slot[k].ticket
        BY <2>2, <3>2 DEF NeverTwice, Full
      <4> QED
        BY <4>1, <4>2
    <3> QED
      BY <2>1, <3>1, <3>2 DEF InFlight
  <2>4. m + Size = head
    <3>1. m % Size = head % Size /\ m < head /\ head \in Nat
      BY <2>3 DEF SlotOf
    <3>2. m + Size <= head
      BY <3>1, ModApart, SizeAssumption
    <3> QED
      BY <2>3, <3>2, SizeAssumption
  <2>5. tail <= m + 1
    <3> SUFFICES ASSUME m + 1 < tail PROVE FALSE
      BY <2>3
    <3>1. \A d \in out : d.pop # m
      BY <1>1, <2>3 DEF Fifo
    <3>2. PICK c \in Consumers : want[c] = m
      BY <2>3, <3>1 DEF PopsCounted
    <3> QED
      BY <2>3, <3>2 DEF WaitsForLast, NoTicket
  <2> QED
    BY <2>3, <2>4, <2>5, SizeAssumption
<1>4. ASSUME NEW p \in Producers, OStore(p) PROVE FALSE
  BY <1>4 DEF OStore
<1>5. ASSUME NEW c \in Consumers, OTake(c) PROVE FALSE
  BY <1>5 DEF OTake
<1> QED
  BY <1>2, <1>3, <1>4, <1>5 DEF ONext

(* With one popping thread a push laps only when the ring is one element   *)
(* short of full by was_size.                                              *)
THEOREM LapsOnlyNearFullHolds == ASSUME OnePopper PROVE OSpec => LapsOnlyNearFull
<1>1. TypeOK /\ WaitsForLast /\ [Next]_vars => WaitsForLast'
  BY WaitsForLastStep
<1>2. Spec => []WaitsForLast
  <2>1. Init => WaitsForLast
    BY DEF Init, WaitsForLast
  <2> QED
    BY <1>1, <2>1, TypeCorrect, PTL DEF Spec
<1>3. Ring /\ PopsCounted /\ InOrder /\ WaitsForLast /\ [ONext]_ovars
        => [lapped' # lapped => head - tail >= Size - 1]_ovars
  BY LapStep DEF ovars
<1> QED
  BY <1>2, <1>3, OrderIsRing, RingHolds, InOrderHolds, PTL DEF OSpec, LapsOnlyNearFull
=============================================================================
