----------------------------- MODULE AtomicQueue -----------------------------
(***************************************************************************)
(* atomic_queue::AtomicQueue2 (include/atomic_queue/atomic_queue.h) as the *)
(* program instantiates it: many producers and consumers, no spsc_, slots  *)
(* guarded by a state byte.  One action per access to a shared location.   *)
(*                                                                         *)
(* head_ and tail_ are 32-bit counters that wrap.  The variables head and  *)
(* tail count without bound and the code sees U(head), U(tail), their      *)
(* value modulo Wrap; every comparison of the code is made on those.       *)
(* The accesses are interleaved one at a time: the compare_exchange that   *)
(* takes a slot has acquire order and the store that gives it back has     *)
(* release order, so the element is never accessed outside them.           *)
(***************************************************************************)
EXTENDS Integers, FiniteSets

CONSTANTS
    Producers,  \* threads that push
    Consumers,  \* threads that pop
    Items,      \* what is pushed
    None,       \* no element, or one that has been moved from
    Size,       \* size_, a power of two
    Wrap,       \* 2^w for the w-bit unsigned head_ and tail_
    Remap,      \* remap_index<SHUFFLE_BITS> on 0 .. Size - 1
    Ops,        \* which of push, try_push, pop, try_pop the threads call
    MaxPush,    \* bound: push tickets drawn
    MaxPop      \* bound: pop tickets drawn

Slots == 0 .. Size - 1
Threads == Producers \cup Consumers
Element == [ticket : Nat, item : Items]
NoTicket == -1

ASSUME SizeAssumption == Size \in Nat \ {0}
ASSUME BoundAssumption == MaxPush \in Nat /\ MaxPop \in Nat
ASSUME NoneAssumption == None \notin Items /\ None \notin Element
ASSUME ThreadAssumption == Producers \cap Consumers = {}
ASSUME FiniteThreads == IsFiniteSet(Producers) /\ IsFiniteSet(Consumers)
(* size_ is a power of two no larger than half the range of the counters.  *)
ASSUME WrapAssumption == Wrap \in Nat /\ \E m \in 1 .. Wrap : Wrap = Size * (2 * m)
(* remap_index is a permutation of the slots (see IndexRemap).             *)
ASSUME RemapAssumption ==
    /\ Remap \in [Slots -> Slots]
    /\ \A i, j \in Slots : Remap[i] = Remap[j] => i = j

VARIABLES
    head, tail,  \* head_, tail_
    states,      \* states_: EMPTY, STORING, STORED, LOADING
    elements,    \* elements_, with the ticket of the push as history
    pc,          \* where each thread is in its call
    loc,         \* its local `head' or `tail'
    arg,         \* the item it pushes, or the element it has popped
    ticket,      \* history: the unbounded ticket it holds
    out          \* history: every pop that has won its slot

vars == <<head, tail, states, elements, pc, loc, arg, ticket, out>>
shared == <<head, tail, states, elements>>

U(n) == n % Wrap
(* static_cast<int> of an unsigned difference. *)
Signed(n) == IF U(n) >= Wrap \div 2 THEN U(n) - Wrap ELSE U(n)
(* max(int(head_ - tail_), 0) *)
was_size == IF Signed(U(head) - U(tail)) > 0 THEN Signed(U(head) - U(tail)) ELSE 0
(* The place of a ticket in states_ and elements_. *)
Index(n) == Remap[n % Size]

SlotStates == {"EMPTY", "STORING", "STORED", "LOADING"}
PPcs == {"idle", "check", "cas", "acquire", "write", "publish"}
CPcs == {"idle", "check", "cas", "acquire", "read", "release"}

TypeOK ==
    /\ head \in Nat
    /\ tail \in Nat
    /\ states \in [Slots -> SlotStates]
    /\ elements \in [Slots -> Element \cup {None}]
    /\ pc \in [Threads -> PPcs \cup CPcs]
    /\ \A p \in Producers : pc[p] \in PPcs
    /\ \A c \in Consumers : pc[c] \in CPcs
    /\ loc \in [Threads -> 0 .. Wrap - 1]
    /\ arg \in [Threads -> Items \cup Element \cup {None}]
    /\ \A p \in Producers : arg[p] \in Items \cup {None}
    /\ \A c \in Consumers : arg[c] \in Element \cup {None}
    /\ ticket \in [Threads -> Nat \cup {NoTicket}]
    /\ out \in SUBSET [pop : Nat, got : Element]

Init ==
    /\ head = 0
    /\ tail = 0
    /\ states = [k \in Slots |-> "EMPTY"]
    /\ elements = [k \in Slots |-> None]
    /\ pc = [t \in Threads |-> "idle"]
    /\ loc = [t \in Threads |-> 0]
    /\ arg = [t \in Threads |-> None]
    /\ ticket = [t \in Threads |-> NoTicket]
    /\ out = {}

-----------------------------------------------------------------------------
(* Pushing *)

Goto(t, l) == pc' = [pc EXCEPT ![t] = l]

(* t returns from its call. *)
Return(t) ==
    /\ Goto(t, "idle")
    /\ loc' = [loc EXCEPT ![t] = 0]
    /\ arg' = [arg EXCEPT ![t] = None]
    /\ ticket' = [ticket EXCEPT ![t] = NoTicket]

(* p has made the counter move from its own value of it: the ticket is p's. *)
DrawPush(p) ==
    /\ head < MaxPush
    /\ head' = head + 1
    /\ loc' = [loc EXCEPT ![p] = U(head)]
    /\ ticket' = [ticket EXCEPT ![p] = head]
    /\ Goto(p, "acquire")
    /\ UNCHANGED <<tail, states, elements, out>>

(* push: head_.fetch_add(1) *)
Push(p, x) ==
    /\ "push" \in Ops
    /\ pc[p] = "idle"
    /\ arg' = [arg EXCEPT ![p] = x]
    /\ DrawPush(p)

(* try_push: head = head_.load() *)
TryPush(p, x) ==
    /\ "try_push" \in Ops
    /\ pc[p] = "idle"
    /\ head < MaxPush
    /\ arg' = [arg EXCEPT ![p] = x]
    /\ loc' = [loc EXCEPT ![p] = U(head)]
    /\ Goto(p, "check")
    /\ UNCHANGED <<shared, ticket, out>>

(* Slip: off by one. *)
TryPushCheckOff(p) ==
    /\ pc[p] = "check"
    /\ IF Signed(loc[p] - U(tail)) > Size
       THEN Return(p)
       ELSE Goto(p, "cas") /\ UNCHANGED <<loc, arg, ticket>>
    /\ UNCHANGED <<shared, out>>

(* try_push: return false if the ring is full by p's head and the present tail_ *)
TryPushCheck(p) ==
    /\ pc[p] = "check"
    /\ IF Signed(loc[p] - U(tail)) >= Size
       THEN Return(p)
       ELSE Goto(p, "cas") /\ UNCHANGED <<loc, arg, ticket>>
    /\ UNCHANGED <<shared, out>>

(* try_push: head_.compare_exchange_strong(head, head + 1) succeeds ... *)
TryPushWin(p) ==
    /\ pc[p] = "cas"
    /\ U(head) = loc[p]
    /\ DrawPush(p)
    /\ UNCHANGED arg

(* ... or fails and reloads head. *)
TryPushLose(p) ==
    /\ pc[p] = "cas"
    /\ U(head) # loc[p]
    /\ loc' = [loc EXCEPT ![p] = U(head)]
    /\ Goto(p, "check")
    /\ UNCHANGED <<shared, arg, ticket, out>>

(* Slip: does not wait for the slot. *)
AcquireAny(p) ==
    /\ pc[p] = "acquire"
    /\ states' = [states EXCEPT ![Index(loc[p])] = "STORING"]
    /\ Goto(p, "write")
    /\ UNCHANGED <<head, tail, elements, loc, arg, ticket, out>>

(* Slip: the slot is published before it is written. *)
AcquirePublish(p) ==
    /\ pc[p] = "acquire"
    /\ states[Index(loc[p])] = "EMPTY"
    /\ states' = [states EXCEPT ![Index(loc[p])] = "STORED"]
    /\ Goto(p, "write")
    /\ UNCHANGED <<head, tail, elements, loc, arg, ticket, out>>

(* do_push_any: the compare_exchange EMPTY -> STORING, after any number of failures *)
AcquireEmpty(p) ==
    /\ pc[p] = "acquire"
    /\ states[Index(loc[p])] = "EMPTY"
    /\ states' = [states EXCEPT ![Index(loc[p])] = "STORING"]
    /\ Goto(p, "write")
    /\ UNCHANGED <<head, tail, elements, loc, arg, ticket, out>>

(* do_push_any: q_element = forward(element) *)
Write(p) ==
    /\ pc[p] = "write"
    /\ elements' = [elements EXCEPT ![Index(loc[p])] = [ticket |-> ticket[p], item |-> arg[p]]]
    /\ Goto(p, "publish")
    /\ UNCHANGED <<head, tail, states, loc, arg, ticket, out>>

(* do_push_any: state.store(STORED), and push or try_push returns *)
Publish(p) ==
    /\ pc[p] = "publish"
    /\ states' = [states EXCEPT ![Index(loc[p])] = "STORED"]
    /\ Return(p)
    /\ UNCHANGED <<head, tail, elements, out>>

-----------------------------------------------------------------------------
(* Popping *)

DrawPop(c) ==
    /\ tail < MaxPop
    /\ tail' = tail + 1
    /\ loc' = [loc EXCEPT ![c] = U(tail)]
    /\ ticket' = [ticket EXCEPT ![c] = tail]
    /\ Goto(c, "acquire")
    /\ UNCHANGED <<head, states, elements, arg, out>>

(* pop: tail_.fetch_add(1) *)
Pop(c) ==
    /\ "pop" \in Ops
    /\ pc[c] = "idle"
    /\ DrawPop(c)

(* try_pop: tail = tail_.load() *)
TryPop(c) ==
    /\ "try_pop" \in Ops
    /\ pc[c] = "idle"
    /\ tail < MaxPop
    /\ loc' = [loc EXCEPT ![c] = U(tail)]
    /\ Goto(c, "check")
    /\ UNCHANGED <<shared, arg, ticket, out>>

(* try_pop: return false if the ring is empty by the present head_ and c's tail *)
TryPopCheck(c) ==
    /\ pc[c] = "check"
    /\ IF Signed(U(head) - loc[c]) <= 0
       THEN Return(c)
       ELSE Goto(c, "cas") /\ UNCHANGED <<loc, arg, ticket>>
    /\ UNCHANGED <<shared, out>>

(* Slip: a store where other threads pop too. *)
TryPopStore(c) ==
    /\ pc[c] = "cas"
    /\ tail' = loc[c] + 1
    /\ ticket' = [ticket EXCEPT ![c] = loc[c]]
    /\ Goto(c, "acquire")
    /\ UNCHANGED <<head, states, elements, loc, arg, out>>

(* try_pop: tail_.compare_exchange_strong(tail, tail + 1) succeeds ... *)
TryPopWin(c) ==
    /\ pc[c] = "cas"
    /\ U(tail) = loc[c]
    /\ DrawPop(c)

(* ... or fails and reloads tail. *)
TryPopLose(c) ==
    /\ pc[c] = "cas"
    /\ U(tail) # loc[c]
    /\ loc' = [loc EXCEPT ![c] = U(tail)]
    /\ Goto(c, "check")
    /\ UNCHANGED <<shared, arg, ticket, out>>

(* Slip: does not wait for the slot. *)
AcquireUnstored(c) ==
    /\ pc[c] = "acquire"
    /\ states' = [states EXCEPT ![Index(loc[c])] = "LOADING"]
    /\ out' = out \cup {[pop |-> ticket[c], got |-> elements[Index(loc[c])]]}
    /\ Goto(c, "read")
    /\ UNCHANGED <<head, tail, elements, loc, arg, ticket>>

(* do_pop_any: the compare_exchange STORED -> LOADING, after any number of failures *)
AcquireStored(c) ==
    /\ pc[c] = "acquire"
    /\ states[Index(loc[c])] = "STORED"
    /\ states' = [states EXCEPT ![Index(loc[c])] = "LOADING"]
    /\ out' = out \cup {[pop |-> ticket[c], got |-> elements[Index(loc[c])]]}
    /\ Goto(c, "read")
    /\ UNCHANGED <<head, tail, elements, loc, arg, ticket>>

(* do_pop_any: T element{move(q_element)} *)
Read(c) ==
    /\ pc[c] = "read"
    /\ arg' = [arg EXCEPT ![c] = elements[Index(loc[c])]]
    /\ elements' = [elements EXCEPT ![Index(loc[c])] = None]
    /\ Goto(c, "release")
    /\ UNCHANGED <<head, tail, states, loc, ticket, out>>

(* Slip: the slot is not given back. *)
ReleaseNot(c) ==
    /\ pc[c] = "release"
    /\ Return(c)
    /\ UNCHANGED <<head, tail, states, elements, out>>

(* do_pop_any: state.store(EMPTY), and pop or try_pop returns the element *)
Release(c) ==
    /\ pc[c] = "release"
    /\ states' = [states EXCEPT ![Index(loc[c])] = "EMPTY"]
    /\ Return(c)
    /\ UNCHANGED <<head, tail, elements, out>>

-----------------------------------------------------------------------------
(* A step of a call that has begun. *)
ProducerStep(p) ==
    \/ TryPushCheck(p) \/ TryPushWin(p) \/ TryPushLose(p)
    \/ AcquireEmpty(p) \/ Write(p) \/ Publish(p)

ConsumerStep(c) ==
    \/ TryPopCheck(c) \/ TryPopWin(c) \/ TryPopLose(c)
    \/ AcquireStored(c) \/ Read(c) \/ Release(c)

Next ==
    \/ \E p \in Producers : (\E x \in Items : Push(p, x) \/ TryPush(p, x)) \/ ProducerStep(p)
    \/ \E c \in Consumers : Pop(c) \/ TryPop(c) \/ ConsumerStep(c)

Spec == Init /\ [][Next]_vars

(* A thread inside a call is scheduled; nobody is obliged to call.         *)
FairSpec ==
    /\ Spec
    /\ \A p \in Producers : WF_vars(ProducerStep(p))
    /\ \A c \in Consumers : WF_vars(ConsumerStep(c))

-----------------------------------------------------------------------------
(* The threads that own the slot with index i: they have won it and have   *)
(* not given it back.                                                      *)
Storing(i) == {p \in Producers : pc[p] \in {"write", "publish"} /\ Index(loc[p]) = i}
Loading(i) == {c \in Consumers : pc[c] \in {"read", "release"} /\ Index(loc[c]) = i}

(* A slot has one owner at a time and its state byte says what the owner   *)
(* does: an element is never written by two threads, nor written while it  *)
(* is moved from (elements_ itself is not atomic).                         *)
SlotOwned ==
    \A i \in Slots :
        /\ \A t, u \in Storing(i) \cup Loading(i) : t = u
        /\ (Storing(i) # {}) <=> (states[i] = "STORING")
        /\ (Loading(i) # {}) <=> (states[i] = "LOADING")

(* What a slot says is STORED, and what a popping thread has moved out, is *)
(* a whole element: never a moved-from or unwritten one, and for the       *)
(* popping thread exactly the element whose slot it won.                   *)
WholeElements ==
    /\ \A i \in Slots : states[i] = "STORED" => elements[i] # None
    /\ \A c \in Consumers :
        pc[c] = "release" => [pop |-> ticket[c], got |-> arg[c]] \in out

(* The 32-bit difference that was_size, was_empty, was_full, try_push and  *)
(* try_pop read as an int is the true one, across the wrap of the counters *)
(* and however many threads are over-full: it is bounded by the ring and   *)
(* the threads.  WrapRoom is what this needs of the counters' width.       *)
WrapRoom ==
    2 * (Size + Cardinality(Producers)) < Wrap /\ 2 * Cardinality(Consumers) <= Wrap
SizeReadRight ==
    WrapRoom => /\ Signed(U(head) - U(tail)) = head - tail
                /\ head - tail <= Size + Cardinality(Producers)
                /\ tail - head <= Cardinality(Consumers)

(* try_push never draws a ticket on a full ring and try_pop never on an    *)
(* empty one, although each tests one counter and then moves the other.    *)
TryRespectsBounds ==
    [][/\ \A p \in Producers : TryPushWin(p) => head - tail < Size
       /\ \A c \in Consumers : TryPopWin(c) => head > tail]_vars

(* When as many pushes as pops have drawn tickets, all of them finish: no  *)
(* two threads spin on one slot for each other.                            *)
Served == \A t \in Threads : ticket[t] = NoTicket
BalancedFinish == (head = tail) ~> (Served \/ head # tail)

(* AtomicQueue2 keeps the promise of RingQueue.                            *)
SlotView == [k \in Slots |-> IF states[Remap[k]] = "STORED" THEN elements[Remap[k]] ELSE None]
HandView == [p \in Producers |-> IF pc[p] \in {"acquire", "write", "publish"}
                                 THEN [ticket |-> ticket[p], item |-> arg[p]]
                                 ELSE None]
WantView == [c \in Consumers |-> IF pc[c] = "acquire" THEN ticket[c] ELSE NoTicket]
Ring == INSTANCE RingQueue WITH slot <- SlotView, hand <- HandView, want <- WantView
ImplementsRing == Ring!Spec
=============================================================================
