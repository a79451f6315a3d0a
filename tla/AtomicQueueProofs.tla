-------------------------- MODULE AtomicQueueProofs --------------------------
(***************************************************************************)
(* Proofs about AtomicQueue: its types, that a slot has one owner, and     *)
(* that it implements RingQueue.  For every set of threads, every ring     *)
(* size that divides half the range of the counters, and every remapping   *)
(* of the slots that is a permutation.                                     *)
(***************************************************************************)
EXTENDS AtomicQueue, ModArithmetic, FiniteSetTheorems, TLAPS

-----------------------------------------------------------------------------
(* Places of tickets *)

(* The counters have a positive range.                                     *)
LEMMA WrapType == Wrap \in Nat \ {0}
  BY SizeAssumption, WrapAssumption, PosProd

(* The code's view of a counter is in the range of an unsigned.            *)
LEMMA UType == ASSUME NEW n \in Nat PROVE U(n) \in 0 .. Wrap - 1
  BY WrapType DEF U

(* The ring's size divides the range of the counters, so a ticket and the  *)
(* wrapped ticket the code computes with stand for the same slot.          *)
LEMMA WrapIndex == ASSUME NEW n \in Nat PROVE Index(U(n)) = Index(n)
<1>1. PICK k \in Nat \ {0} : Wrap = Size * k
  <2>1. PICK m \in 1 .. Wrap : Wrap = Size * (2 * m)
    BY WrapAssumption
  <2> QED
    BY <2>1, WrapAssumption
<1>2. U(n) % Size = n % Size
  BY <1>1, ModMod, SizeAssumption DEF U
<1> QED
  BY <1>2 DEF Index

(* Every ticket, wrapped or not, has a place in the ring.                  *)
LEMMA IndexType == ASSUME NEW n \in Nat PROVE Index(n) \in Slots
<1>1. n % Size \in Slots
  BY SizeAssumption DEF Slots
<1> QED
  BY <1>1, RemapAssumption DEF Index

-----------------------------------------------------------------------------
(* The inductive invariant *)

Carrying == {"acquire", "write", "publish", "read", "release"}
Owning == {"write", "publish", "read", "release"}

(* A thread that has drawn a ticket computes with its wrapped value.       *)
Tickets ==
    \A t \in Threads : pc[t] \in Carrying => ticket[t] \in Nat /\ loc[t] = U(ticket[t])

(* A pushing thread keeps its item until it returns.                       *)
Args == \A p \in Producers : pc[p] # "idle" => arg[p] \in Items

(* The state byte of a slot and the thread that won it agree.              *)
Ownership ==
    /\ \A t, u \in Threads :
        (pc[t] \in Owning /\ pc[u] \in Owning /\ Index(loc[t]) = Index(loc[u])) => t = u
    /\ \A t \in Threads : pc[t] \in {"write", "publish"} => states[Index(loc[t])] = "STORING"
    /\ \A t \in Threads : pc[t] \in {"read", "release"} => states[Index(loc[t])] = "LOADING"
    /\ \A i \in Slots : states[i] = "STORING" =>
        \E p \in Producers : pc[p] \in {"write", "publish"} /\ Index(loc[p]) = i
    /\ \A i \in Slots : states[i] = "LOADING" =>
        \E c \in Consumers : pc[c] \in {"read", "release"} /\ Index(loc[c]) = i

(* What is in a slot that is about to be, is, or has just been STORED.     *)
Contents ==
    /\ \A i \in Slots : states[i] = "STORED" => elements[i] \in Element
    /\ \A p \in Producers : pc[p] = "publish" =>
        elements[Index(loc[p])] = [ticket |-> ticket[p], item |-> arg[p]]
    /\ \A c \in Consumers : pc[c] = "read" =>
        [pop |-> ticket[c], got |-> elements[Index(loc[c])]] \in out
    /\ \A c \in Consumers : pc[c] = "release" => [pop |-> ticket[c], got |-> arg[c]] \in out

Inv == TypeOK /\ Tickets /\ Args /\ Ownership /\ Contents

(* The invariant holds at first.                                           *)
LEMMA InvInit == Init => Inv
  BY ThreadAssumption, WrapType
  DEF Init, Inv, TypeOK, Tickets, Args, Ownership, Contents, Threads, PPcs, CPcs, SlotStates,
      Carrying, Owning, NoTicket

(* A thread's local variable indexes a slot.                               *)
LEMMA LocIndex == ASSUME TypeOK, NEW t \in Threads PROVE Index(loc[t]) \in Slots
  BY IndexType, WrapType DEF TypeOK

(* Steps that touch nothing but the thread's own variables, and leave it   *)
(* with no ticket.                                                         *)
Private(t) ==
    /\ UNCHANGED <<shared, out>>
    /\ pc' = [pc EXCEPT ![t] = pc'[t]]
    /\ loc' = [loc EXCEPT ![t] = loc'[t]]
    /\ arg' = [arg EXCEPT ![t] = arg'[t]]
    /\ ticket' = [ticket EXCEPT ![t] = ticket'[t]]
    /\ pc[t] \notin Owning /\ pc'[t] \in {"idle", "check", "cas"}
    /\ loc'[t] \in 0 .. Wrap - 1
    /\ ticket'[t] \in Nat \cup {NoTicket}
    /\ t \in Producers => arg'[t] \in Items \cup {None}
    /\ t \in Producers => (pc'[t] # "idle" => arg'[t] \in Items)
    /\ t \in Consumers => arg'[t] \in Element \cup {None}

(* Private steps keep the invariant.                                       *)
LEMMA PrivateStep == ASSUME Inv, NEW t \in Threads, Private(t) PROVE Inv'
<1> USE ThreadAssumption DEF Inv, TypeOK, Threads, Private, shared
<1>1. \A u \in Threads : u # t => pc'[u] = pc[u] /\ loc'[u] = loc[u] /\ arg'[u] = arg[u]
                                  /\ ticket'[u] = ticket[u]
  OBVIOUS
<1>2. TypeOK'
  BY DEF PPcs, CPcs
<1>3. Tickets'
  BY <1>1 DEF Tickets, Carrying
<1>4. Args'
  BY <1>1 DEF Args
<1>5. Ownership'
  BY <1>1 DEF Ownership, Owning
<1>6. Contents'
  BY <1>1 DEF Contents, Owning
<1> QED
  BY <1>2, <1>3, <1>4, <1>5, <1>6

(* Drawing a ticket: one counter moves, the thread gets the old value.     *)
Drawn(t, n) ==
    /\ head' \in Nat /\ tail' \in Nat
    /\ UNCHANGED <<states, elements, out>>
    /\ pc[t] \in {"idle", "cas"}
    /\ pc' = [pc EXCEPT ![t] = "acquire"]
    /\ loc' = [loc EXCEPT ![t] = U(n)]
    /\ ticket' = [ticket EXCEPT ![t] = n]
    /\ arg' = [arg EXCEPT ![t] = arg'[t]]
    /\ t \in Producers => arg'[t] \in Items
    /\ t \in Consumers => arg'[t] = arg[t]

(* Drawing a ticket keeps the invariant.                                   *)
LEMMA DrawnStep == ASSUME Inv, NEW t \in Threads, NEW n \in Nat, Drawn(t, n) PROVE Inv'
<1> USE ThreadAssumption DEF Inv, TypeOK, Threads, Drawn
<1>1. \A u \in Threads : u # t => pc'[u] = pc[u] /\ loc'[u] = loc[u] /\ arg'[u] = arg[u]
                                  /\ ticket'[u] = ticket[u]
  OBVIOUS
<1>2. pc'[t] = "acquire" /\ loc'[t] = U(n) /\ ticket'[t] = n /\ U(n) \in 0 .. Wrap - 1
  BY UType
<1>3. TypeOK'
  BY <1>2 DEF PPcs, CPcs
<1>4. Tickets'
  BY <1>1, <1>2 DEF Tickets, Carrying
<1>5. Args'
  BY <1>1 DEF Args
<1>6. Ownership'
  BY <1>1, <1>2 DEF Ownership, Owning
<1>7. Contents'
  BY <1>1, <1>2 DEF Contents, Owning
<1> QED
  BY <1>3, <1>4, <1>5, <1>6, <1>7

(* A push begins.                                                          *)
LEMMA PushCallStep ==
  ASSUME Inv, NEW p \in Producers, NEW x \in Items,
         Push(p, x) \/ TryPush(p, x)
  PROVE  Inv'
<1> USE ThreadAssumption DEF Inv, TypeOK, Threads
<1>0. p \in Threads /\ U(head) \in 0 .. Wrap - 1
  BY UType
<1>1. CASE Push(p, x)
  <2>1. Drawn(p, head)
    BY <1>1 DEF Push, DrawPush, Goto, Drawn
  <2> QED
    BY <2>1, <1>0, DrawnStep
<1>2. CASE TryPush(p, x)
  <2>1. Private(p)
    BY <1>0, <1>2 DEF TryPush, Goto, Private, Owning
  <2> QED
    BY <2>1, <1>0, PrivateStep
<1> QED
  BY <1>1, <1>2

(* try_push before it has a ticket.                                        *)
LEMMA PushTryStep ==
  ASSUME Inv, NEW p \in Producers,
         TryPushCheck(p) \/ TryPushWin(p) \/ TryPushLose(p)
  PROVE  Inv'
<1> USE ThreadAssumption DEF Inv, TypeOK, Threads
<1>0. p \in Threads /\ U(head) \in 0 .. Wrap - 1
  BY UType
<1>1. CASE TryPushCheck(p)
  <2>1. Private(p)
    BY <1>0, <1>1, WrapType DEF TryPushCheck, Return, Goto, Private, Owning, Args
  <2> QED
    BY <2>1, <1>0, PrivateStep
<1>2. CASE TryPushWin(p)
  <2>1. Drawn(p, head)
    BY <1>2 DEF TryPushWin, DrawPush, Goto, Drawn, Args
  <2> QED
    BY <2>1, <1>0, DrawnStep
<1>3. CASE TryPushLose(p)
  <2>1. Private(p)
    BY <1>0, <1>3 DEF TryPushLose, Goto, Private, Owning, Args
  <2> QED
    BY <2>1, <1>0, PrivateStep
<1> QED
  BY <1>1, <1>2, <1>3

(* A pop until it has a ticket.                                            *)
LEMMA PopTryStep ==
  ASSUME Inv, NEW c \in Consumers,
         Pop(c) \/ TryPop(c) \/ TryPopCheck(c) \/ TryPopWin(c) \/ TryPopLose(c)
  PROVE  Inv'
<1> USE ThreadAssumption DEF Inv, TypeOK, Threads
<1>0. c \in Threads /\ U(tail) \in 0 .. Wrap - 1
  BY UType
<1>1. CASE Pop(c)
  <2>1. Drawn(c, tail)
    BY <1>1 DEF Pop, DrawPop, Goto, Drawn
  <2> QED
    BY <2>1, <1>0, DrawnStep
<1>2. CASE TryPop(c)
  <2>1. Private(c)
    BY <1>0, <1>2 DEF TryPop, Goto, Private, Owning
  <2> QED
    BY <2>1, <1>0, PrivateStep
<1>3. CASE TryPopCheck(c)
  <2>1. Private(c)
    BY <1>0, <1>3, WrapType DEF TryPopCheck, Return, Goto, Private, Owning
  <2> QED
    BY <2>1, <1>0, PrivateStep
<1>4. CASE TryPopWin(c)
  <2>1. Drawn(c, tail)
    BY <1>4 DEF TryPopWin, DrawPop, Goto, Drawn
  <2> QED
    BY <2>1, <1>0, DrawnStep
<1>5. CASE TryPopLose(c)
  <2>1. Private(c)
    BY <1>0, <1>5 DEF TryPopLose, Goto, Private, Owning
  <2> QED
    BY <2>1, <1>0, PrivateStep
<1> QED
  BY <1>1, <1>2, <1>3, <1>4, <1>5

-----------------------------------------------------------------------------
(* Steps of a thread that holds a ticket *)

LEMMA AcquireEmptyStep == ASSUME Inv, NEW p \in Producers, AcquireEmpty(p) PROVE Inv'
<1> USE ThreadAssumption DEF Inv, TypeOK, Threads, AcquireEmpty, Goto
<1> DEFINE i == Index(loc[p])
<1>1. p \in Threads /\ i \in Slots
  BY LocIndex
<1>2. pc[p] = "acquire" /\ states[i] = "EMPTY" /\ states'[i] = "STORING" /\ pc'[p] = "write"
  BY <1>1
<1>3. \A u \in Threads : u # p => pc'[u] = pc[u]
  OBVIOUS
<1>4. \A j \in Slots : j # i => states'[j] = states[j]
  OBVIOUS
<1>5. UNCHANGED <<head, tail, elements, loc, arg, ticket, out>>
  OBVIOUS
<1>6. TypeOK'
  BY <1>1 DEF PPcs, CPcs, SlotStates
<1> HIDE DEF i, AcquireEmpty
<1>7. Tickets'
  BY <1>2, <1>3, <1>5 DEF Tickets, Carrying
<1>8. Args'
  BY <1>2, <1>3, <1>5 DEF Args
<1>9. \A u \in Threads : pc[u] \in Owning => Index(loc[u]) # i
  BY <1>1, <1>2 DEF Ownership, Owning
<1>10. Ownership'
  <2>1. \A t, u \in Threads :
          (pc'[t] \in Owning /\ pc'[u] \in Owning /\ Index(loc'[t]) = Index(loc'[u])) => t = u
    BY <1>2, <1>3, <1>5, <1>9 DEF Ownership, Owning, i
  <2>2. \A t \in Threads : pc'[t] \in {"write", "publish"} => states'[Index(loc'[t])] = "STORING"
    BY <1>2, <1>3, <1>4, <1>5, <1>9, LocIndex DEF Ownership, Owning, i
  <2>3. \A t \in Threads : pc'[t] \in {"read", "release"} => states'[Index(loc'[t])] = "LOADING"
    BY <1>2, <1>3, <1>4, <1>5, <1>9, LocIndex DEF Ownership, Owning
  <2>4. ASSUME NEW j \in Slots, states'[j] = "STORING"
        PROVE  \E q \in Producers : pc'[q] \in {"write", "publish"} /\ Index(loc'[q]) = j
    <3>1. CASE j = i
      BY <1>2, <1>5, <3>1 DEF i
    <3>2. CASE j # i
      BY <1>1, <1>2, <1>3, <1>4, <1>5, <2>4, <3>2 DEF Ownership
    <3> QED
      BY <3>1, <3>2
  <2>5. ASSUME NEW j \in Slots, states'[j] = "LOADING"
        PROVE  \E c \in Consumers : pc'[c] \in {"read", "release"} /\ Index(loc'[c]) = j
    BY <1>2, <1>3, <1>4, <1>5, <2>5 DEF Ownership
  <2> QED
    BY <2>1, <2>2, <2>3, <2>4, <2>5 DEF Ownership
<1>11. Contents'
  BY <1>1, <1>2, <1>3, <1>4, <1>5 DEF Contents
<1> QED
  BY <1>6, <1>7, <1>8, <1>10, <1>11

LEMMA WriteStep == ASSUME Inv, NEW p \in Producers, Write(p) PROVE Inv'
<1> USE ThreadAssumption DEF Inv, TypeOK, Threads, Write, Goto
<1> DEFINE i == Index(loc[p])
           e == [ticket |-> ticket[p], item |-> arg[p]]
<1>1. p \in Threads /\ i \in Slots
  BY LocIndex
<1>2. pc[p] = "write" /\ states[i] = "STORING" /\ pc'[p] = "publish"
  BY <1>1 DEF Ownership
<1>3. e \in Element
  BY <1>2 DEF Tickets, Carrying, Args, Element
<1>4. \A u \in Threads : u # p => pc'[u] = pc[u]
  OBVIOUS
<1>5. elements'[i] = e /\ \A j \in Slots : j # i => elements'[j] = elements[j]
  BY <1>1
<1>6. UNCHANGED <<head, tail, states, loc, arg, ticket, out>>
  OBVIOUS
<1>7. TypeOK'
  BY <1>1, <1>3 DEF PPcs, CPcs
<1> HIDE DEF Write
<1>8. Tickets'
  BY <1>2, <1>4, <1>6 DEF Tickets, Carrying
<1>9. Args'
  BY <1>2, <1>4, <1>6 DEF Args
<1>10. Ownership'
  BY <1>1, <1>2, <1>4, <1>6 DEF Ownership, Owning
<1>11. \A u \in Threads : (u # p /\ pc[u] \in Owning) => Index(loc[u]) # i
  BY <1>1, <1>2 DEF Ownership, Owning
<1>12. \A u \in Threads : Index(loc[u]) \in Slots
  BY LocIndex
<1> HIDE DEF i
<1>13. Contents'
  <2>1. \A j \in Slots : states'[j] = "STORED" => elements'[j] \in Element
    BY <1>3, <1>5, <1>6 DEF Contents
  <2>2. ASSUME NEW q \in Producers, pc'[q] = "publish"
        PROVE  elements'[Index(loc'[q])] = [ticket |-> ticket'[q], item |-> arg'[q]]
    <3>1. CASE q = p
      BY <1>5, <1>6, <3>1 DEF i
    <3>2. CASE q # p
      BY <1>4, <1>5, <1>6, <1>11, <1>12, <2>2, <3>2 DEF Contents, Owning
    <3> QED
      BY <3>1, <3>2
  <2>3. ASSUME NEW c \in Consumers, pc'[c] = "read"
        PROVE  [pop |-> ticket'[c], got |-> elements'[Index(loc'[c])]] \in out'
    BY <1>4, <1>5, <1>6, <1>11, <1>12, <2>3 DEF Contents, Owning
  <2>4. \A c \in Consumers : pc'[c] = "release" => [pop |-> ticket'[c], got |-> arg'[c]] \in out'
    BY <1>4, <1>6 DEF Contents
  <2> QED
    BY <2>1, <2>2, <2>3, <2>4 DEF Contents
<1> QED
  BY <1>7, <1>8, <1>9, <1>10, <1>13

LEMMA PublishStep == ASSUME Inv, NEW p \in Producers, Publish(p) PROVE Inv'
<1> USE ThreadAssumption DEF Inv, TypeOK, Threads, Publish, Return, Goto
<1> DEFINE i == Index(loc[p])
<1>1. p \in Threads /\ i \in Slots
  BY LocIndex
<1>2. pc[p] = "publish" /\ states[i] = "STORING" /\ pc'[p] = "idle" /\ states'[i] = "STORED"
  BY <1>1 DEF Ownership
<1>3. elements[i] \in Element
  <2>1. elements[i] = [ticket |-> ticket[p], item |-> arg[p]]
    BY <1>2 DEF Contents
  <2>2. ticket[p] \in Nat /\ arg[p] \in Items
    BY <1>1, <1>2 DEF Tickets, Carrying, Args
  <2> QED
    BY <2>1, <2>2 DEF Element
<1>4. \A u \in Threads : u # p =>
        pc'[u] = pc[u] /\ loc'[u] = loc[u] /\ arg'[u] = arg[u] /\ ticket'[u] = ticket[u]
  OBVIOUS
<1>5. \A j \in Slots : j # i => states'[j] = states[j]
  OBVIOUS
<1>6. UNCHANGED <<head, tail, elements, out>>
  OBVIOUS
<1>7. TypeOK'
  BY <1>1, WrapType DEF PPcs, CPcs, SlotStates
<1> HIDE DEF Publish, Return
<1>8. Tickets'
  BY <1>2, <1>4 DEF Tickets, Carrying
<1>9. Args'
  BY <1>2, <1>4 DEF Args
<1>10. \A u \in Threads : (u # p /\ pc[u] \in Owning) => Index(loc[u]) # i
  BY <1>1, <1>2 DEF Ownership, Owning
<1>11. \A u \in Threads : Index(loc[u]) \in Slots
  BY LocIndex
<1> HIDE DEF i
<1>12. Ownership'
  <2>1. \A t, u \in Threads :
          (pc'[t] \in Owning /\ pc'[u] \in Owning /\ Index(loc'[t]) = Index(loc'[u])) => t = u
    BY <1>2, <1>4 DEF Ownership, Owning
  <2>2. \A t \in Threads : pc'[t] \in {"write", "publish"} => states'[Index(loc'[t])] = "STORING"
    BY <1>2, <1>4, <1>5, <1>10, <1>11 DEF Ownership, Owning
  <2>3. \A t \in Threads : pc'[t] \in {"read", "release"} => states'[Index(loc'[t])] = "LOADING"
    BY <1>2, <1>4, <1>5, <1>10, <1>11 DEF Ownership, Owning
  <2>4. ASSUME NEW j \in Slots, states'[j] = "STORING"
        PROVE  \E q \in Producers : pc'[q] \in {"write", "publish"} /\ Index(loc'[q]) = j
    <3>1. j # i /\ states[j] = "STORING"
      BY <1>2, <1>5, <2>4
    <3>2. PICK q \in Producers : pc[q] \in {"write", "publish"} /\ Index(loc[q]) = j
      BY <3>1 DEF Ownership
    <3> QED
      BY <1>4, <3>1, <3>2 DEF i
  <2>5. ASSUME NEW j \in Slots, states'[j] = "LOADING"
        PROVE  \E c \in Consumers : pc'[c] \in {"read", "release"} /\ Index(loc'[c]) = j
    BY <1>2, <1>4, <1>5, <2>5 DEF Ownership
  <2> QED
    BY <2>1, <2>2, <2>3, <2>4, <2>5 DEF Ownership
<1>13. Contents'
  BY <1>2, <1>3, <1>4, <1>5, <1>6 DEF Contents
<1> QED
  BY <1>7, <1>8, <1>9, <1>12, <1>13

LEMMA AcquireStoredStep == ASSUME Inv, NEW c \in Consumers, AcquireStored(c) PROVE Inv'
<1> USE ThreadAssumption DEF Inv, TypeOK, Threads, AcquireStored, Goto
<1> DEFINE i == Index(loc[c])
           d == [pop |-> ticket[c], got |-> elements[i]]
<1>1. c \in Threads /\ i \in Slots
  BY LocIndex
<1>2. pc[c] = "acquire" /\ states[i] = "STORED" /\ states'[i] = "LOADING" /\ pc'[c] = "read"
  BY <1>1
<1>3. d \in [pop : Nat, got : Element]
  BY <1>1, <1>2 DEF Contents, Tickets, Carrying
<1>4. \A u \in Threads : u # c => pc'[u] = pc[u]
  OBVIOUS
<1>5. \A j \in Slots : j # i => states'[j] = states[j]
  OBVIOUS
<1>6. UNCHANGED <<head, tail, elements, loc, arg, ticket>> /\ out' = out \cup {d}
  OBVIOUS
<1>7. TypeOK'
  BY <1>1, <1>3 DEF PPcs, CPcs, SlotStates
<1> HIDE DEF AcquireStored
<1>8. Tickets'
  BY <1>2, <1>4, <1>6 DEF Tickets, Carrying
<1>9. Args'
  BY <1>4, <1>6 DEF Args
<1>10. \A u \in Threads : pc[u] \in Owning => Index(loc[u]) # i
  BY <1>1, <1>2 DEF Ownership, Owning
<1>11. Contents'
  BY <1>1, <1>2, <1>4, <1>5, <1>6 DEF Contents
<1> HIDE DEF d
<1>12. Ownership'
  <2>1. \A t, u \in Threads :
          (pc'[t] \in Owning /\ pc'[u] \in Owning /\ Index(loc'[t]) = Index(loc'[u])) => t = u
    BY <1>2, <1>4, <1>6, <1>10 DEF Ownership, Owning
  <2>2. \A t \in Threads : pc'[t] \in {"write", "publish"} => states'[Index(loc'[t])] = "STORING"
    BY <1>2, <1>4, <1>5, <1>6, <1>10, LocIndex DEF Ownership, Owning
  <2>3. \A t \in Threads : pc'[t] \in {"read", "release"} => states'[Index(loc'[t])] = "LOADING"
    BY <1>2, <1>4, <1>5, <1>6, <1>10, LocIndex DEF Ownership, Owning
  <2>4. ASSUME NEW j \in Slots, states'[j] = "STORING"
        PROVE  \E q \in Producers : pc'[q] \in {"write", "publish"} /\ Index(loc'[q]) = j
    BY <1>2, <1>4, <1>5, <1>6, <2>4 DEF Ownership
  <2>5. ASSUME NEW j \in Slots, states'[j] = "LOADING"
        PROVE  \E e \in Consumers : pc'[e] \in {"read", "release"} /\ Index(loc'[e]) = j
    <3>1. CASE j = i
      BY <1>2, <1>6, <3>1
    <3>2. CASE j # i
      BY <1>1, <1>2, <1>4, <1>5, <1>6, <2>5, <3>2 DEF Ownership
    <3> QED
      BY <3>1, <3>2
  <2> QED
    BY <2>1, <2>2, <2>3, <2>4, <2>5 DEF Ownership
<1> QED
  BY <1>7, <1>8, <1>9, <1>11, <1>12

LEMMA ReadStep == ASSUME Inv, NEW c \in Consumers, Read(c) PROVE Inv'
<1> USE ThreadAssumption DEF Inv, TypeOK, Threads, Read, Goto
<1> DEFINE i == Index(loc[c])
<1>1. c \in Threads /\ i \in Slots
  BY LocIndex
<1>2. pc[c] = "read" /\ states[i] = "LOADING" /\ pc'[c] = "release"
  BY <1>1 DEF Ownership
<1>3. [pop |-> ticket[c], got |-> elements[i]] \in out
  BY <1>2 DEF Contents
<1>4. elements[i] \in Element
  BY <1>3
<1>5. \A u \in Threads : u # c => pc'[u] = pc[u] /\ arg'[u] = arg[u]
  OBVIOUS
<1>6. arg'[c] = elements[i] /\ \A j \in Slots : j # i => elements'[j] = elements[j]
  BY <1>1
<1>7. UNCHANGED <<head, tail, states, loc, ticket, out>>
  OBVIOUS
<1>8. TypeOK'
  BY <1>1, <1>4 DEF PPcs, CPcs
<1> HIDE DEF Read
<1>9. Tickets'
  BY <1>2, <1>5, <1>7 DEF Tickets, Carrying
<1>10. Args'
  BY <1>5 DEF Args
<1>11. Ownership'
  BY <1>2, <1>5, <1>7 DEF Ownership, Owning
<1>12. \A u \in Threads : (u # c /\ pc[u] \in Owning) => Index(loc[u]) # i
  BY <1>1, <1>2 DEF Ownership, Owning
<1>13. \A u \in Threads : Index(loc[u]) \in Slots
  BY LocIndex
<1> HIDE DEF i
<1>14. Contents'
  <2>1. \A j \in Slots : states'[j] = "STORED" => elements'[j] \in Element
    BY <1>2, <1>6, <1>7 DEF Contents
  <2>2. \A q \in Producers : pc'[q] = "publish" =>
          elements'[Index(loc'[q])] = [ticket |-> ticket'[q], item |-> arg'[q]]
    BY <1>5, <1>6, <1>7, <1>12, <1>13 DEF Contents, Owning
  <2>3. \A e \in Consumers : pc'[e] = "read" =>
          [pop |-> ticket'[e], got |-> elements'[Index(loc'[e])]] \in out'
    BY <1>2, <1>5, <1>6, <1>7, <1>12, <1>13 DEF Contents, Owning
  <2>4. \A e \in Consumers : pc'[e] = "release" => [pop |-> ticket'[e], got |-> arg'[e]] \in out'
    BY <1>3, <1>5, <1>6, <1>7 DEF Contents
  <2> QED
    BY <2>1, <2>2, <2>3, <2>4 DEF Contents
<1> QED
  BY <1>8, <1>9, <1>10, <1>11, <1>14

LEMMA ReleaseStep == ASSUME Inv, NEW c \in Consumers, Release(c) PROVE Inv'
<1> USE ThreadAssumption DEF Inv, TypeOK, Threads, Release, Return, Goto
<1> DEFINE i == Index(loc[c])
<1>1. c \in Threads /\ i \in Slots
  BY LocIndex
<1>2. pc[c] = "release" /\ states[i] = "LOADING" /\ pc'[c] = "idle" /\ states'[i] = "EMPTY"
  BY <1>1 DEF Ownership
<1>3. \A u \in Threads : u # c =>
        pc'[u] = pc[u] /\ loc'[u] = loc[u] /\ arg'[u] = arg[u] /\ ticket'[u] = ticket[u]
  OBVIOUS
<1>4. \A j \in Slots : j # i => states'[j] = states[j]
  OBVIOUS
<1>5. UNCHANGED <<head, tail, elements, out>>
  OBVIOUS
<1>6. TypeOK'
  BY <1>1, WrapType DEF PPcs, CPcs, SlotStates
<1> HIDE DEF Release, Return
<1>7. Tickets'
  BY <1>2, <1>3 DEF Tickets, Carrying
<1>8. Args'
  BY <1>3 DEF Args
<1>9. \A u \in Threads : (u # c /\ pc[u] \in Owning) => Index(loc[u]) # i
  BY <1>1, <1>2 DEF Ownership, Owning
<1>10. \A u \in Threads : Index(loc[u]) \in Slots
  BY LocIndex
<1> HIDE DEF i
<1>11. Ownership'
  <2>1. \A t, u \in Threads :
          (pc'[t] \in Owning /\ pc'[u] \in Owning /\ Index(loc'[t]) = Index(loc'[u])) => t = u
    BY <1>2, <1>3 DEF Ownership, Owning
  <2>2. \A t \in Threads : pc'[t] \in {"write", "publish"} => states'[Index(loc'[t])] = "STORING"
    BY <1>2, <1>3, <1>4, <1>9, <1>10 DEF Ownership, Owning
  <2>3. \A t \in Threads : pc'[t] \in {"read", "release"} => states'[Index(loc'[t])] = "LOADING"
    BY <1>2, <1>3, <1>4, <1>9, <1>10 DEF Ownership, Owning
  <2>4. ASSUME NEW j \in Slots, states'[j] = "STORING"
        PROVE  \E q \in Producers : pc'[q] \in {"write", "publish"} /\ Index(loc'[q]) = j
    BY <1>2, <1>3, <1>4, <2>4 DEF Ownership
  <2>5. ASSUME NEW j \in Slots, states'[j] = "LOADING"
        PROVE  \E e \in Consumers : pc'[e] \in {"read", "release"} /\ Index(loc'[e]) = j
    <3>1. j # i /\ states[j] = "LOADING"
      BY <1>2, <1>4, <2>5
    <3>2. PICK e \in Consumers : pc[e] \in {"read", "release"} /\ Index(loc[e]) = j
      BY <3>1 DEF Ownership
    <3> QED
      BY <1>3, <3>1, <3>2 DEF i
  <2> QED
    BY <2>1, <2>2, <2>3, <2>4, <2>5 DEF Ownership
<1>12. Contents'
  BY <1>2, <1>3, <1>4, <1>5 DEF Contents
<1> QED
  BY <1>6, <1>7, <1>8, <1>11, <1>12

(* Nothing changes, nothing is disturbed.                                  *)
LEMMA InvStutter == ASSUME Inv, UNCHANGED vars PROVE Inv'
  BY DEF Inv, TypeOK, Tickets, Args, Ownership, Contents, vars

(* The invariant is inductive.                                             *)
LEMMA InvStep == ASSUME Inv, [Next]_vars PROVE Inv'
<1>1. ASSUME NEW p \in Producers, NEW x \in Items, Push(p, x) \/ TryPush(p, x) PROVE Inv'
  BY <1>1, PushCallStep
<1>2. ASSUME NEW p \in Producers, ProducerStep(p) PROVE Inv'
  BY <1>2, PushTryStep, AcquireEmptyStep, WriteStep, PublishStep DEF ProducerStep
<1>3. ASSUME NEW c \in Consumers, Pop(c) \/ TryPop(c) \/ ConsumerStep(c) PROVE Inv'
  BY <1>3, PopTryStep, AcquireStoredStep, ReadStep, ReleaseStep DEF ConsumerStep
<1> QED
  BY <1>1, <1>2, <1>3, InvStutter DEF Next

(* The inductive invariant holds.                                          *)
THEOREM InvHolds == Spec => []Inv
  BY InvInit, InvStep, PTL DEF Spec

(* The variables of AtomicQueue keep their types.  The types alone are not *)
(* inductive: what a push writes and a pop takes is an element only        *)
(* because of the tickets and the state bytes.                             *)
THEOREM TypeCorrect == Spec => []TypeOK
  BY InvHolds, PTL DEF Inv

(* A slot has one owner, and its state byte says what the owner does.      *)
THEOREM SlotOwnedHolds == Spec => []SlotOwned
<1>1. Inv => SlotOwned
  <2> SUFFICES ASSUME Inv, NEW i \in Slots
               PROVE  /\ \A t, u \in Storing(i) \cup Loading(i) : t = u
                      /\ (Storing(i) # {}) <=> (states[i] = "STORING")
                      /\ (Loading(i) # {}) <=> (states[i] = "LOADING")
    BY DEF SlotOwned
  <2>1. \A t, u \in Storing(i) \cup Loading(i) : t = u
    BY DEF Inv, Ownership, Owning, Storing, Loading, Threads
  <2>2. (Storing(i) # {}) <=> (states[i] = "STORING")
    BY DEF Inv, Ownership, Storing, Threads
  <2>3. (Loading(i) # {}) <=> (states[i] = "LOADING")
    BY DEF Inv, Ownership, Loading, Threads
  <2> QED
    BY <2>1, <2>2, <2>3
<1> QED
  BY <1>1, InvHolds, PTL

(* A stored element, and one that a pop has moved out, is whole.           *)
THEOREM WholeElementsHolds == Spec => []WholeElements
<1>1. Inv => WholeElements
  BY NoneAssumption DEF Inv, Contents, WholeElements
<1> QED
  BY <1>1, InvHolds, PTL

-----------------------------------------------------------------------------
(* AtomicQueue implements RingQueue *)

Views == <<head, tail, SlotView, HandView, WantView, out>>

(* The slot of a carried ticket, seen through the remapping.               *)
LEMMA PlaceOf ==
  ASSUME Inv, NEW t \in Threads, pc[t] \in Carrying
  PROVE  /\ Ring!SlotOf(ticket[t]) \in Slots
         /\ \A j \in Slots : Remap[j] = Index(loc[t]) <=> j = Ring!SlotOf(ticket[t])
<1>1. ticket[t] \in Nat /\ loc[t] = U(ticket[t])
  BY DEF Inv, Tickets
<1>2. Ring!SlotOf(ticket[t]) \in Slots
  BY <1>1, SizeAssumption DEF Ring!SlotOf, Slots
<1>3. Index(loc[t]) = Remap[Ring!SlotOf(ticket[t])]
  BY <1>1, WrapIndex DEF Index, Ring!SlotOf
<1> QED
  BY <1>2, <1>3, RemapAssumption

(* An empty queue is an empty ring.                                        *)
LEMMA InitViews == Init => Ring!Init
  BY RemapAssumption, ThreadAssumption
  DEF Init, Ring!Init, SlotView, HandView, WantView, Ring!NoTicket, NoTicket, Ring!Slots, Slots,
      Threads

(* Threads that touch only themselves and the slots they own are not seen. *)
LEMMA SameViews ==
  ASSUME UNCHANGED <<head, tail, out>>,
         \A k \in Slots : (states'[k] = "STORED") <=> (states[k] = "STORED"),
         \A k \in Slots : states[k] = "STORED" => elements'[k] = elements[k],
         \A p \in Producers :
            /\ (pc'[p] \in {"acquire", "write", "publish"}) <=> (pc[p] \in {"acquire", "write", "publish"})
            /\ pc[p] \in {"acquire", "write", "publish"} => ticket'[p] = ticket[p] /\ arg'[p] = arg[p],
         \A c \in Consumers :
            /\ (pc'[c] = "acquire") <=> (pc[c] = "acquire")
            /\ pc[c] = "acquire" => ticket'[c] = ticket[c]
  PROVE  UNCHANGED Views
<1>1. SlotView' = SlotView
  BY RemapAssumption DEF SlotView
<1>2. HandView' = HandView
  BY DEF HandView
<1>3. WantView' = WantView
  BY DEF WantView
<1> QED
  BY <1>1, <1>2, <1>3 DEF Views

(* Until a thread has a ticket it is not seen.                             *)
LEMMA PrivateViews == ASSUME Inv, NEW t \in Threads, Private(t), pc[t] \notin Carrying PROVE UNCHANGED Views
<1>1. \A u \in Threads : u # t => pc'[u] = pc[u] /\ arg'[u] = arg[u] /\ ticket'[u] = ticket[u]
  BY DEF Private, Inv, TypeOK
<1>2. pc'[t] \notin Carrying
  BY DEF Private, Carrying
<1>3. UNCHANGED <<head, tail, states, elements, out>>
  BY DEF Private, shared
<1> QED
  BY <1>1, <1>2, <1>3, SameViews DEF Carrying, Threads

(* A drawn push ticket is a reservation.                                   *)
LEMMA ReserveView ==
  ASSUME Inv, NEW p \in Producers, DrawPush(p), pc[p] \in {"idle", "cas"}, arg'[p] \in Items,
         arg' = [arg EXCEPT ![p] = arg'[p]]
  PROVE  Ring!Reserve(p, arg'[p])
<1> USE ThreadAssumption DEF Inv, TypeOK, Threads, DrawPush, Goto
<1>1. \A u \in Threads : u # p => pc'[u] = pc[u] /\ arg'[u] = arg[u] /\ ticket'[u] = ticket[u]
  OBVIOUS
<1>2. pc'[p] = "acquire" /\ ticket'[p] = head
  OBVIOUS
<1>3. HandView[p] = None /\ head < MaxPush /\ head' = head + 1
  BY DEF HandView
<1>4. HandView' = [HandView EXCEPT ![p] = [ticket |-> head, item |-> arg'[p]]]
  BY <1>1, <1>2 DEF HandView
<1>5. SlotView' = SlotView
  BY DEF SlotView
<1>6. WantView' = WantView
  BY <1>1 DEF WantView
<1> QED
  BY <1>3, <1>4, <1>5, <1>6 DEF Ring!Reserve

(* A published element is stored.                                          *)
LEMMA StoreView == ASSUME Inv, NEW p \in Producers, Publish(p) PROVE Ring!Store(p)
<1> USE ThreadAssumption DEF Inv, TypeOK, Threads
<1> DEFINE k == Ring!SlotOf(ticket[p])
           i == Index(loc[p])
           e == [ticket |-> ticket[p], item |-> arg[p]]
<1>1. pc[p] = "publish" /\ pc'[p] = "idle" /\ states' = [states EXCEPT ![i] = "STORED"]
  BY DEF Publish, Return, Goto
<1>2. k \in Slots /\ \A j \in Slots : Remap[j] = i <=> j = k
  BY <1>1, PlaceOf DEF Carrying
<1>3. i \in Slots /\ states[i] = "STORING" /\ elements[i] = e
  BY <1>1, LocIndex DEF Ownership, Contents
<1>4. e \in Element
  BY <1>1 DEF Tickets, Carrying, Args, Element
<1>5. HandView[p] = e /\ e # None /\ e.ticket = ticket[p]
  BY <1>1, <1>4, NoneAssumption DEF HandView
<1>6. \A u \in Threads : u # p => pc'[u] = pc[u] /\ arg'[u] = arg[u] /\ ticket'[u] = ticket[u]
  BY DEF Publish, Return, Goto
<1>7. UNCHANGED <<head, tail, elements, out>>
  BY DEF Publish
<1> HIDE DEF k, i, e
<1>8. SlotView[k] = None
  BY <1>2, <1>3 DEF SlotView
<1>9. SlotView' = [SlotView EXCEPT ![k] = e]
  <2>1. \A j \in Slots : SlotView'[j] = IF j = k THEN e ELSE SlotView[j]
    BY <1>1, <1>2, <1>3, <1>7, RemapAssumption DEF SlotView
  <2> QED
    BY <1>2, <2>1 DEF SlotView
<1>10. HandView' = [HandView EXCEPT ![p] = None]
  BY <1>1, <1>6 DEF HandView
<1>11. WantView' = WantView
  BY <1>6 DEF WantView
<1> QED
  BY <1>5, <1>7, <1>8, <1>9, <1>10, <1>11 DEF Ring!Store, k

(* A drawn pop ticket is a claim.                                          *)
LEMMA ClaimView ==
  ASSUME Inv, NEW c \in Consumers, DrawPop(c), pc[c] \in {"idle", "cas"}
  PROVE  Ring!Claim(c)
<1> USE ThreadAssumption DEF Inv, TypeOK, Threads, DrawPop, Goto
<1>1. \A u \in Threads : u # c => pc'[u] = pc[u] /\ ticket'[u] = ticket[u]
  OBVIOUS
<1>2. pc'[c] = "acquire" /\ ticket'[c] = tail
  OBVIOUS
<1>3. WantView[c] = Ring!NoTicket
  BY DEF WantView, NoTicket, Ring!NoTicket
<1>4. WantView' = [WantView EXCEPT ![c] = tail]
  BY <1>1, <1>2 DEF WantView
<1>5. SlotView' = SlotView
  BY DEF SlotView
<1>6. HandView' = HandView
  BY <1>1 DEF HandView
<1> QED
  BY <1>3, <1>4, <1>5, <1>6 DEF Ring!Claim

(* A won slot is taken.                                                    *)
LEMMA TakeView == ASSUME Inv, NEW c \in Consumers, AcquireStored(c) PROVE Ring!Take(c)
<1> USE ThreadAssumption DEF Inv, TypeOK, Threads
<1> DEFINE k == Ring!SlotOf(ticket[c])
           i == Index(loc[c])
<1>1. pc[c] = "acquire" /\ pc'[c] = "read" /\ states' = [states EXCEPT ![i] = "LOADING"]
      /\ states[i] = "STORED"
  BY DEF AcquireStored, Goto
<1>2. k \in Slots /\ \A j \in Slots : Remap[j] = i <=> j = k
  BY <1>1, PlaceOf DEF Carrying
<1>3. i \in Slots /\ elements[i] # None
  BY <1>1, LocIndex, NoneAssumption DEF Contents
<1>4. WantView[c] = ticket[c] /\ ticket[c] # Ring!NoTicket
  BY <1>1 DEF WantView, Tickets, Carrying, Ring!NoTicket
<1>5. \A u \in Threads : u # c => pc'[u] = pc[u]
  BY DEF AcquireStored, Goto
<1>6. UNCHANGED <<head, tail, elements, arg, ticket>>
      /\ out' = out \cup {[pop |-> ticket[c], got |-> elements[i]]}
  BY DEF AcquireStored
<1> HIDE DEF k, i
<1>7. SlotView[k] = elements[i]
  BY <1>1, <1>2 DEF SlotView
<1>8. SlotView' = [SlotView EXCEPT ![k] = None]
  <2>1. \A j \in Slots : SlotView'[j] = IF j = k THEN None ELSE SlotView[j]
    BY <1>1, <1>2, <1>3, <1>6, RemapAssumption DEF SlotView
  <2> QED
    BY <1>2, <2>1 DEF SlotView
<1>9. WantView' = [WantView EXCEPT ![c] = Ring!NoTicket]
  BY <1>1, <1>5, <1>6 DEF WantView, NoTicket, Ring!NoTicket
<1>10. HandView' = HandView
  BY <1>5, <1>6 DEF HandView
<1> QED
  BY <1>3, <1>4, <1>6, <1>7, <1>8, <1>9, <1>10 DEF Ring!Take, k

(* try_push and try_pop until they have a ticket are not seen.             *)
LEMMA TryViews ==
  ASSUME Inv, NEW t \in Threads,
         \/ t \in Producers /\ (\/ \E x \in Items : TryPush(t, x)
                               \/ TryPushCheck(t) \/ TryPushLose(t))
         \/ t \in Consumers /\ (TryPop(t) \/ TryPopCheck(t) \/ TryPopLose(t))
  PROVE  UNCHANGED Views
<1> USE ThreadAssumption DEF Inv, TypeOK, Threads
<1>0. U(head) \in 0 .. Wrap - 1 /\ U(tail) \in 0 .. Wrap - 1
  BY UType
<1>1. CASE t \in Producers
  <2>1. CASE \E x \in Items : TryPush(t, x)
    <3>1. Private(t) /\ pc[t] \notin Carrying
      BY <1>0, <1>1, <2>1 DEF TryPush, Goto, Private, Owning, Carrying
    <3> QED
      BY <3>1, PrivateViews
  <2>2. CASE TryPushCheck(t)
    <3>1. Private(t) /\ pc[t] \notin Carrying
      BY <1>0, <1>1, <2>2, WrapType
      DEF TryPushCheck, Return, Goto, Private, Owning, Args, Carrying
    <3> QED
      BY <3>1, PrivateViews
  <2>3. CASE TryPushLose(t)
    <3>1. Private(t) /\ pc[t] \notin Carrying
      BY <1>0, <1>1, <2>3 DEF TryPushLose, Goto, Private, Owning, Args, Carrying
    <3> QED
      BY <3>1, PrivateViews
  <2> QED
    BY <1>1, <2>1, <2>2, <2>3
<1>2. CASE t \in Consumers
  <2>1. CASE TryPop(t)
    <3>1. Private(t) /\ pc[t] \notin Carrying
      BY <1>0, <1>2, <2>1 DEF TryPop, Goto, Private, Owning, Carrying
    <3> QED
      BY <3>1, PrivateViews
  <2>2. CASE TryPopCheck(t)
    <3>1. Private(t) /\ pc[t] \notin Carrying
      BY <1>0, <1>2, <2>2, WrapType
      DEF TryPopCheck, Return, Goto, Private, Owning, Carrying
    <3> QED
      BY <3>1, PrivateViews
  <2>3. CASE TryPopLose(t)
    <3>1. Private(t) /\ pc[t] \notin Carrying
      BY <1>0, <1>2, <2>3 DEF TryPopLose, Goto, Private, Owning, Carrying
    <3> QED
      BY <3>1, PrivateViews
  <2> QED
    BY <1>2, <2>1, <2>2, <2>3
<1> QED
  BY <1>1, <1>2

(* Between winning a slot and giving it on, a pushing thread is not seen.  *)
LEMMA StoringViews ==
  ASSUME Inv, NEW p \in Producers, AcquireEmpty(p) \/ Write(p)
  PROVE  UNCHANGED Views
<1> USE ThreadAssumption DEF Inv, TypeOK, Threads
<1> DEFINE i == Index(loc[p])
<1>0. i \in Slots
  BY LocIndex
<1>1. CASE AcquireEmpty(p)
  <2>1. /\ states[i] = "EMPTY" /\ states' = [states EXCEPT ![i] = "STORING"]
        /\ pc[p] = "acquire" /\ pc'[p] = "write"
        /\ \A u \in Threads : u # p => pc'[u] = pc[u]
        /\ UNCHANGED <<head, tail, elements, arg, ticket, out>>
    BY <1>1 DEF AcquireEmpty, Goto
  <2> QED
    BY <1>0, <2>1, SameViews
<1>2. CASE Write(p)
  <2>1. /\ pc[p] = "write" /\ pc'[p] = "publish"
        /\ \A u \in Threads : u # p => pc'[u] = pc[u]
        /\ \A k \in Slots : k # i => elements'[k] = elements[k]
        /\ UNCHANGED <<head, tail, states, arg, ticket, out>>
    BY <1>2 DEF Write, Goto
  <2>2. states[i] = "STORING"
    BY <2>1 DEF Ownership
  <2> QED
    BY <1>0, <2>1, <2>2, SameViews
<1> QED
  BY <1>1, <1>2

(* Nor is a popping thread once it has won its slot.                       *)
LEMMA LoadingViews ==
  ASSUME Inv, NEW c \in Consumers, Read(c) \/ Release(c)
  PROVE  UNCHANGED Views
<1> USE ThreadAssumption DEF Inv, TypeOK, Threads
<1> DEFINE i == Index(loc[c])
<1>0. i \in Slots
  BY LocIndex
<1>1. CASE Read(c)
  <2>1. /\ pc[c] = "read" /\ pc'[c] = "release"
        /\ \A u \in Threads : u # c => pc'[u] = pc[u] /\ arg'[u] = arg[u]
        /\ \A k \in Slots : k # i => elements'[k] = elements[k]
        /\ UNCHANGED <<head, tail, states, ticket, out>>
    BY <1>1 DEF Read, Goto
  <2>2. states[i] = "LOADING"
    BY <2>1 DEF Ownership
  <2> QED
    BY <1>0, <2>1, <2>2, SameViews
<1>2. CASE Release(c)
  <2>1. /\ pc[c] = "release" /\ pc'[c] = "idle" /\ states' = [states EXCEPT ![i] = "EMPTY"]
        /\ \A u \in Threads : u # c => pc'[u] = pc[u] /\ arg'[u] = arg[u] /\ ticket'[u] = ticket[u]
        /\ UNCHANGED <<head, tail, elements, out>>
    BY <1>2 DEF Release, Return, Goto
  <2>2. states[i] = "LOADING"
    BY <2>1 DEF Ownership
  <2> QED
    BY <1>0, <2>1, <2>2, SameViews
<1> QED
  BY <1>1, <1>2

(* Every step of the queue is one of the ring, or is not seen by it.       *)
LEMMA StepViews == ASSUME Inv, [Next]_vars PROVE [Ring!Next]_Views
<1> USE DEF Ring!Next
<1>1. ASSUME NEW p \in Producers, NEW x \in Items, Push(p, x) PROVE Ring!Next
  <2>1. arg' = [arg EXCEPT ![p] = x] /\ DrawPush(p) /\ pc[p] = "idle"
    BY <1>1 DEF Push
  <2>2. arg'[p] = x
    BY <2>1 DEF Inv, TypeOK, Threads
  <2>3. Ring!Reserve(p, x)
    BY <2>1, <2>2, ReserveView
  <2> QED
    BY <2>3
<1>2. ASSUME NEW p \in Producers, NEW x \in Items, TryPush(p, x) PROVE UNCHANGED Views
  BY <1>2, TryViews DEF Threads
<1>3. ASSUME NEW p \in Producers, ProducerStep(p) PROVE Ring!Next \/ UNCHANGED Views
  <2>1. CASE TryPushCheck(p) \/ TryPushLose(p)
    BY <2>1, TryViews DEF Threads
  <2>2. CASE TryPushWin(p)
    <3>1. DrawPush(p) /\ pc[p] = "cas" /\ arg' = arg
      BY <2>2 DEF TryPushWin
    <3>2. arg[p] \in Items /\ arg = [arg EXCEPT ![p] = arg[p]]
      BY <3>1 DEF Inv, TypeOK, Threads, Args
    <3>3. Ring!Reserve(p, arg'[p])
      BY <3>1, <3>2, ReserveView
    <3> QED
      BY <3>1, <3>2, <3>3
  <2>3. CASE AcquireEmpty(p) \/ Write(p)
    BY <2>3, StoringViews
  <2>4. CASE Publish(p)
    BY <2>4, StoreView
  <2> QED
    BY <1>3, <2>1, <2>2, <2>3, <2>4 DEF ProducerStep
<1>4. ASSUME NEW c \in Consumers, Pop(c) \/ TryPop(c) \/ ConsumerStep(c)
      PROVE  Ring!Next \/ UNCHANGED Views
  <2>1. CASE Pop(c) \/ TryPopWin(c)
    BY <2>1, ClaimView DEF Pop, TryPopWin
  <2>2. CASE TryPop(c) \/ TryPopCheck(c) \/ TryPopLose(c)
    BY <2>2, TryViews DEF Threads
  <2>3. CASE AcquireStored(c)
    BY <2>3, TakeView
  <2>4. CASE Read(c) \/ Release(c)
    BY <2>4, LoadingViews
  <2> QED
    BY <1>4, <2>1, <2>2, <2>3, <2>4 DEF ConsumerStep
<1>5. CASE UNCHANGED vars
  BY <1>5 DEF vars, Views, SlotView, HandView, WantView
<1> QED
  BY <1>1, <1>2, <1>3, <1>4, <1>5 DEF Next

(* The slots guarded by state bytes keep the promise of the ring: what     *)
(* holds of RingQueue holds of atomic_queue.h.                             *)
THEOREM Implements == Spec => ImplementsRing
<1>1. Inv /\ [Next]_vars => [Ring!Next]_Ring!vars
  BY StepViews DEF Ring!vars, Views
<1> QED
  BY InitViews, <1>1, InvHolds, PTL DEF Spec, ImplementsRing, Ring!Spec

-----------------------------------------------------------------------------
(* What is proved of the ring, in terms of the slots, counters and threads *)
(* of the queue.                                                           *)
Promised == INSTANCE RingQueueProofs WITH
    slot <- SlotView, hand <- HandView, want <- WantView,
    lapped <- FALSE  \* the order of deliveries is not asked about here

(* Nothing is lost, delivered twice or invented, an element keeps to its   *)
(* slot, and was_size counts, of atomic_queue.h itself.                    *)
THEOREM PromisesKept ==
  Spec => [](Promised!ExactlyOnce /\ Promised!NoInvention /\ Promised!SameSlot /\ Promised!SizeCounts)
<1>1. Spec => Promised!Spec
  <2>1. Ring!Init => Promised!Init
    BY DEF Ring!Init, Promised!Init, Ring!Slots, Promised!Slots, Ring!NoTicket,
       Promised!NoTicket
  <2>2. [Ring!Next]_Ring!vars => [Promised!Next]_Promised!vars
    BY DEF Ring!Next, Promised!Next, Ring!vars, Promised!vars, Ring!Reserve,
       Promised!Reserve,
           Ring!Store, Promised!Store, Ring!Claim, Promised!Claim, Ring!Take, Promised!Take,
           Ring!SlotOf, Promised!SlotOf, Ring!NoTicket, Promised!NoTicket
  <2> QED
    BY <2>1, <2>2, Implements, PTL DEF ImplementsRing, Ring!Spec, Promised!Spec
<1>2. None \notin Promised!Element
  BY NoneAssumption DEF Promised!Element, Element
<1>3. Promised!Spec => []Promised!ExactlyOnce
  BY <1>2, Promised!ExactlyOnceHolds, SizeAssumption, BoundAssumption, PTL
<1>4. Promised!Spec => []Promised!NoInvention
  BY <1>2, Promised!NoInventionHolds, SizeAssumption, BoundAssumption, PTL
<1>5. Promised!Spec => []Promised!SameSlot
  BY <1>2, Promised!SameSlotHolds, SizeAssumption, BoundAssumption, PTL
<1>6. Promised!Spec => []Promised!SizeCounts
  BY <1>2, Promised!SizeCountsHolds, SizeAssumption, BoundAssumption, PTL
<1> QED
  BY <1>1, <1>3, <1>4, <1>5, <1>6, PTL

-----------------------------------------------------------------------------
(* Reading the size *)

(* An int of the counters' width tells a difference of less than half its  *)
(* range, and one of just half when it is negative.                        *)
LEMMA SignedDifference ==
  ASSUME NEW h \in Nat, NEW t \in Nat, 2 * (h - t) < Wrap, 2 * (t - h) <= Wrap
  PROVE  Signed(U(h) - U(t)) = h - t
<1>1. PICK H \in Nat \ {0} : Wrap = 2 * H
  <2>1. PICK m \in 1 .. Wrap : Wrap = Size * (2 * m)
    BY WrapAssumption
  <2>2. Size * m \in Nat \ {0}
    BY <2>1, SizeAssumption, WrapAssumption, PosProd
  <2>3. Size * m + Size * m = Size * (m + m) /\ m + m = 2 * m
    BY <2>1, SizeAssumption, Distr
  <2> QED
    BY <2>1, <2>2, <2>3
<1>2. Wrap \div 2 = H
  BY <1>1
<1>3. CASE h - t \in 0 .. H - 1
  <2>1. U(U(h) - U(t)) = h - t
    <3>1. h - t \in 0 .. Wrap - 1
      BY <1>1, <1>3
    <3>2. ((h % Wrap) - (t % Wrap)) % Wrap = h - t
      BY <3>1, WrapType, NearDifference
    <3> QED
      BY <3>2 DEF U
  <2> QED
    BY <1>1, <1>2, <1>3, <2>1 DEF Signed
<1>4. CASE t - h \in 1 .. H
  <2>1. U(U(h) - U(t)) = Wrap - (t - h)
    <3>1. t - h \in 1 .. Wrap
      BY <1>1, <1>4
    <3>2. ((h % Wrap) - (t % Wrap)) % Wrap = Wrap - (t - h)
      BY <3>1, WrapType, NearDifference
    <3> QED
      BY <3>2 DEF U
  <2> QED
    BY <1>1, <1>2, <1>4, <2>1 DEF Signed
<1> QED
  BY <1>1, <1>3, <1>4

(* The instance counts as this module does.                                *)
LEMMA SameCount == ASSUME NEW S PROVE Promised!Cardinality(S) = Cardinality(S)
BY DEF Promised!Cardinality, Cardinality

(* The size is bounded by the ring and the threads ...                     *)
LEMMA SizeBounds ==
  ASSUME Inv, Promised!SizeCounts
  PROVE  head - tail <= Size + Cardinality(Producers) /\ tail - head <= Cardinality(Consumers)
<1> DEFINE P == Promised!Busy(Producers, HandView, None)
           C == Promised!Busy(Consumers, WantView, Promised!NoTicket)
<1>1. Cardinality(P) \in Nat /\ Cardinality(P) <= Cardinality(Producers)
  <2>1. P \in SUBSET Producers
    BY DEF Promised!Busy
  <2> QED
    BY <2>1, FiniteThreads, FS_Subset, FS_CardinalityType
<1>2. Cardinality(C) \in Nat /\ Cardinality(C) <= Cardinality(Consumers)
  <2>1. C \in SUBSET Consumers
    BY DEF Promised!Busy
  <2> QED
    BY <2>1, FiniteThreads, FS_Subset, FS_CardinalityType
<1>3. Cardinality(Promised!Stored) \in Nat /\ Cardinality(Promised!Stored) <= Size
  <2>1. Promised!Stored \in SUBSET (0 .. Size - 1)
    BY DEF Promised!Stored, Promised!Slots
  <2>2. IsFiniteSet(0 .. Size - 1) /\ Cardinality(0 .. Size - 1) = Size
    BY FS_Interval, SizeAssumption
  <2> QED
    BY <2>1, <2>2, FS_Subset, FS_CardinalityType
<1>4. Cardinality(Producers) \in Nat /\ Cardinality(Consumers) \in Nat
  BY FiniteThreads, FS_CardinalityType
<1>5. head - tail = Cardinality(P) + Cardinality(Promised!Stored) - Cardinality(C)
  BY SameCount DEF Promised!SizeCounts
<1>6. head \in Nat /\ tail \in Nat
  BY DEF Inv, TypeOK
<1> HIDE DEF P, C
<1> QED
  BY <1>1, <1>2, <1>3, <1>4, <1>5, <1>6, SizeAssumption

(* ... so the code reads it right, if its counters have room.              *)
LEMMA ReadRight == ASSUME Inv, Promised!SizeCounts PROVE SizeReadRight
<1> SUFFICES ASSUME WrapRoom PROVE Signed(U(head) - U(tail)) = head - tail
  BY SizeBounds DEF SizeReadRight
<1>1. Cardinality(Producers) \in Nat /\ Cardinality(Consumers) \in Nat
  BY FiniteThreads, FS_CardinalityType
<1>2. head \in Nat /\ tail \in Nat
  BY DEF Inv, TypeOK
<1>3. 2 * (head - tail) < Wrap /\ 2 * (tail - head) <= Wrap
  BY <1>1, <1>2, SizeBounds, SizeAssumption, WrapType DEF WrapRoom
<1> QED
  BY <1>2, <1>3, SignedDifference

(* was_size, was_empty and was_full read the true difference, across every *)
(* wrap of the counters.                                                   *)
THEOREM SizeReadRightHolds == Spec => []SizeReadRight
BY ReadRight, InvHolds, PromisesKept, PTL

-----------------------------------------------------------------------------
(* try_push and try_pop test one counter and move the other.  If the       *)
(* counter they move has not moved since they loaded it, what they tested  *)
(* still holds: the other one only moves the way that makes it easier.     *)
TriesFresh ==
    /\ \A p \in Producers : pc[p] \in {"check", "cas"} => loc[p] <= head
    /\ \A p \in Producers : pc[p] = "cas" /\ loc[p] = head => head - tail < Size
    /\ \A c \in Consumers : pc[c] \in {"check", "cas"} => loc[c] <= tail
    /\ \A c \in Consumers : pc[c] = "cas" /\ loc[c] = tail => head > tail

(* Fewer tickets are drawn than the counters have values.                  *)
NoWrap == MaxPush <= Wrap /\ MaxPop <= Wrap

(* What a counter shows is no more than what it counts, and is that until  *)
(* it wraps.                                                               *)
LEMMA UBelow == ASSUME NEW n \in Nat PROVE U(n) \in Nat /\ U(n) <= n /\ (n < Wrap => U(n) = n)
<1>1. PICK q \in Int, r \in 0 .. Wrap - 1 : n = Wrap * q + r /\ r = n % Wrap
  BY WrapType, DivMod
<1>2. n % Wrap <= n
  BY WrapType
<1>3. n < Wrap => n % Wrap = n
  BY WrapType
<1> QED
  BY <1>1, <1>2, <1>3 DEF U

(* A step of t: the counters do not go back, and t itself is not before    *)
(* the compare_exchange, or may be.                                        *)
Forward(t) ==
    /\ head' \in {head, head + 1} /\ tail' \in {tail, tail + 1}
    /\ \A u \in Threads : u # t => pc'[u] = pc[u] /\ loc'[u] = loc[u]
MayTry(t) ==
    /\ t \in Producers => /\ pc'[t] \in {"check", "cas"} => loc'[t] <= head'
                          /\ pc'[t] = "cas" /\ loc'[t] = head' => head' - tail' < Size
    /\ t \in Consumers => /\ pc'[t] \in {"check", "cas"} => loc'[t] <= tail'
                          /\ pc'[t] = "cas" /\ loc'[t] = tail' => head' > tail'

(* What the other threads tested stays true.                               *)
LEMMA ForwardStep ==
  ASSUME Inv, TriesFresh, NEW t \in Threads, Forward(t), MayTry(t) PROVE TriesFresh'
<1>1. head \in Nat /\ tail \in Nat /\ \A u \in Threads : loc[u] \in Nat
  BY WrapType DEF Inv, TypeOK
<1>2. ASSUME NEW p \in Producers
      PROVE  /\ pc'[p] \in {"check", "cas"} => loc'[p] <= head'
             /\ pc'[p] = "cas" /\ loc'[p] = head' => head' - tail' < Size
  <2>1. CASE p = t
    BY <2>1 DEF MayTry
  <2>2. CASE p # t
    <3>1. pc'[p] = pc[p] /\ loc'[p] = loc[p] /\ loc[p] \in Nat
      BY <1>1, <2>2 DEF Forward, Threads
    <3>2. /\ pc[p] \in {"check", "cas"} => loc[p] <= head
          /\ pc[p] = "cas" /\ loc[p] = head => head - tail < Size
      BY DEF TriesFresh
    <3>3. head' \in {head, head + 1} /\ tail' \in {tail, tail + 1}
      BY DEF Forward
    <3>4. pc'[p] \in {"check", "cas"} => loc'[p] <= head'
      BY <1>1, <3>1, <3>2, <3>3
    <3>5. ASSUME pc'[p] = "cas", loc'[p] = head' PROVE head' - tail' < Size
      <4>1. loc[p] <= head /\ pc[p] = "cas"
        BY <3>1, <3>2, <3>5
      <4>2. head' = head
        BY <1>1, <3>1, <3>3, <3>5, <4>1
      <4>3. head - tail < Size
        BY <3>1, <3>2, <3>5, <4>1, <4>2
      <4>4. tail' \in Nat /\ tail <= tail' /\ head \in Nat /\ tail \in Nat /\ Size \in Nat
        BY <1>1, <3>3, SizeAssumption
      <4>5. head - tail' < Size
        BY <4>3, <4>4, DifferenceLess
      <4> QED
        BY <4>2, <4>5
    <3> QED
      BY <3>4, <3>5
  <2> QED
    BY <2>1, <2>2
<1>3. ASSUME NEW c \in Consumers
      PROVE  /\ pc'[c] \in {"check", "cas"} => loc'[c] <= tail'
             /\ pc'[c] = "cas" /\ loc'[c] = tail' => head' > tail'
  <2>1. CASE c = t
    BY <2>1 DEF MayTry
  <2>2. CASE c # t
    <3>1. pc'[c] = pc[c] /\ loc'[c] = loc[c] /\ loc[c] \in Nat
      BY <1>1, <2>2 DEF Forward, Threads
    <3>2. /\ pc[c] \in {"check", "cas"} => loc[c] <= tail
          /\ pc[c] = "cas" /\ loc[c] = tail => head > tail
      BY DEF TriesFresh
    <3>3. head' \in {head, head + 1} /\ tail' \in {tail, tail + 1}
      BY DEF Forward
    <3> QED
      BY <1>1, <3>1, <3>2, <3>3
  <2> QED
    BY <2>1, <2>2
<1> QED
  BY <1>2, <1>3 DEF TriesFresh

(* The test of try_push, when the counter has not moved since it was       *)
(* loaded: loc is then the true head, and the size is read right.          *)
LEMMA TestStep ==
  ASSUME Inv, TriesFresh, SizeReadRight, WrapRoom,
         NEW t \in Threads,
         (t \in Producers /\ TryPushCheck(t)) \/ (t \in Consumers /\ TryPopCheck(t))
  PROVE  TriesFresh'
<1> USE ThreadAssumption DEF Inv, TypeOK, Threads
<1>1. head \in Nat /\ tail \in Nat /\ loc[t] \in 0 .. Wrap - 1
  OBVIOUS
<1>2. Signed(U(head) - U(tail)) = head - tail
  BY DEF SizeReadRight
<1>3. CASE t \in Producers /\ TryPushCheck(t)
  <2>1. Forward(t) /\ head' = head /\ tail' = tail /\ t \notin Consumers
    BY <1>3 DEF TryPushCheck, Return, Goto, Forward, shared
  <2>2. CASE Signed(loc[t] - U(tail)) >= Size
    <3>1. pc'[t] = "idle"
      BY <1>3, <2>2 DEF TryPushCheck, Return, Goto
    <3> QED
      BY <2>1, <3>1, ForwardStep DEF MayTry
  <2>3. CASE ~(Signed(loc[t] - U(tail)) >= Size)
    <3>1. loc'[t] = loc[t] /\ loc[t] <= head
      BY <1>3, <2>3 DEF TryPushCheck, TriesFresh
    <3>2. ASSUME loc[t] = head PROVE head - tail < Size
      <4>1. U(head) = loc[t]
        BY <1>1, <3>2, UBelow, WrapType
      <4> QED
        BY <1>1, <1>2, <2>3, <4>1, SizeAssumption
    <3> QED
      BY <2>1, <3>1, <3>2, ForwardStep DEF MayTry
  <2> QED
    BY <2>2, <2>3
<1>4. CASE t \in Consumers /\ TryPopCheck(t)
  <2>1. Forward(t) /\ head' = head /\ tail' = tail /\ t \notin Producers
    BY <1>4 DEF TryPopCheck, Return, Goto, Forward, shared
  <2>2. CASE Signed(U(head) - loc[t]) <= 0
    <3>1. pc'[t] = "idle"
      BY <1>4, <2>2 DEF TryPopCheck, Return, Goto
    <3> QED
      BY <2>1, <3>1, ForwardStep DEF MayTry
  <2>3. CASE ~(Signed(U(head) - loc[t]) <= 0)
    <3>1. loc'[t] = loc[t] /\ loc[t] <= tail
      BY <1>4, <2>3 DEF TryPopCheck, TriesFresh
    <3>2. ASSUME loc[t] = tail PROVE head > tail
      <4>1. U(tail) = loc[t]
        BY <1>1, <3>2, UBelow, WrapType
      <4> QED
        BY <1>1, <1>2, <2>3, <4>1
    <3> QED
      BY <2>1, <3>1, <3>2, ForwardStep DEF MayTry
  <2> QED
    BY <2>2, <2>3
<1> QED
  BY <1>3, <1>4

(* All other steps.                                                        *)
LEMMA FreshStep ==
  ASSUME Inv, TriesFresh, SizeReadRight, WrapRoom, [Next]_vars PROVE TriesFresh'
<1> USE ThreadAssumption DEF Threads
<1>1. head \in Nat /\ tail \in Nat /\ U(head) <= head /\ U(tail) <= tail
  BY UBelow DEF Inv, TypeOK
<1>2. ASSUME NEW p \in Producers, NEW x \in Items, Push(p, x) \/ TryPush(p, x) PROVE TriesFresh'
  <2>1. Forward(p) /\ MayTry(p)
    BY <1>1, <1>2 DEF Inv, TypeOK, Push, TryPush, DrawPush, Goto, Forward, MayTry, shared
  <2> QED
    BY <2>1, ForwardStep
<1>3. ASSUME NEW p \in Producers, ProducerStep(p) PROVE TriesFresh'
  <2>1. CASE TryPushCheck(p)
    BY <2>1, TestStep
  <2>2. CASE TryPushWin(p) \/ TryPushLose(p)
    <3>1. Forward(p) /\ MayTry(p)
      BY <1>1, <2>2 DEF Inv, TypeOK, TryPushWin, TryPushLose, DrawPush, Goto, Forward,
         MayTry, shared
    <3> QED
      BY <3>1, ForwardStep
  <2>3. CASE AcquireEmpty(p) \/ Write(p) \/ Publish(p)
    <3>1. Forward(p) /\ MayTry(p)
      BY <1>1, <2>3 DEF Inv, TypeOK, AcquireEmpty, Write, Publish, Return, Goto,
         Forward, MayTry
    <3> QED
      BY <3>1, ForwardStep
  <2> QED
    BY <1>3, <2>1, <2>2, <2>3 DEF ProducerStep
<1>4. ASSUME NEW c \in Consumers, Pop(c) \/ TryPop(c) PROVE TriesFresh'
  <2>1. Forward(c) /\ MayTry(c)
    BY <1>1, <1>4 DEF Inv, TypeOK, Pop, TryPop, DrawPop, Goto, Forward, MayTry, shared
  <2> QED
    BY <2>1, ForwardStep
<1>5. ASSUME NEW c \in Consumers, ConsumerStep(c) PROVE TriesFresh'
  <2>1. CASE TryPopCheck(c)
    BY <2>1, TestStep
  <2>2. CASE TryPopWin(c) \/ TryPopLose(c)
    <3>1. Forward(c) /\ MayTry(c)
      BY <1>1, <2>2 DEF Inv, TypeOK, TryPopWin, TryPopLose, DrawPop, Goto, Forward,
         MayTry, shared
    <3> QED
      BY <3>1, ForwardStep
  <2>3. CASE AcquireStored(c) \/ Read(c) \/ Release(c)
    <3>1. Forward(c) /\ MayTry(c)
      BY <1>1, <2>3 DEF Inv, TypeOK, AcquireStored, Read, Release, Return, Goto,
         Forward, MayTry
    <3> QED
      BY <3>1, ForwardStep
  <2> QED
    BY <1>5, <2>1, <2>2, <2>3 DEF ConsumerStep
<1>6. CASE UNCHANGED vars
  BY <1>6 DEF vars, TriesFresh
<1> QED
  BY <1>2, <1>3, <1>4, <1>5, <1>6 DEF Next

(* try_push never draws a ticket on a full ring, nor try_pop on an empty   *)
(* one, while the counters do not wrap.  (A counter that moves by its      *)
(* whole range between the load and the compare_exchange is taken for one  *)
(* that has not moved.)                                                    *)
THEOREM TryRespectsBoundsHolds == ASSUME WrapRoom, NoWrap PROVE Spec => TryRespectsBounds
<1>1. Init => TriesFresh
  BY DEF Init, TriesFresh, Threads
<1>2. Inv /\ TriesFresh /\ SizeReadRight /\ [Next]_vars => TriesFresh'
  BY FreshStep
<1>3. ASSUME Inv, TriesFresh, NEW p \in Producers, TryPushWin(p) PROVE head - tail < Size
  <2>1. head \in Nat /\ head < Wrap
    BY <1>3, BoundAssumption, WrapType DEF TryPushWin, DrawPush, NoWrap, Inv, TypeOK
  <2>2. loc[p] = head
    BY <1>3, <2>1, UBelow DEF TryPushWin
  <2> QED
    BY <1>3, <2>2 DEF TriesFresh, TryPushWin
<1>4. ASSUME Inv, TriesFresh, NEW c \in Consumers, TryPopWin(c) PROVE head > tail
  <2>1. tail \in Nat /\ tail < Wrap
    BY <1>4, BoundAssumption, WrapType DEF TryPopWin, DrawPop, NoWrap, Inv, TypeOK
  <2>2. loc[c] = tail
    BY <1>4, <2>1, UBelow DEF TryPopWin
  <2> QED
    BY <1>4, <2>2 DEF TriesFresh, TryPopWin
<1>5. Inv /\ TriesFresh => [/\ \A p \in Producers : TryPushWin(p) => head - tail < Size
                            /\ \A c \in Consumers : TryPopWin(c) => head > tail]_vars
  BY <1>3, <1>4
<1> QED
  BY <1>1, <1>2, <1>5, InvHolds, SizeReadRightHolds, PTL DEF Spec, TryRespectsBounds
=============================================================================
