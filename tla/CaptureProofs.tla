---------------------------- MODULE CaptureProofs ----------------------------
(***************************************************************************)
(* Proofs about Capture: its types, all of its invariants, and that it     *)
(* implements Recorder, for any number of threads, writers, fat binaries   *)
(* and ring slots.                                                         *)
(*                                                                         *)
(* The layers, each an invariant that rests on the ones before it:         *)
(*   Shape     types, what a thread holds at which step, numbers of calls; *)
(*             with it Capture is a use of RingQueue, whose theorems are   *)
(*             then at hand for its queue (Ring);                          *)
(*   Alone     unless the program had threads before it recorded anything, *)
(*             one writer is started;                                      *)
(*   Awake     whoever adds to the queue still has the notify before it    *)
(*             that a writer about to wait depends on;                     *)
(*   Once      an event is in one place: a thread, the queue, a writer, a  *)
(*             table, or dropped;                                          *)
(*   Filed     ids, the rows of each table and the files they name;        *)
(*   Recording a sole writer inserts all it takes, within its transaction; *)
(*   Emptied   a sole writer that drains the queue leaves it empty;        *)
(*   Closed    events reach the tables in the order of the calls.          *)
(* On top of them RecordsAsPromised maps every step to one of Recorder.    *)
(* What a step does to the state is said once, pointwise, in the lemmas    *)
(* called ...Effect; the proof that a layer is kept cites those.           *)
(***************************************************************************)
EXTENDS Capture, FiniteSetTheorems, TLAPS

Ring == INSTANCE RingQueueProofs WITH
    Producers <- Threads, Consumers <- Writers, Items <- Event,
    MaxPush <- MaxCalls + MaxBundles * Cardinality(FatBins),
    MaxPop <- MaxCalls + MaxBundles * Cardinality(FatBins),
    lapped <- FALSE  \* the order of deliveries is not asked about here

(* Where a thread is says what it has in its hands.                        *)
Holding == {"assign", "push", "spawn", "mark", "reserve"}
Placed ==
    /\ \A t \in Threads :
        /\ (ev[t] # None) <=> (pc[t] \in Holding)
        /\ (hand[t] # None) <=> (pc[t] = "store")
        /\ (fat[t] # None) <=> (loader = t)
        /\ pc[t] = "bundle" => loader = t
        /\ loader = t => pc[t] \notin {"idle", "assign"}
    /\ \A w \in Writers :
        /\ (want[w] # -1) <=> (wpc[w] = "take")
        /\ (wev[w] # None) <=> (wpc[w] \in {"insert", "file", "detail"})
        /\ wpc[w] = "file" => wev[w].kind = "copy"
        /\ wpc[w] = "detail" => wev[w].kind \in {"detail", "copy"}

(* No event is from a call that has not been made.                         *)
Known ==
    /\ \A t \in Threads : ev[t] # None => ev[t].fx < calls
    /\ \A t \in Threads : hand[t] # None => hand[t].item.fx < calls
    /\ \A k \in Queue!Slots : slot[k] # None => slot[k].item.fx < calls
    /\ \A w \in Writers : wev[w] # None => wev[w].fx < calls
    /\ \A r \in tables.events \cup tables.details \cup tables.codes \cup dropped : r.fx < calls

Shape == TypeOK /\ Placed /\ Known

(* The groups of variables that a step leaves alone keep their types.      *)
LEMMA StateKept == ASSUME StateOK, UNCHANGED state PROVE StateOK'
  BY DEF StateOK, state
LEMMA ThreadKept == ASSUME ThreadOK, UNCHANGED thread PROVE ThreadOK'
  BY DEF ThreadOK, thread
LEMMA WriterKept == ASSUME WriterOK, UNCHANGED writer PROVE WriterOK'
  BY DEF WriterOK, writer
LEMMA DatabaseKept == ASSUME DatabaseOK, UNCHANGED <<database, calls>> PROVE DatabaseOK'
  BY DEF DatabaseOK, database
LEMMA HistoryKept == ASSUME HistoryOK, UNCHANGED history PROVE HistoryOK'
  BY DEF HistoryOK, history

(* A new call: what was said of the ones before is still true.             *)
LEMMA EffectType ==
  ASSUME HistoryOK, DatabaseOK, Effect, UNCHANGED <<database, dropped, missed, draining>>
  PROVE  HistoryOK' /\ DatabaseOK'
<1>1. calls \in Nat /\ calls' = calls + 1
  BY DEF HistoryOK, Effect
<1>2. 0 .. calls - 1 \subseteq 0 .. calls' - 1
  BY <1>1
<1>3. before' \subseteq (0 .. calls' - 1) \X (0 .. calls' - 1)
  BY <1>1, <1>2 DEF HistoryOK, Effect
<1>4. HistoryOK'
  BY <1>1, <1>3 DEF HistoryOK
<1>5. DatabaseOK'
  BY <1>1, <1>2 DEF DatabaseOK, database
<1> QED
  BY <1>4, <1>5

(* What a writer inserts, while it does.                                   *)
LEMMA InsertingType ==
  ASSUME Shape, NEW w \in Writers, wpc[w] \in {"insert", "file", "detail"}
  PROVE  /\ wev[w] \in Event \cup Garbage
         /\ wev[w].kind \in {"copy", "code"} => wev[w] \in Event /\ wev[w].fx \in 0 .. calls - 1
<1>1. wev[w] # None /\ wev[w] \in Event \cup Garbage
  BY DEF Shape, TypeOK, WriterOK, Placed
<1>2. wev[w].fx < calls /\ calls \in Nat
  BY <1>1 DEF Shape, TypeOK, HistoryOK, Known
<1> QED
  BY <1>1, <1>2 DEF Event, Garbage

(* A file that is written.                                                 *)
LEMMA WriteType ==
  ASSUME NEW e \in Event, e.fx \in 0 .. calls - 1, Write(e), UNCHANGED calls,
         \A f \in DOMAIN files : f.dir \in {"hostdata", "code"} /\ files[f] \in 0 .. calls - 1
  PROVE  \A f \in DOMAIN files' : f.dir \in {"hostdata", "code"} /\ files'[f] \in 0 .. calls' - 1
<1>1. FileOf(e).dir \in {"hostdata", "code"}
  BY DEF FileOf
<1>2. DOMAIN files' = DOMAIN files \cup {FileOf(e)}
  BY DEF Write
<1>3. \A f \in DOMAIN files' : files'[f] = IF f = FileOf(e) THEN e.fx ELSE files[f]
  BY DEF Write
<1> HIDE DEF Write
<1> QED
  BY <1>1, <1>2, <1>3

(* A step keeps the types of everything but the queue.                     *)
LEMMA TypeStep == ASSUME Shape, [Next]_vars, Queue!TypeOK' PROVE TypeOK'
<1>0. TypeOK /\ Placed
  BY DEF Shape
<1>t. /\ StateOK /\ ThreadOK /\ WriterOK /\ DatabaseOK /\ HistoryOK
      /\ dtor \in {"run", "notify", "close", "join", "destroyed"}
      /\ crashed \in BOOLEAN
  BY <1>0 DEF TypeOK
<1>k. /\ UNCHANGED state => StateOK'
      /\ UNCHANGED thread => ThreadOK'
      /\ UNCHANGED writer => WriterOK'
      /\ UNCHANGED <<database, calls>> => DatabaseOK'
      /\ UNCHANGED history => HistoryOK'
  BY <1>t, StateKept, ThreadKept, WriterKept, DatabaseKept, HistoryKept
<1> USE <1>t, <1>k DEF Goto, WGoto
<1>1. ASSUME Start PROVE TypeOK'
  <2>1. ThreadOK'
    BY <1>1 DEF Start, ThreadOK
  <2> QED
    BY <1>1, <2>1 DEF Start, TypeOK, state, thread, writer, database, history
<1>2. ASSUME NEW t \in Threads, NEW k \in CallKinds, Call(t, k) PROVE TypeOK'
  <2>1. [fx |-> calls, kind |-> k, id |-> -1, part |-> 0] \in Event
    BY KindAssumption DEF Event, Kinds, HistoryOK
  <2>2. ThreadOK'
    BY <1>2, <2>1 DEF Call, ThreadOK, ThreadPcs
  <2>3. HistoryOK' /\ DatabaseOK'
    BY <1>2, EffectType DEF Call
  <2> QED
    BY <1>2, <2>1, <2>2, <2>3 DEF Call, TypeOK, state, thread, writer, database, history
<1>3. ASSUME NEW t \in Threads, NEW f \in FatBins, Register(t, f) PROVE TypeOK'
  <2>1. ThreadOK'
    BY <1>3, CaptureBounds DEF Register, ThreadOK, ThreadPcs
  <2>2. StateOK'
    BY <1>3 DEF Register, StateOK
  <2> QED
    BY <1>3, <2>1, <2>2 DEF Register, TypeOK, state, thread, writer, database, history
<1>4. ASSUME NEW t \in Threads, AssignId(t) PROVE TypeOK'
  <2>1. ev[t] \in Event
    BY <1>4, <1>0 DEF AssignId, At, Placed, Holding, ThreadOK
  <2>2. [ev[t] EXCEPT !.id = curr_event] \in Event
    BY <2>1 DEF Event, StateOK
  <2>3. ThreadOK'
    BY <1>4, <2>2 DEF AssignId, ThreadOK, ThreadPcs
  <2>4. StateOK'
    BY <1>4 DEF AssignId, StateOK
  <2> QED
    BY <1>4, <2>1, <2>2, <2>3, <2>4 DEF AssignId, TypeOK, state, thread, writer,
       database, history
<1>5. ASSUME NEW t \in Threads, Bundle(t) PROVE TypeOK'
  <2>1. left[t] \in Nat /\ left[t] - 1 \in Nat
    BY <1>5 DEF Bundle, ThreadOK
  <2>2. [fx |-> calls, kind |-> "code", id |-> curr_event, part |-> left[t]] \in Event
    BY <2>1 DEF Event, Kinds, HistoryOK, StateOK
  <2>3. ThreadOK'
    BY <1>5, <2>1, <2>2 DEF Bundle, ThreadOK, ThreadPcs
  <2>4. HistoryOK' /\ DatabaseOK'
    BY <1>5, EffectType DEF Bundle, history
  <2> QED
    BY <1>5, <2>1, <2>2, <2>3, <2>4 DEF Bundle, TypeOK, state, thread, writer, database,
       history
<1>6. ASSUME NEW t \in Threads, Registered(t) PROVE TypeOK'
  <2>1. fat[t] \in FatBins
    BY <1>6, <1>0 DEF Registered, At, Placed, ThreadOK
  <2>2. ThreadOK'
    BY <1>6 DEF Registered, ThreadOK, ThreadPcs
  <2>3. StateOK'
    BY <1>6, <2>1 DEF Registered, StateOK
  <2> QED
    BY <1>6, <2>1, <2>2, <2>3 DEF Registered, TypeOK, state, thread, writer, database,
       history
<1>7. ASSUME NEW t \in Threads, Pushback(t) PROVE TypeOK'
  <2>1. ThreadOK'
    BY <1>7 DEF Pushback, Caller, ThreadOK, ThreadPcs
  <2> QED
    BY <1>7, <2>1 DEF Pushback, TypeOK, state, thread, writer, database, history
<1>8. ASSUME NEW t \in Threads, NEW w \in Writers, Spawn(t, w) PROVE TypeOK'
  <2>1. ThreadOK'
    BY <1>8 DEF Spawn, ThreadOK, ThreadPcs
  <2>2. WriterOK'
    BY <1>8 DEF Spawn, WriterOK, WriterPcs
  <2>3. StateOK'
    BY <1>8 DEF Spawn, StateOK
  <2> QED
    BY <1>8, <2>1, <2>2, <2>3 DEF Spawn, TypeOK, state, thread, writer, database, history
<1>9. ASSUME NEW t \in Threads, Mark(t) PROVE TypeOK'
  <2>1. ThreadOK'
    BY <1>9 DEF Mark, ThreadOK, ThreadPcs
  <2>2. StateOK'
    BY <1>9 DEF Mark, StateOK
  <2> QED
    BY <1>9, <2>1, <2>2 DEF Mark, TypeOK, state, thread, writer, database, history
<1>10. ASSUME NEW t \in Threads, Reserve(t) PROVE TypeOK'
  <2>1. ThreadOK'
    BY <1>10 DEF Reserve, ThreadOK, ThreadPcs
  <2> QED
    BY <1>10, <2>1 DEF Reserve, TypeOK, state, thread, writer, database, history
<1>11. ASSUME NEW t \in Threads, Store(t) PROVE TypeOK'
  <2>1. ThreadOK'
    BY <1>11 DEF Store, ThreadOK, ThreadPcs
  <2> QED
    BY <1>11, <2>1 DEF Store, TypeOK, state, thread, writer, database, history
<1>12. ASSUME NEW t \in Threads, Notify(t) PROVE TypeOK'
  <2>1. ThreadOK'
    BY <1>12 DEF Notify, Caller, ThreadOK, ThreadPcs
  <2>2. WriterOK'
    BY <1>12 DEF Notify, WakeAll, WriterOK, WriterPcs
  <2>3. HistoryOK'
    BY <1>12 DEF Notify, WakeAll, HistoryOK
  <2> QED
    BY <1>12, <2>1, <2>2, <2>3 DEF Notify, TypeOK, state, thread, writer, database, history
<1>13. ASSUME NEW w \in Writers, Prepare(w) PROVE TypeOK'
  <2>1. WriterOK'
    BY <1>13 DEF Prepare, WriterOK, WriterPcs, DrainPcs
  <2> QED
    BY <1>13, <2>1 DEF Prepare, TypeOK, state, thread, writer, database, history
<1>14. ASSUME NEW w \in Writers, Begin(w) PROVE TypeOK'
  <2>1. WriterOK'
    BY <1>14 DEF Begin, WriterOK, WriterPcs, DrainPcs
  <2>2. DatabaseOK'
    BY <1>14 DEF Begin, DatabaseOK, StateOK, history
  <2> QED
    BY <1>14, <2>1, <2>2 DEF Begin, TypeOK, state, thread, writer, database, history
<1>15. ASSUME NEW w \in Writers, Outer(w) PROVE TypeOK'
  <2>1. WriterOK'
    BY <1>15 DEF Outer, WriterOK, WriterPcs, DrainPcs
  <2> QED
    BY <1>15, <2>1 DEF Outer, TypeOK, state, thread, writer, database, history
<1>16. ASSUME NEW w \in Writers, Inner(w) PROVE TypeOK'
  <2>1. WriterOK'
    BY <1>16 DEF Inner, WriterOK, WriterPcs, DrainPcs
  <2> QED
    BY <1>16, <2>1 DEF Inner, TypeOK, state, thread, writer, database, history
<1>17. ASSUME NEW w \in Writers, PopClaim(w) PROVE TypeOK'
  <2>1. WriterOK'
    BY <1>17 DEF PopClaim, WriterOK, WriterPcs, DrainPcs
  <2> QED
    BY <1>17, <2>1 DEF PopClaim, TypeOK, state, thread, writer, database, history
<1>18. ASSUME NEW w \in Writers, PopTake(w) PROVE TypeOK'
  <2>1. want[w] \in Nat
    BY <1>18, <1>0 DEF PopTake, TypeOK, Queue!TypeOK, Queue!Take, Queue!NoTicket
  <2>2. slot[Queue!SlotOf(want[w])] \in Queue!Element
    BY <1>18, <1>0, <2>1, RingAssumption DEF PopTake, TypeOK, Queue!TypeOK, Queue!Take,
       Queue!SlotOf, Queue!Slots
  <2>3. slot[Queue!SlotOf(want[w])].item \in Event
    BY <2>2 DEF Queue!Element
  <2>4. WriterOK'
    BY <1>18, <2>3 DEF PopTake, WriterOK, WriterPcs, DrainPcs
  <2> QED
    BY <1>18, <2>1, <2>2, <2>3, <2>4 DEF PopTake, TypeOK, state, thread, writer,
       database, history
<1>19. ASSUME NEW w \in Writers, PopNothing(w) PROVE TypeOK'
  <2>1. WriterOK'
    BY <1>19 DEF PopNothing, WriterOK, WriterPcs, DrainPcs
  <2> QED
    BY <1>19, <2>1 DEF PopNothing, TypeOK, state, thread, writer, database, history
<1>20. ASSUME NEW w \in Writers, InsertEvent(w) PROVE TypeOK'
  <2>1. wev[w] \in Event \cup Garbage
    BY <1>20, InsertingType DEF InsertEvent
  <2>2. [tables EXCEPT !.events = @ \cup {wev[w]}] \in Rows
    BY <2>1 DEF Rows, DatabaseOK
  <2>3. WriterOK'
    BY <1>20 DEF InsertEvent, Finish, WriterOK, WriterPcs, DrainPcs
  <2>4. DatabaseOK'
    BY <1>20, <2>2 DEF InsertEvent, Execute, DatabaseOK
  <2>5. HistoryOK'
    BY <1>20, <2>1 DEF InsertEvent, HistoryOK
  <2> QED
    BY <1>20, <2>1, <2>2, <2>3, <2>4, <2>5 DEF InsertEvent, TypeOK, state, thread,
       writer, database, history
<1>21. ASSUME NEW w \in Writers, WriteHostData(w) PROVE TypeOK'
  <2>1. wev[w] \in Event /\ wev[w].fx \in 0 .. calls - 1
    BY <1>21, <1>0, InsertingType DEF WriteHostData, Placed
  <2>2. DatabaseOK'
    BY <1>21, <2>1, WriteType DEF WriteHostData, DatabaseOK, history
  <2>3. WriterOK'
    BY <1>21 DEF WriteHostData, WriterOK, WriterPcs, DrainPcs
  <2> QED
    BY <1>21, <2>1, <2>2, <2>3 DEF WriteHostData, TypeOK, state, thread, writer,
       database, history
<1>22. ASSUME NEW w \in Writers, InsertDetail(w) PROVE TypeOK'
  <2>1. wev[w] \in Event \cup Garbage
    BY <1>22, InsertingType DEF InsertDetail
  <2>2. [tables EXCEPT !.details = @ \cup {wev[w]}] \in Rows
    BY <2>1 DEF Rows, DatabaseOK
  <2>3. WriterOK'
    BY <1>22 DEF InsertDetail, Finish, WriterOK, WriterPcs, DrainPcs
  <2>4. DatabaseOK'
    BY <1>22, <2>2 DEF InsertDetail, Execute, DatabaseOK, history
  <2> QED
    BY <1>22, <2>1, <2>2, <2>3, <2>4 DEF InsertDetail, TypeOK, state, thread, writer,
       database, history
<1>23. ASSUME NEW w \in Writers, InsertCode(w) PROVE TypeOK'
  <2>1. wev[w] \in Event /\ wev[w].fx \in 0 .. calls - 1
    BY <1>23, InsertingType DEF InsertCode
  <2>2. \A f \in DOMAIN files' : f.dir \in {"hostdata", "code"} /\ files'[f] \in 0 .. calls' - 1
    BY <1>23, <2>1, WriteType DEF InsertCode, DatabaseOK
  <2>3. [tables EXCEPT !.codes = @ \cup {wev[w]}] \in Rows
    BY <2>1 DEF Rows, DatabaseOK
  <2>4. tables' \in Rows /\ disk' \in Rows
    BY <1>23, <2>3 DEF InsertCode, Execute, DatabaseOK
  <2>5. DatabaseOK'
    BY <1>23, <2>2, <2>4 DEF InsertCode, DatabaseOK
  <2>6. WriterOK'
    BY <1>23 DEF InsertCode, Finish, WriterOK, WriterPcs, DrainPcs
  <2>7. HistoryOK'
    BY <1>23, <2>1 DEF InsertCode, HistoryOK
  <2> QED
    BY <1>23, <2>1, <2>2, <2>3, <2>4, <2>5, <2>6, <2>7 DEF InsertCode, TypeOK, state,
       thread, writer, database, history
<1>24. ASSUME NEW w \in Writers, CheckEmpty(w) PROVE TypeOK'
  <2>1. WriterOK'
    BY <1>24 DEF CheckEmpty, WriterOK, WriterPcs, DrainPcs
  <2> QED
    BY <1>24, <2>1 DEF CheckEmpty, TypeOK, state, thread, writer, database, history
<1>25. ASSUME NEW w \in Writers, CheckLoaded(w) PROVE TypeOK'
  <2>1. WriterOK'
    BY <1>25 DEF CheckLoaded, WriterOK, WriterPcs, DrainPcs
  <2>2. HistoryOK'
    BY <1>25 DEF CheckLoaded, HistoryOK
  <2> QED
    BY <1>25, <2>1, <2>2 DEF CheckLoaded, TypeOK, state, thread, writer, database, history
<1>26. ASSUME NEW w \in Writers, Enter(w) PROVE TypeOK'
  <2>1. WriterOK'
    BY <1>26 DEF Enter, WriterOK, WriterPcs, DrainPcs
  <2> QED
    BY <1>26, <2>1 DEF Enter, TypeOK, state, thread, writer, database, history
<1>27. ASSUME NEW w \in Writers, SpuriousWake(w) PROVE TypeOK'
  <2>1. WriterOK'
    BY <1>27 DEF SpuriousWake, WriterOK, WriterPcs, DrainPcs
  <2>2. HistoryOK'
    BY <1>27 DEF SpuriousWake, HistoryOK
  <2> QED
    BY <1>27, <2>1, <2>2 DEF SpuriousWake, TypeOK, state, thread, writer, database, history
<1>28. ASSUME NEW w \in Writers, End(w) PROVE TypeOK'
  <2>1. WriterOK'
    BY <1>28 DEF End, WriterOK, WriterPcs, DrainPcs
  <2>2. DatabaseOK'
    BY <1>28 DEF End, DatabaseOK, history
  <2> QED
    BY <1>28, <2>1, <2>2 DEF End, TypeOK, state, thread, writer, database, history
<1>29. ASSUME Exit PROVE TypeOK'
  <2>1. StateOK'
    BY <1>29 DEF Exit, StateOK
  <2>2. HistoryOK'
    BY <1>29 DEF Exit, HistoryOK, was_empty
  <2> QED
    BY <1>29, <2>1, <2>2 DEF Exit, TypeOK, state, thread, writer, database, history
<1>30. ASSUME ExitNotify PROVE TypeOK'
  <2>1. WriterOK'
    BY <1>30 DEF ExitNotify, WakeAll, WriterOK, WriterPcs
  <2>2. HistoryOK'
    BY <1>30 DEF ExitNotify, WakeAll, HistoryOK
  <2> QED
    BY <1>30, <2>1, <2>2 DEF ExitNotify, TypeOK, state, thread, writer, database, history
<1>31. ASSUME ExitClose PROVE TypeOK'
  <2>1. StateOK'
    BY <1>31 DEF ExitClose, StateOK
  <2> QED
    BY <1>31, <2>1 DEF ExitClose, TypeOK, state, thread, writer, database, history
<1>32. ASSUME ExitJoin PROVE TypeOK'
  <2> QED
    BY <1>32 DEF ExitJoin, TypeOK, state, thread, writer, database, history
<1>33. CASE UNCHANGED vars
  BY <1>33 DEF vars, TypeOK, state, thread, writer, database, history
<1> QED
  BY <1>1, <1>2, <1>3, <1>4, <1>5, <1>6, <1>7, <1>8, <1>9, <1>10, <1>11, <1>12, <1>13,
     <1>14, <1>15, <1>16, <1>17, <1>18, <1>19, <1>20, <1>21, <1>22, <1>23, <1>24, <1>25,
     <1>26, <1>27, <1>28, <1>29, <1>30, <1>31, <1>32, <1>33 DEF Next, Program, PushStep,
     WriterStep, ExitStep

(* The queue's constants are as RingQueue wants them.                      *)
LEMMA RingFits == /\ Size \in Nat \ {0}
                  /\ MaxCalls + MaxBundles * Cardinality(FatBins) \in Nat
                  /\ None \notin Ring!Element
<1>1. Cardinality(FatBins) \in Nat
  BY RingAssumption, FS_CardinalityType
<1>2. Ring!Element = Queue!Element
  BY DEF Ring!Element, Queue!Element
<1> QED
  BY <1>1, <1>2, RingAssumption, CaptureBounds, NoneAssumption

(* The instance counts as this module does.                                *)
LEMMA SameCount == ASSUME NEW S PROVE Ring!Cardinality(S) = Cardinality(S)
BY DEF Ring!Cardinality, Cardinality

(* A set whose members are all equal has at most one.                      *)
LEMMA AtMostOne ==
  ASSUME NEW S, \A x, y \in S : x = y
  PROVE  Cardinality(S) = IF S = {} THEN 0 ELSE 1
<1>1. Ring!Cardinality(S) = IF S = {} THEN 0 ELSE 1
  BY RingFits, Ring!AtMostOne
<1> QED
  BY <1>1, SameCount

(* What the threads and the writers do to the queue are steps of RingQueue. *)
LEMMA QueueStep == ASSUME Shape, [Next]_vars PROVE [Queue!Next]_(Queue!vars)
<1>1. ASSUME NEW t \in Threads, Reserve(t) PROVE Queue!Next
  <2>1. ev[t] \in Event
    BY <1>1 DEF Reserve, At, Shape, TypeOK, ThreadOK, Placed, Holding
  <2> QED
    BY <1>1, <2>1 DEF Reserve, Queue!Next
<1>2. ASSUME NEW t \in Threads, Store(t) PROVE Queue!Next
  BY <1>2 DEF Store, Queue!Next
<1>3. ASSUME NEW w \in Writers, PopClaim(w) \/ PopTake(w) PROVE Queue!Next
  BY <1>3 DEF PopClaim, PopTake, Queue!Next
<1>4. CASE UNCHANGED queue
  BY <1>4 DEF queue, Queue!vars
<1> SUFFICES ASSUME Next, ~UNCHANGED queue PROVE Queue!Next
  BY <1>4 DEF vars
<1>5. \/ \E t \in Threads : Reserve(t) \/ Store(t)
      \/ \E w \in Writers : PopClaim(w) \/ PopTake(w)
  BY DEF Next, Program, PushStep, WriterStep, ExitStep,
         Start, Exit, ExitNotify, ExitClose, ExitJoin, Call, Register, AssignId, Bundle, Registered,
         Pushback, Spawn, Mark, Notify, Prepare, Begin, Outer, Inner, PopNothing, InsertEvent,
         WriteHostData, InsertDetail, InsertCode, CheckEmpty, CheckLoaded, Enter, End, SpuriousWake
<1> QED
  BY <1>1, <1>2, <1>3, <1>5

(* So the queue keeps the types of RingQueue.                              *)
LEMMA QueueType == ASSUME Shape, [Next]_vars PROVE Queue!TypeOK'
<1>1. Queue!TypeOK /\ [Queue!Next]_(Queue!vars)
  BY QueueStep DEF Shape, TypeOK
<1>2. /\ Queue!TypeOK = Ring!TypeOK
      /\ [Queue!Next]_(Queue!vars) = [Ring!Next]_(Ring!vars)
  BY DEF Queue!TypeOK, Ring!TypeOK, Queue!Next, Ring!Next, Queue!vars, Ring!vars,
         Queue!Slots, Ring!Slots, Queue!Element, Ring!Element, Queue!NoTicket, Ring!NoTicket,
         Queue!Delivery, Ring!Delivery, Queue!Reserve, Ring!Reserve, Queue!Store, Ring!Store,
         Queue!Claim, Ring!Claim, Queue!Take, Ring!Take, Queue!SlotOf, Ring!SlotOf
<1>3. Ring!TypeOK'
  BY <1>1, <1>2, RingFits, Ring!TypeStep
<1> QED
  BY <1>3 DEF Queue!TypeOK, Ring!TypeOK, Queue!Slots, Ring!Slots, Queue!Element,
     Ring!Element,
         Queue!NoTicket, Ring!NoTicket, Queue!Delivery, Ring!Delivery

-----------------------------------------------------------------------------
(* What the steps that move an event do, thread by thread: the proofs      *)
(* below look at these and not at the actions.                             *)

(* A call makes the event of its thread.                                   *)
LEMMA CallEffect ==
  ASSUME Shape, NEW t \in Threads, NEW k \in CallKinds, Call(t, k)
  PROVE  /\ started # "no" /\ dtor = "run" /\ pc[t] = "idle" /\ pc'[t] = "assign"
         /\ ev[t] = None /\ ev'[t] \in Event /\ ev'[t] # None
         /\ ev'[t].fx = calls /\ ev'[t].kind \in {"plain", "detail", "copy"} /\ ev'[t].id = -1
         /\ \A u \in Threads \ {t} : ev'[u] = ev[u] /\ pc'[u] = pc[u]
         /\ calls \in Nat /\ calls' = calls + 1
         /\ UNCHANGED <<state, queue, started, fat, left, loader, writer, database, dtor, crashed,
                        dropped, missed, draining>>
<1> DEFINE e == [fx |-> calls, kind |-> k, id |-> -1, part |-> 0]
<1>1. e \in Event /\ e # None /\ calls \in Nat
  BY KindAssumption, NoneAssumption DEF Event, Kinds, Shape, TypeOK, HistoryOK
<1>2. e.fx = calls /\ e.kind \in {"plain", "detail", "copy"} /\ e.id = -1
  BY KindAssumption
<1>3. ev' = [ev EXCEPT ![t] = e]
  BY DEF Call
<1> HIDE DEF e
<1>4. ev'[t] = e /\ \A u \in Threads \ {t} : ev'[u] = ev[u]
  BY <1>3 DEF Shape, TypeOK, ThreadOK
<1>5. ev[t] = None /\ pc[t] = "idle"
  BY DEF Call, At, Shape, Placed, Holding
<1> QED
  BY <1>1, <1>2, <1>4, <1>5 DEF Call, Goto, Effect, Shape, TypeOK, ThreadOK

(* A bundle makes one too, with the id that is next, unless it is          *)
(* instrumented.                                                           *)
LEMMA BundleEffect ==
  ASSUME Shape, NEW t \in Threads, Bundle(t)
  PROVE  /\ pc[t] = "bundle" /\ loader = t /\ ev[t] = None
         /\ left[t] \in Nat /\ left[t] > 0 /\ left'[t] = left[t] - 1
         /\ \A u \in Threads \ {t} : left'[u] = left[u] /\ ev'[u] = ev[u] /\ pc'[u] = pc[u]
         /\ calls \in Nat
         /\ UNCHANGED <<state, queue, started, fat, loader, writer, database, dtor, crashed,
                        dropped, missed, draining>>
         /\ \/ mode = "binint" /\ UNCHANGED <<pc, ev, calls, before>>
            \/ /\ mode # "binint"
               /\ ev'[t] \in Event /\ ev'[t] # None /\ pc'[t] = "push"
               /\ ev'[t].fx = calls /\ ev'[t].kind = "code"
               /\ ev'[t].id = curr_event /\ ev'[t].part = left[t]
               /\ calls' = calls + 1
<1> DEFINE e == [fx |-> calls, kind |-> "code", id |-> curr_event, part |-> left[t]]
<1>1. pc[t] = "bundle" /\ loader = t /\ ev[t] = None /\ left[t] \in Nat /\ left[t] > 0
  BY DEF Bundle, At, Shape, TypeOK, ThreadOK, Placed, Holding
<1>2. calls \in Nat /\ left'[t] = left[t] - 1 /\ \A u \in Threads \ {t} : left'[u] = left[u]
  BY DEF Bundle, Shape, TypeOK, ThreadOK, HistoryOK
<1>3. e \in Event /\ e # None
  BY <1>1, <1>2, NoneAssumption DEF Event, Kinds, Shape, TypeOK, StateOK
<1>4. CASE mode = "binint"
  BY <1>1, <1>2, <1>4 DEF Bundle
<1>5. CASE mode # "binint"
  <2>1. ev' = [ev EXCEPT ![t] = e]
    BY <1>5 DEF Bundle
  <2>2. e.fx = calls /\ e.kind = "code" /\ e.id = curr_event /\ e.part = left[t]
    OBVIOUS
  <2> HIDE DEF e
  <2>3. ev'[t] = e /\ \A u \in Threads \ {t} : ev'[u] = ev[u]
    BY <2>1 DEF Shape, TypeOK, ThreadOK
  <2>4. pc'[t] = "push" /\ \A u \in Threads \ {t} : pc'[u] = pc[u]
    BY <1>5 DEF Bundle, Goto, Shape, TypeOK, ThreadOK
  <2> QED
    BY <1>1, <1>2, <1>3, <1>5, <2>2, <2>3, <2>4 DEF Bundle, Effect
<1> QED
  BY <1>4, <1>5

(* The event of a call gets its id.                                        *)
LEMMA AssignEffect ==
  ASSUME Shape, NEW t \in Threads, AssignId(t)
  PROVE  /\ pc[t] = "assign" /\ pc'[t] = "push"
         /\ ev[t] \in Event /\ ev[t] # None /\ ev'[t] \in Event /\ ev'[t] # None
         /\ ev'[t].fx = ev[t].fx /\ ev'[t].kind = ev[t].kind
         /\ ev'[t].id = curr_event
         /\ curr_event \in Nat /\ curr_event' = curr_event + 1
         /\ \A u \in Threads \ {t} : ev'[u] = ev[u] /\ pc'[u] = pc[u]
         /\ UNCHANGED <<mode, library_loaded, event_db, db_writer_thread, prepared, handled, queue,
                        started, fat, left, loader, writer, database, dtor, crashed, history>>
<1>1. pc[t] = "assign" /\ ev[t] \in Event /\ ev[t] # None /\ curr_event \in Nat
  BY DEF AssignId, At, Shape, TypeOK, ThreadOK, StateOK, Placed, Holding
<1> DEFINE e == [ev[t] EXCEPT !.id = curr_event]
<1>2. /\ e \in Event /\ e # None
      /\ e.fx = ev[t].fx /\ e.kind = ev[t].kind /\ e.id = curr_event
  BY <1>1, NoneAssumption DEF Event
<1>3. ev' = [ev EXCEPT ![t] = e]
  BY DEF AssignId
<1> HIDE DEF e
<1>4. ev'[t] = e /\ \A u \in Threads \ {t} : ev'[u] = ev[u]
  BY <1>3 DEF Shape, TypeOK, ThreadOK
<1>5. pc'[t] = "push" /\ \A u \in Threads \ {t} : pc'[u] = pc[u]
  BY DEF AssignId, Goto, Shape, TypeOK, ThreadOK
<1> QED
  BY <1>1, <1>2, <1>4, <1>5 DEF AssignId

(* Its push draws a ticket for it.                                         *)
LEMMA ReserveEffect ==
  ASSUME Shape, NEW t \in Threads, Reserve(t)
  PROVE  /\ pc[t] = "reserve" /\ pc'[t] = "store"
         /\ ev[t] \in Event /\ ev[t] # None /\ ev'[t] = None
         /\ hand[t] = None /\ hand'[t] # None /\ hand'[t].item = ev[t] /\ hand'[t].ticket = head
         /\ \A u \in Threads \ {t} : ev'[u] = ev[u] /\ pc'[u] = pc[u] /\ hand'[u] = hand[u]
         /\ head \in Nat /\ head' = head + 1
         /\ UNCHANGED <<tail, slot, want, out, state, started, fat, left, loader, writer, database,
                        dtor, crashed, history>>
<1>1. pc[t] = "reserve" /\ ev[t] \in Event /\ ev[t] # None
  BY DEF Reserve, At, Shape, TypeOK, ThreadOK, Placed, Holding
<1> DEFINE e == [ticket |-> head, item |-> ev[t]]
<1>2. head \in Nat /\ hand \in [Threads -> Queue!Element \cup {None}]
  BY DEF Shape, TypeOK, Queue!TypeOK
<1>3. e \in Queue!Element /\ e # None /\ e.ticket = head /\ e.item = ev[t]
  BY <1>1, <1>2, NoneAssumption DEF Queue!Element
<1>4. hand[t] = None /\ hand' = [hand EXCEPT ![t] = e]
  BY DEF Reserve, Queue!Reserve
<1> HIDE DEF e
<1>5. hand'[t] = e /\ \A u \in Threads \ {t} : hand'[u] = hand[u]
  BY <1>2, <1>4
<1>6. ev'[t] = None /\ pc'[t] = "store"
      /\ \A u \in Threads \ {t} : ev'[u] = ev[u] /\ pc'[u] = pc[u]
  BY DEF Reserve, Goto, Shape, TypeOK, ThreadOK
<1> QED
  BY <1>1, <1>2, <1>3, <1>4, <1>5, <1>6 DEF Reserve, Queue!Reserve

(* Its element goes into its slot.                                         *)
LEMMA StoreEffect ==
  ASSUME Shape, NEW t \in Threads, Store(t)
  PROVE  \E k \in Queue!Slots :
         /\ pc[t] = "store" /\ pc'[t] = "notify"
         /\ hand[t] # None /\ hand[t].item \in Event /\ hand'[t] = None
         /\ slot[k] = None /\ slot'[k] = hand[t]
         /\ \A j \in Queue!Slots \ {k} : slot'[j] = slot[j]
         /\ \A u \in Threads \ {t} : hand'[u] = hand[u] /\ pc'[u] = pc[u]
         /\ UNCHANGED <<head, tail, want, out, state, started, ev, fat, left, loader, writer,
                        database, dtor, crashed, history>>
<1>1. /\ hand \in [Threads -> Queue!Element \cup {None}]
      /\ slot \in [Queue!Slots -> Queue!Element \cup {None}]
  BY DEF Shape, TypeOK, Queue!TypeOK
<1>2. hand[t] # None /\ hand[t] \in Queue!Element
  BY <1>1 DEF Store, Queue!Store
<1>3. hand[t].ticket \in Nat /\ hand[t].item \in Event
  BY <1>2 DEF Queue!Element
<1> DEFINE k == Queue!SlotOf(hand[t].ticket)
<1>4. k \in Queue!Slots
  BY <1>3, RingAssumption DEF Queue!SlotOf, Queue!Slots
<1>5. slot[k] = None /\ slot' = [slot EXCEPT ![k] = hand[t]] /\ hand' = [hand EXCEPT ![t] = None]
  BY DEF Store, Queue!Store
<1> HIDE DEF k
<1>6. /\ slot'[k] = hand[t] /\ \A j \in Queue!Slots \ {k} : slot'[j] = slot[j]
      /\ hand'[t] = None /\ \A u \in Threads \ {t} : hand'[u] = hand[u]
  BY <1>1, <1>4, <1>5
<1>7. pc[t] = "store" /\ pc'[t] = "notify" /\ \A u \in Threads \ {t} : pc'[u] = pc[u]
  BY DEF Store, At, Goto, Shape, TypeOK, ThreadOK
<1> WITNESS k \in Queue!Slots
<1> QED
  BY <1>2, <1>3, <1>5, <1>6, <1>7 DEF Store, Queue!Store

(* A writer takes the element of its slot.                                 *)
LEMMA TakeEffect ==
  ASSUME Shape, NEW w \in Writers, PopTake(w)
  PROVE  \E k \in Queue!Slots :
         /\ wpc[w] = "take" /\ wpc'[w] = "insert" /\ wev[w] = None
         /\ slot[k] # None /\ slot[k].item \in Event /\ slot[k].item # None /\ slot'[k] = None
         /\ wev'[w] = slot[k].item
         /\ want[w] # -1 /\ want'[w] = -1
         /\ \A j \in Queue!Slots \ {k} : slot'[j] = slot[j]
         /\ \A u \in Writers \ {w} : wev'[u] = wev[u] /\ wpc'[u] = wpc[u] /\ want'[u] = want[u]
         /\ UNCHANGED <<head, tail, hand, state, thread, stmts, database, dtor, crashed, history>>
<1>1. /\ want \in [Writers -> Nat \cup {-1}]
      /\ slot \in [Queue!Slots -> Queue!Element \cup {None}]
  BY DEF Shape, TypeOK, Queue!TypeOK, Queue!NoTicket
<1>2. want[w] # -1 /\ want[w] \in Nat
  BY <1>1 DEF PopTake, Queue!Take, Queue!NoTicket
<1> DEFINE k == Queue!SlotOf(want[w])
<1>3. k \in Queue!Slots
  BY <1>2, RingAssumption DEF Queue!SlotOf, Queue!Slots
<1>4. /\ slot[k] # None /\ slot' = [slot EXCEPT ![k] = None] /\ want' = [want EXCEPT ![w] = -1]
      /\ wev' = [wev EXCEPT ![w] = slot[k].item]
  BY DEF PopTake, Queue!Take, Queue!NoTicket
<1> HIDE DEF k
<1>5. slot[k].item \in Event /\ slot[k].item # None
  BY <1>1, <1>3, <1>4, NoneAssumption DEF Queue!Element
<1>6. /\ slot'[k] = None /\ \A j \in Queue!Slots \ {k} : slot'[j] = slot[j]
      /\ want'[w] = -1 /\ \A u \in Writers \ {w} : want'[u] = want[u]
  BY <1>1, <1>3, <1>4
<1>7. wev'[w] = slot[k].item /\ \A u \in Writers \ {w} : wev'[u] = wev[u]
  BY <1>4 DEF Shape, TypeOK, WriterOK
<1>8. wpc[w] = "take" /\ wpc'[w] = "insert" /\ \A u \in Writers \ {w} : wpc'[u] = wpc[u]
  BY DEF PopTake, WGoto, Shape, TypeOK, WriterOK
<1>9. wev[w] = None
  BY <1>8 DEF Shape, Placed
<1> WITNESS k \in Queue!Slots
<1> QED
  BY <1>2, <1>4, <1>5, <1>6, <1>7, <1>8, <1>9 DEF PopTake, Queue!Take

(* ... or, when its try_pop fails, something uninitialized.                *)
LEMMA NothingEffect ==
  ASSUME Shape, NEW w \in Writers, PopNothing(w)
  PROVE  /\ wpc[w] = "pop" /\ wpc'[w] = "insert" /\ was_empty
         /\ wev[w] = None /\ wev'[w] \in Garbage /\ wev'[w] # None
         /\ wev'[w].fx = -1 /\ wev'[w].id = -1 /\ wev'[w].kind \in {"plain", "detail"}
         /\ \A u \in Writers \ {w} : wev'[u] = wev[u] /\ wpc'[u] = wpc[u]
         /\ UNCHANGED <<state, queue, thread, stmts, database, dtor, history>>
<1>1. wpc[w] = "pop" /\ wpc'[w] = "insert" /\ \A u \in Writers \ {w} : wpc'[u] = wpc[u]
  BY DEF PopNothing, WGoto, Shape, TypeOK, WriterOK
<1>2. wev[w] = None
  BY <1>1 DEF Shape, Placed
<1>3. PICK g \in Garbage : wev' = [wev EXCEPT ![w] = g]
  BY DEF PopNothing
<1>4. g # None /\ g.fx = -1 /\ g.id = -1 /\ g.kind \in {"plain", "detail"}
  BY NoneAssumption DEF Garbage
<1>5. wev'[w] = g /\ \A u \in Writers \ {w} : wev'[u] = wev[u]
  BY <1>3 DEF Shape, TypeOK, WriterOK
<1> QED
  BY <1>1, <1>2, <1>3, <1>4, <1>5 DEF PopNothing

(* insert_event: a row, or a failure.                                      *)
LEMMA InsertEventEffect ==
  ASSUME Shape, NEW w \in Writers, InsertEvent(w)
  PROVE  /\ wpc[w] = "insert" /\ wev[w] # None /\ wev[w] \in Event \cup Garbage
         /\ wev[w].kind # "code"
         /\ \/ /\ Usable(w) /\ FreshKey(wev[w])
               /\ tables'.events = tables.events \cup {wev[w]}
               /\ tables'.details = tables.details /\ tables'.codes = tables.codes
               /\ disk' = (IF txn THEN disk ELSE tables')
               /\ UNCHANGED dropped
            \/ /\ ~(Usable(w) /\ FreshKey(wev[w]))
               /\ dropped' = dropped \cup {wev[w]}
               /\ UNCHANGED <<tables, disk>>
         /\ \/ wev[w].kind = "plain" /\ wpc'[w] = "inner" /\ wev'[w] = None
            \/ wev[w].kind = "copy" /\ wpc'[w] = "file" /\ wev'[w] = wev[w]
            \/ wev[w].kind = "detail" /\ wpc'[w] = "detail" /\ wev'[w] = wev[w]
         /\ \A u \in Writers \ {w} : wev'[u] = wev[u] /\ wpc'[u] = wpc[u]
         /\ UNCHANGED <<state, queue, thread, stmts, txn, files, dtor, crashed, calls, before,
                        missed, draining>>
<1>1. wpc[w] = "insert" /\ wev[w] # None /\ wev[w] \in Event \cup Garbage
  BY DEF InsertEvent, Shape, TypeOK, WriterOK, Placed
<1>2. wev[w].kind \in {"plain", "copy", "detail"}
  BY <1>1 DEF InsertEvent, Event, Kinds, Garbage
<1>3. tables \in Rows
  BY DEF Shape, TypeOK, DatabaseOK
<1>4. \A u \in Writers \ {w} : wev'[u] = wev[u] /\ wpc'[u] = wpc[u]
  BY DEF InsertEvent, Finish, WGoto, Shape, TypeOK, WriterOK
<1>5. \/ wev[w].kind = "plain" /\ wpc'[w] = "inner" /\ wev'[w] = None
      \/ wev[w].kind = "copy" /\ wpc'[w] = "file" /\ wev'[w] = wev[w]
      \/ wev[w].kind = "detail" /\ wpc'[w] = "detail" /\ wev'[w] = wev[w]
  BY <1>2 DEF InsertEvent, Finish, WGoto, Shape, TypeOK, WriterOK
<1>6. CASE Usable(w) /\ FreshKey(wev[w])
  <2>1. tables' = [tables EXCEPT !.events = @ \cup {wev[w]}] /\ UNCHANGED dropped
        /\ disk' = IF txn THEN disk ELSE tables'
    BY <1>6 DEF InsertEvent, Execute
  <2>2. /\ tables'.events = tables.events \cup {wev[w]}
        /\ tables'.details = tables.details /\ tables'.codes = tables.codes
    BY <1>3, <2>1 DEF Rows
  <2> QED
    BY <1>1, <1>2, <1>4, <1>5, <1>6, <2>1, <2>2 DEF InsertEvent
<1>7. CASE ~(Usable(w) /\ FreshKey(wev[w]))
  BY <1>1, <1>2, <1>4, <1>5, <1>7 DEF InsertEvent
<1> QED
  BY <1>6, <1>7

(* insert_malloc and its like.                                             *)
LEMMA InsertDetailEffect ==
  ASSUME Shape, NEW w \in Writers, InsertDetail(w)
  PROVE  /\ wpc[w] = "detail" /\ wpc'[w] = "inner"
         /\ wev[w] # None /\ wev[w] \in Event \cup Garbage /\ wev'[w] = None
         /\ wev[w].kind \in {"detail", "copy"}
         /\ \/ /\ Usable(w) /\ \A r \in tables.details : r.id # wev[w].id
               /\ tables'.details = tables.details \cup {wev[w]}
               /\ tables'.events = tables.events /\ tables'.codes = tables.codes
               /\ disk' = (IF txn THEN disk ELSE tables')
            \/ /\ ~(Usable(w) /\ \A r \in tables.details : r.id # wev[w].id)
               /\ UNCHANGED <<tables, disk>>
         /\ \A u \in Writers \ {w} : wev'[u] = wev[u] /\ wpc'[u] = wpc[u]
         /\ UNCHANGED <<state, queue, thread, stmts, txn, files, dtor, crashed, history>>
<1>1. /\ wpc[w] = "detail" /\ wev[w] # None /\ wev[w] \in Event \cup Garbage
      /\ wev[w].kind \in {"detail", "copy"}
  BY DEF InsertDetail, Shape, TypeOK, WriterOK, Placed
<1>2. tables \in Rows
  BY DEF Shape, TypeOK, DatabaseOK
<1>3. /\ wpc'[w] = "inner" /\ wev'[w] = None
      /\ \A u \in Writers \ {w} : wev'[u] = wev[u] /\ wpc'[u] = wpc[u]
  BY DEF InsertDetail, Finish, WGoto, Shape, TypeOK, WriterOK
<1>4. CASE Usable(w) /\ \A r \in tables.details : r.id # wev[w].id
  <2>1. tables' = [tables EXCEPT !.details = @ \cup {wev[w]}]
        /\ disk' = IF txn THEN disk ELSE tables'
    BY <1>4 DEF InsertDetail, Execute
  <2>2. /\ tables'.details = tables.details \cup {wev[w]}
        /\ tables'.events = tables.events /\ tables'.codes = tables.codes
    BY <1>2, <2>1 DEF Rows
  <2> QED
    BY <1>1, <1>3, <1>4, <2>1, <2>2 DEF InsertDetail
<1>5. CASE ~(Usable(w) /\ \A r \in tables.details : r.id # wev[w].id)
  BY <1>1, <1>3, <1>5 DEF InsertDetail
<1> QED
  BY <1>4, <1>5

(* insert_code: the file, and a row or the end of the process.             *)
LEMMA InsertCodeEffect ==
  ASSUME Shape, NEW w \in Writers, InsertCode(w)
  PROVE  /\ wpc[w] = "insert" /\ wpc'[w] = "inner"
         /\ wev[w] # None /\ wev[w] \in Event /\ wev'[w] = None
         /\ wev[w].kind = "code"
         /\ Write(wev[w])
         /\ \/ /\ Usable(w)
               /\ tables'.codes = tables.codes \cup {wev[w]}
               /\ tables'.events = tables.events /\ tables'.details = tables.details
               /\ disk' = (IF txn THEN disk ELSE tables')
               /\ UNCHANGED <<crashed, dropped>>
            \/ /\ ~Usable(w)
               /\ dropped' = dropped \cup {wev[w]}
               /\ UNCHANGED <<tables, disk>>
         /\ \A u \in Writers \ {w} : wev'[u] = wev[u] /\ wpc'[u] = wpc[u]
         /\ UNCHANGED <<state, queue, thread, stmts, txn, dtor, calls, before, missed, draining>>
<1>1. wpc[w] = "insert" /\ wev[w].kind = "code"
  BY DEF InsertCode
<1>2. wev[w] # None /\ wev[w] \in Event
  BY <1>1, InsertingType DEF Shape, Placed
<1>3. tables \in Rows
  BY DEF Shape, TypeOK, DatabaseOK
<1>4. /\ wpc'[w] = "inner" /\ wev'[w] = None
      /\ \A u \in Writers \ {w} : wev'[u] = wev[u] /\ wpc'[u] = wpc[u]
  BY DEF InsertCode, Finish, WGoto, Shape, TypeOK, WriterOK
<1>5. CASE Usable(w)
  <2>1. tables' = [tables EXCEPT !.codes = @ \cup {wev[w]}]
        /\ disk' = IF txn THEN disk ELSE tables'
    BY <1>5 DEF InsertCode, Execute
  <2>2. /\ tables'.codes = tables.codes \cup {wev[w]}
        /\ tables'.events = tables.events /\ tables'.details = tables.details
    BY <1>3, <2>1 DEF Rows
  <2> QED
    BY <1>1, <1>2, <1>4, <1>5, <2>1, <2>2 DEF InsertCode
<1>6. CASE ~Usable(w)
  BY <1>1, <1>2, <1>4, <1>6 DEF InsertCode
<1> QED
  BY <1>5, <1>6

(* Where a thread is goes with what it holds.                               *)
LEMMA PlacedStep ==
  ASSUME Shape, [Next]_vars PROVE Placed'
<1> USE DEF Shape, TypeOK, ThreadOK, WriterOK, Placed, Holding, At, Goto, WGoto, state,
      queue, thread, writer, database, history
<1>1. ASSUME Start PROVE Placed'
  BY <1>1 DEF Start
<1>2. ASSUME NEW t \in Threads, NEW k \in CallKinds, Call(t, k) PROVE Placed'
  BY <1>2, CallEffect
<1>3. ASSUME NEW t \in Threads, NEW f \in FatBins, Register(t, f) PROVE Placed'
  BY <1>3, NoneAssumption DEF Register
<1>4. ASSUME NEW t \in Threads, AssignId(t) PROVE Placed'
  BY <1>4, AssignEffect
<1>5. ASSUME NEW t \in Threads, Bundle(t) PROVE Placed'
  BY <1>5, BundleEffect
<1>6. ASSUME NEW t \in Threads, Registered(t) PROVE Placed'
  BY <1>6, NoneAssumption DEF Registered
<1>7. ASSUME NEW t \in Threads, Pushback(t) PROVE Placed'
  BY <1>7 DEF Pushback, Caller
<1>8. ASSUME NEW t \in Threads, NEW w \in Writers, Spawn(t, w) PROVE Placed'
  BY <1>8 DEF Spawn
<1>9. ASSUME NEW t \in Threads, Mark(t) PROVE Placed'
  BY <1>9 DEF Mark
<1>10. ASSUME NEW t \in Threads, Reserve(t) PROVE Placed'
  BY <1>10, ReserveEffect
<1>11. ASSUME NEW t \in Threads, Store(t) PROVE Placed'
  BY <1>11, StoreEffect
<1>12. ASSUME NEW t \in Threads, Notify(t) PROVE Placed'
  BY <1>12 DEF Notify, WakeAll, Caller
<1>13. ASSUME NEW w \in Writers, Prepare(w) PROVE Placed'
  BY <1>13 DEF Prepare
<1>14. ASSUME NEW w \in Writers, Begin(w) PROVE Placed'
  BY <1>14 DEF Begin
<1>15. ASSUME NEW w \in Writers, Outer(w) PROVE Placed'
  BY <1>15 DEF Outer
<1>16. ASSUME NEW w \in Writers, Inner(w) PROVE Placed'
  BY <1>16 DEF Inner
<1>17. ASSUME NEW w \in Writers, PopClaim(w) PROVE Placed'
  BY <1>17 DEF PopClaim, Queue!Claim, Queue!TypeOK, Queue!NoTicket
<1>18. ASSUME NEW w \in Writers, PopTake(w) PROVE Placed'
  BY <1>18, TakeEffect
<1>19. ASSUME NEW w \in Writers, PopNothing(w) PROVE Placed'
  BY <1>19, NothingEffect
<1>20. ASSUME NEW w \in Writers, InsertEvent(w) PROVE Placed'
  BY <1>20, InsertEventEffect
<1>21. ASSUME NEW w \in Writers, WriteHostData(w) PROVE Placed'
  BY <1>21 DEF WriteHostData
<1>22. ASSUME NEW w \in Writers, InsertDetail(w) PROVE Placed'
  BY <1>22, InsertDetailEffect
<1>23. ASSUME NEW w \in Writers, InsertCode(w) PROVE Placed'
  BY <1>23, InsertCodeEffect
<1>24. ASSUME NEW w \in Writers, CheckEmpty(w) PROVE Placed'
  BY <1>24 DEF CheckEmpty
<1>25. ASSUME NEW w \in Writers, CheckLoaded(w) PROVE Placed'
  BY <1>25 DEF CheckLoaded
<1>26. ASSUME NEW w \in Writers, Enter(w) PROVE Placed'
  BY <1>26 DEF Enter
<1>27. ASSUME NEW w \in Writers, SpuriousWake(w) PROVE Placed'
  BY <1>27 DEF SpuriousWake
<1>28. ASSUME NEW w \in Writers, End(w) PROVE Placed'
  BY <1>28 DEF End
<1>29. ASSUME Exit PROVE Placed'
  BY <1>29 DEF Exit
<1>30. ASSUME ExitNotify PROVE Placed'
  BY <1>30 DEF ExitNotify, WakeAll
<1>31. ASSUME ExitClose PROVE Placed'
  BY <1>31 DEF ExitClose
<1>32. ASSUME ExitJoin PROVE Placed'
  BY <1>32 DEF ExitJoin
<1>33. CASE UNCHANGED vars
  BY <1>33 DEF vars
<1> QED
  BY <1>1, <1>2, <1>3, <1>4, <1>5, <1>6, <1>7, <1>8, <1>9, <1>10, <1>11, <1>12, <1>13,
     <1>14, <1>15, <1>16, <1>17, <1>18, <1>19, <1>20, <1>21, <1>22, <1>23, <1>24, <1>25,
     <1>26, <1>27, <1>28, <1>29, <1>30, <1>31, <1>32, <1>33 DEF Next, Program, PushStep,
     WriterStep, ExitStep

(* One more call: nothing is from a later one.                             *)
LEMMA KnownLater ==
  ASSUME Shape
  PROVE  /\ \A t \in Threads : ev[t] # None => ev[t].fx < calls + 1
         /\ \A t \in Threads : hand[t] # None => hand[t].item.fx < calls + 1
         /\ \A k \in Queue!Slots : slot[k] # None => slot[k].item.fx < calls + 1
         /\ \A w \in Writers : wev[w] # None => wev[w].fx < calls + 1
         /\ \A r \in tables.events \cup tables.details \cup tables.codes \cup dropped :
             r.fx < calls + 1
<1>1. \A e \in Event \cup Garbage : e.fx \in Int
  BY DEF Event, Garbage
<1>2. calls \in Nat
  BY DEF Shape, TypeOK, HistoryOK
<1>3. \A e \in Event \cup Garbage : e.fx < calls => e.fx < calls + 1
  BY <1>1, <1>2
<1>4. /\ \A t \in Threads : ev[t] # None => ev[t] \in Event
      /\ \A w \in Writers : wev[w] # None => wev[w] \in Event \cup Garbage
  BY DEF Shape, TypeOK, ThreadOK, WriterOK
<1>5. /\ \A t \in Threads : hand[t] # None => hand[t].item \in Event
      /\ \A k \in Queue!Slots : slot[k] # None => slot[k].item \in Event
  BY DEF Shape, TypeOK, Queue!TypeOK, Queue!Element
<1>6. tables.events \cup tables.details \cup tables.codes \cup dropped \subseteq Event \cup Garbage
  BY DEF Shape, TypeOK, DatabaseOK, HistoryOK, Rows
<1> QED
  BY <1>3, <1>4, <1>5, <1>6 DEF Shape, Known

(* Every event is of a call that has been made.                            *)
LEMMA KnownStep ==
  ASSUME Shape, [Next]_vars PROVE Known'
<1> USE DEF Shape, TypeOK, HistoryOK, ThreadOK, WriterOK, Known, Goto, WGoto, state,
      queue, thread, writer, database, history
<1>1. ASSUME Start PROVE Known'
  BY <1>1 DEF Start
<1>2. ASSUME NEW t \in Threads, NEW k \in CallKinds, Call(t, k) PROVE Known'
  BY <1>2, CallEffect, KnownLater
<1>3. ASSUME NEW t \in Threads, NEW f \in FatBins, Register(t, f) PROVE Known'
  BY <1>3 DEF Register
<1>4. ASSUME NEW t \in Threads, AssignId(t) PROVE Known'
  BY <1>4, AssignEffect
<1>5. ASSUME NEW t \in Threads, Bundle(t) PROVE Known'
  BY <1>5, BundleEffect, KnownLater
<1>6. ASSUME NEW t \in Threads, Registered(t) PROVE Known'
  BY <1>6 DEF Registered
<1>7. ASSUME NEW t \in Threads, Pushback(t) PROVE Known'
  BY <1>7 DEF Pushback
<1>8. ASSUME NEW t \in Threads, NEW w \in Writers, Spawn(t, w) PROVE Known'
  BY <1>8 DEF Spawn
<1>9. ASSUME NEW t \in Threads, Mark(t) PROVE Known'
  BY <1>9 DEF Mark
<1>10. ASSUME NEW t \in Threads, Reserve(t) PROVE Known'
  BY <1>10, ReserveEffect
<1>11. ASSUME NEW t \in Threads, Store(t) PROVE Known'
  BY <1>11, StoreEffect
<1>12. ASSUME NEW t \in Threads, Notify(t) PROVE Known'
  BY <1>12 DEF Notify, WakeAll
<1>13. ASSUME NEW w \in Writers, Prepare(w) PROVE Known'
  BY <1>13 DEF Prepare
<1>14. ASSUME NEW w \in Writers, Begin(w) PROVE Known'
  BY <1>14 DEF Begin
<1>15. ASSUME NEW w \in Writers, Outer(w) PROVE Known'
  BY <1>15 DEF Outer
<1>16. ASSUME NEW w \in Writers, Inner(w) PROVE Known'
  BY <1>16 DEF Inner
<1>17. ASSUME NEW w \in Writers, PopClaim(w) PROVE Known'
  BY <1>17 DEF PopClaim, Queue!Claim
<1>18. ASSUME NEW w \in Writers, PopTake(w) PROVE Known'
  BY <1>18, TakeEffect
<1>19. ASSUME NEW w \in Writers, PopNothing(w) PROVE Known'
  BY <1>19, NothingEffect
<1>20. ASSUME NEW w \in Writers, InsertEvent(w) PROVE Known'
  BY <1>20, InsertEventEffect
<1>21. ASSUME NEW w \in Writers, WriteHostData(w) PROVE Known'
  BY <1>21 DEF WriteHostData
<1>22. ASSUME NEW w \in Writers, InsertDetail(w) PROVE Known'
  BY <1>22, InsertDetailEffect
<1>23. ASSUME NEW w \in Writers, InsertCode(w) PROVE Known'
  BY <1>23, InsertCodeEffect
<1>24. ASSUME NEW w \in Writers, CheckEmpty(w) PROVE Known'
  BY <1>24 DEF CheckEmpty
<1>25. ASSUME NEW w \in Writers, CheckLoaded(w) PROVE Known'
  BY <1>25 DEF CheckLoaded
<1>26. ASSUME NEW w \in Writers, Enter(w) PROVE Known'
  BY <1>26 DEF Enter
<1>27. ASSUME NEW w \in Writers, SpuriousWake(w) PROVE Known'
  BY <1>27 DEF SpuriousWake
<1>28. ASSUME NEW w \in Writers, End(w) PROVE Known'
  BY <1>28 DEF End
<1>29. ASSUME Exit PROVE Known'
  BY <1>29 DEF Exit
<1>30. ASSUME ExitNotify PROVE Known'
  BY <1>30 DEF ExitNotify, WakeAll
<1>31. ASSUME ExitClose PROVE Known'
  BY <1>31 DEF ExitClose
<1>32. ASSUME ExitJoin PROVE Known'
  BY <1>32 DEF ExitJoin
<1>33. CASE UNCHANGED vars
  BY <1>33 DEF vars
<1> QED
  BY <1>1, <1>2, <1>3, <1>4, <1>5, <1>6, <1>7, <1>8, <1>9, <1>10, <1>11, <1>12, <1>13,
     <1>14, <1>15, <1>16, <1>17, <1>18, <1>19, <1>20, <1>21, <1>22, <1>23, <1>24, <1>25,
     <1>26, <1>27, <1>28, <1>29, <1>30, <1>31, <1>32, <1>33 DEF Next, Program, PushStep,
     WriterStep, ExitStep

(* Capture starts in its shape and keeps it.                               *)
LEMMA ShapeInit == Init => Shape
<1> SUFFICES ASSUME Init PROVE Shape
  OBVIOUS
<1>1. StateOK /\ ThreadOK /\ WriterOK
  BY DEF Init, StateOK, ThreadOK, WriterOK, ThreadPcs, WriterPcs, DrainPcs
<1>2. DatabaseOK /\ HistoryOK
  <2>1. NoRows \in Rows
    BY DEF NoRows, Rows
  <2>2. DOMAIN files = {}
    BY DEF Init
  <2> QED
    BY <2>1, <2>2 DEF Init, DatabaseOK, HistoryOK
<1>3. Queue!TypeOK
  BY DEF Init, Queue!Init, Queue!TypeOK, Queue!NoTicket
<1>4. TypeOK
  BY <1>1, <1>2, <1>3 DEF Init, TypeOK
<1>5. Placed /\ Known
  BY NoneAssumption DEF Init, Queue!Init, Queue!NoTicket, Placed, Holding, Known, NoRows
<1> QED
  BY <1>4, <1>5 DEF Shape

(* Types, places and numbers of calls together are inductive, given those  *)
(* of the queue.                                                           *)
LEMMA ShapeStep == ASSUME Shape, [Next]_vars PROVE Shape'
BY QueueType, TypeStep, PlacedStep, KnownStep DEF Shape

(* So they hold in every behaviour.                                        *)
LEMMA ShapeHolds == Spec => []Shape
BY ShapeInit, ShapeStep, PTL DEF Spec

(* The variables of Capture keep their types.                              *)
THEOREM TypeCorrect == Spec => []TypeOK
BY ShapeHolds, PTL DEF Shape

(* Seen by its queue, Capture is RingQueue: pushback_event and the writer  *)
(* use the queue as it wants to be used, and what is proved of RingQueue   *)
(* is true here.                                                           *)
THEOREM UsesRing == Spec => Queue!Spec
<1>1. Init => Queue!Init
  BY DEF Init
<1> QED
  BY <1>1, ShapeHolds, QueueStep, PTL DEF Spec, Queue!Spec


-----------------------------------------------------------------------------
(* One writer *)

(* Unless the program has threads before it has recorded anything, the     *)
(* thread that starts the writer is the only one, Main in a static         *)
(* constructor, and it starts none when it finds `prepared'.               *)
Born(w) == wpc[w] # "unborn"
Alone ==
    started # "bare" =>
        /\ \A w \in Writers : Born(w) <=> db_writer_thread = w
        /\ started = "no" =>
            /\ \A t \in Threads \ {Main} : pc[t] = "idle"
            /\ (prepared \/ pc[Main] = "mark") <=> \E w \in Writers : Born(w)
            /\ pc[Main] \in {"spawn", "mark"} => ~prepared
        /\ started = "recording" =>
            /\ \A t \in Threads : pc[t] \notin {"spawn", "mark"}
            /\ mode # "binint" => prepared /\ \E w \in Writers : Born(w)

(* Only Spawn and Mark matter, and they are taken once.                    *)
LEMMA AloneStep ==
  ASSUME Shape, Alone, [Next]_vars PROVE Alone'
<1> USE MainAssumption DEF Shape, TypeOK, StateOK, ThreadOK, WriterOK, Alone, Born, At,
      Goto, WGoto, state, queue, thread, writer, database, history
<1>1. ASSUME Start PROVE Alone'
  BY <1>1 DEF Start
<1>2. ASSUME NEW t \in Threads, NEW k \in CallKinds, Call(t, k) PROVE Alone'
  BY <1>2, CallEffect
<1>3. ASSUME NEW t \in Threads, NEW f \in FatBins, Register(t, f) PROVE Alone'
  BY <1>3 DEF Register
<1>4. ASSUME NEW t \in Threads, AssignId(t) PROVE Alone'
  BY <1>4, AssignEffect
<1>5. ASSUME NEW t \in Threads, Bundle(t) PROVE Alone'
  BY <1>5, BundleEffect
<1>6. ASSUME NEW t \in Threads, Registered(t) PROVE Alone'
  BY <1>6 DEF Registered
<1>7. ASSUME NEW t \in Threads, Pushback(t) PROVE Alone'
  BY <1>7 DEF Pushback, Caller
<1>8. ASSUME NEW t \in Threads, NEW w \in Writers, Spawn(t, w) PROVE Alone'
  BY <1>8 DEF Spawn
<1>9. ASSUME NEW t \in Threads, Mark(t) PROVE Alone'
  BY <1>9 DEF Mark
<1>10. ASSUME NEW t \in Threads, Reserve(t) PROVE Alone'
  BY <1>10, ReserveEffect
<1>11. ASSUME NEW t \in Threads, Store(t) PROVE Alone'
  BY <1>11, StoreEffect
<1>12. ASSUME NEW t \in Threads, Notify(t) PROVE Alone'
  BY <1>12 DEF Notify, WakeAll, Caller
<1>13. ASSUME NEW w \in Writers, Prepare(w) PROVE Alone'
  BY <1>13 DEF Prepare
<1>14. ASSUME NEW w \in Writers, Begin(w) PROVE Alone'
  BY <1>14 DEF Begin
<1>15. ASSUME NEW w \in Writers, Outer(w) PROVE Alone'
  BY <1>15 DEF Outer
<1>16. ASSUME NEW w \in Writers, Inner(w) PROVE Alone'
  BY <1>16 DEF Inner
<1>17. ASSUME NEW w \in Writers, PopClaim(w) PROVE Alone'
  BY <1>17 DEF PopClaim, Queue!Claim
<1>18. ASSUME NEW w \in Writers, PopTake(w) PROVE Alone'
  BY <1>18, TakeEffect
<1>19. ASSUME NEW w \in Writers, PopNothing(w) PROVE Alone'
  BY <1>19, NothingEffect
<1>20. ASSUME NEW w \in Writers, InsertEvent(w) PROVE Alone'
  BY <1>20, InsertEventEffect
<1>21. ASSUME NEW w \in Writers, WriteHostData(w) PROVE Alone'
  BY <1>21 DEF WriteHostData
<1>22. ASSUME NEW w \in Writers, InsertDetail(w) PROVE Alone'
  BY <1>22, InsertDetailEffect
<1>23. ASSUME NEW w \in Writers, InsertCode(w) PROVE Alone'
  BY <1>23, InsertCodeEffect
<1>24. ASSUME NEW w \in Writers, CheckEmpty(w) PROVE Alone'
  BY <1>24 DEF CheckEmpty
<1>25. ASSUME NEW w \in Writers, CheckLoaded(w) PROVE Alone'
  BY <1>25 DEF CheckLoaded
<1>26. ASSUME NEW w \in Writers, Enter(w) PROVE Alone'
  BY <1>26 DEF Enter
<1>27. ASSUME NEW w \in Writers, SpuriousWake(w) PROVE Alone'
  BY <1>27 DEF SpuriousWake
<1>28. ASSUME NEW w \in Writers, End(w) PROVE Alone'
  BY <1>28 DEF End
<1>29. ASSUME Exit PROVE Alone'
  BY <1>29 DEF Exit
<1>30. ASSUME ExitNotify PROVE Alone'
  BY <1>30 DEF ExitNotify, WakeAll
<1>31. ASSUME ExitClose PROVE Alone'
  BY <1>31 DEF ExitClose
<1>32. ASSUME ExitJoin PROVE Alone'
  BY <1>32 DEF ExitJoin
<1>33. CASE UNCHANGED vars
  BY <1>33 DEF vars
<1> QED
  BY <1>1, <1>2, <1>3, <1>4, <1>5, <1>6, <1>7, <1>8, <1>9, <1>10, <1>11, <1>12, <1>13,
     <1>14, <1>15, <1>16, <1>17, <1>18, <1>19, <1>20, <1>21, <1>22, <1>23, <1>24, <1>25,
     <1>26, <1>27, <1>28, <1>29, <1>30, <1>31, <1>32, <1>33 DEF Next, Program, PushStep,
     WriterStep, ExitStep


(* Unless threads were there before the first record, only the thread that *)
(* starts the writer is at work then.                                      *)
LEMMA AloneHolds == Spec => []Alone
<1>1. Init => Alone
  BY NoneAssumption, MainAssumption DEF Init, Alone, Born
<1> QED
  BY <1>1, ShapeHolds, AloneStep, PTL DEF Spec

(* A capture whose first record is made by a static constructor has one    *)
(* writer, however many threads it has afterwards.                         *)
THEOREM SingleWriterHolds == Spec => []SingleWriter
<1>1. Alone => SingleWriter
  <2> SUFFICES ASSUME Alone, started # "bare" PROVE OneWriter
    BY DEF SingleWriter
  <2> DEFINE S == {w \in Writers : wpc[w] # "unborn"}
  <2>1. \A u, w \in S : u = w
    BY DEF Alone, Born
  <2>2. Cardinality(S) = IF S = {} THEN 0 ELSE 1
    BY <2>1, AtMostOne
  <2> QED
    BY <2>2 DEF OneWriter
<1> QED
  BY <1>1, AloneHolds, PTL


-----------------------------------------------------------------------------
(* Sleeping *)

(* Whoever adds to the queue notifies everyone who is about to wait.       *)
Awake ==
    \A w \in Writers :
        (/\ wpc[w] \in {"enter", "waiting"} \/ (wpc[w] = "loaded" /\ library_loaded)
         /\ w \notin missed
         /\ head > tail)
            => \E t \in Threads : pc[t] \in {"store", "notify"}

(* A step that fills the queue is on its way to notify, and a writer that  *)
(* goes to sleep has looked.                                               *)
LEMMA AwakeStep ==
  ASSUME Shape, Awake, [Next]_vars PROVE Awake'
<1> USE DEF Shape, TypeOK, StateOK, ThreadOK, WriterOK, HistoryOK, Queue!TypeOK, Awake,
      At, Goto, WGoto, state, queue, thread, writer, database, history
<1>1. ASSUME Start PROVE Awake'
  BY <1>1 DEF Start
<1>2. ASSUME NEW t \in Threads, NEW k \in CallKinds, Call(t, k) PROVE Awake'
  BY <1>2, CallEffect
<1>3. ASSUME NEW t \in Threads, NEW f \in FatBins, Register(t, f) PROVE Awake'
  BY <1>3 DEF Register
<1>4. ASSUME NEW t \in Threads, AssignId(t) PROVE Awake'
  BY <1>4, AssignEffect
<1>5. ASSUME NEW t \in Threads, Bundle(t) PROVE Awake'
  BY <1>5, BundleEffect
<1>6. ASSUME NEW t \in Threads, Registered(t) PROVE Awake'
  BY <1>6 DEF Registered
<1>7. ASSUME NEW t \in Threads, Pushback(t) PROVE Awake'
  BY <1>7 DEF Pushback, Caller
<1>8. ASSUME NEW t \in Threads, NEW w \in Writers, Spawn(t, w) PROVE Awake'
  BY <1>8 DEF Spawn
<1>9. ASSUME NEW t \in Threads, Mark(t) PROVE Awake'
  BY <1>9 DEF Mark
<1>10. ASSUME NEW t \in Threads, Reserve(t) PROVE Awake'
  BY <1>10, ReserveEffect
<1>11. ASSUME NEW t \in Threads, Store(t) PROVE Awake'
  BY <1>11, StoreEffect
<1>12. ASSUME NEW t \in Threads, Notify(t) PROVE Awake'
  BY <1>12 DEF Notify, WakeAll, Caller
<1>13. ASSUME NEW w \in Writers, Prepare(w) PROVE Awake'
  BY <1>13 DEF Prepare
<1>14. ASSUME NEW w \in Writers, Begin(w) PROVE Awake'
  BY <1>14 DEF Begin
<1>15. ASSUME NEW w \in Writers, Outer(w) PROVE Awake'
  BY <1>15 DEF Outer
<1>16. ASSUME NEW w \in Writers, Inner(w) PROVE Awake'
  BY <1>16 DEF Inner
<1>17. ASSUME NEW w \in Writers, PopClaim(w) PROVE Awake'
  BY <1>17 DEF PopClaim, Queue!Claim
<1>18. ASSUME NEW w \in Writers, PopTake(w) PROVE Awake'
  BY <1>18, TakeEffect
<1>19. ASSUME NEW w \in Writers, PopNothing(w) PROVE Awake'
  BY <1>19, NothingEffect
<1>20. ASSUME NEW w \in Writers, InsertEvent(w) PROVE Awake'
  BY <1>20, InsertEventEffect
<1>21. ASSUME NEW w \in Writers, WriteHostData(w) PROVE Awake'
  BY <1>21 DEF WriteHostData
<1>22. ASSUME NEW w \in Writers, InsertDetail(w) PROVE Awake'
  BY <1>22, InsertDetailEffect
<1>23. ASSUME NEW w \in Writers, InsertCode(w) PROVE Awake'
  BY <1>23, InsertCodeEffect
<1>24. ASSUME NEW w \in Writers, CheckEmpty(w) PROVE Awake'
  BY <1>24 DEF CheckEmpty, was_empty
<1>25. ASSUME NEW w \in Writers, CheckLoaded(w) PROVE Awake'
  BY <1>25 DEF CheckLoaded
<1>26. ASSUME NEW w \in Writers, Enter(w) PROVE Awake'
  BY <1>26 DEF Enter
<1>27. ASSUME NEW w \in Writers, SpuriousWake(w) PROVE Awake'
  BY <1>27 DEF SpuriousWake
<1>28. ASSUME NEW w \in Writers, End(w) PROVE Awake'
  BY <1>28 DEF End
<1>29. ASSUME Exit PROVE Awake'
  BY <1>29 DEF Exit
<1>30. ASSUME ExitNotify PROVE Awake'
  BY <1>30 DEF ExitNotify, WakeAll
<1>31. ASSUME ExitClose PROVE Awake'
  BY <1>31 DEF ExitClose
<1>32. ASSUME ExitJoin PROVE Awake'
  BY <1>32 DEF ExitJoin
<1>33. CASE UNCHANGED vars
  BY <1>33 DEF vars
<1> QED
  BY <1>1, <1>2, <1>3, <1>4, <1>5, <1>6, <1>7, <1>8, <1>9, <1>10, <1>11, <1>12, <1>13,
     <1>14, <1>15, <1>16, <1>17, <1>18, <1>19, <1>20, <1>21, <1>22, <1>23, <1>24, <1>25,
     <1>26, <1>27, <1>28, <1>29, <1>30, <1>31, <1>32, <1>33 DEF Next, Program, PushStep,
     WriterStep, ExitStep


(* A writer that sleeps on a queue with something in it missed the notify  *)
(* of the push that put it there.                                          *)
THEOREM AsleepOnlyIfMissedHolds == Spec => []AsleepOnlyIfMissed
<1>1. Init => Awake
  BY DEF Init, Awake
<1>2. Shape /\ Awake => AsleepOnlyIfMissed
  BY DEF Shape, TypeOK, Queue!TypeOK, Awake, AsleepOnlyIfMissed, was_empty
<1> QED
  BY <1>1, <1>2, ShapeHolds, AwakeStep, PTL DEF Spec


-----------------------------------------------------------------------------
(* One place for every event *)

(* What is done with: a row, or a failed insertion.                        *)
Ended == tables.events \cup tables.codes \cup dropped

(* An event is never in two places.  A writer holds on to one that is done *)
(* with while it has its file and its details left; an uninitialized one,  *)
(* whose fx is -1, may be anywhere.                                        *)
Once ==
    /\ \A t, u \in Threads : (ev[t] # None /\ ev[u] # None /\ ev[t].fx = ev[u].fx) => t = u
    /\ \A t, u \in Threads :
        (hand[t] # None /\ hand[u] # None /\ hand[t].item.fx = hand[u].item.fx) => t = u
    /\ \A j, k \in Queue!Slots :
        (slot[j] # None /\ slot[k] # None /\ slot[j].item.fx = slot[k].item.fx) => j = k
    /\ \A u, w \in Writers :
        (wev[u] # None /\ wev[w] # None /\ wev[u].fx = wev[w].fx /\ wev[u].fx >= 0) => u = w
    /\ \A r, s \in Ended : (r.fx = s.fx /\ r.fx >= 0) => r = s
    /\ \A r \in tables.events \cup tables.codes, s \in dropped : r.fx >= 0 => r.fx # s.fx
    /\ \A t \in Threads : ev[t] # None =>
        /\ \A u \in Threads : hand[u] # None => hand[u].item.fx # ev[t].fx
        /\ \A k \in Queue!Slots : slot[k] # None => slot[k].item.fx # ev[t].fx
        /\ \A w \in Writers : wev[w] # None => wev[w].fx # ev[t].fx
        /\ \A r \in Ended : r.fx # ev[t].fx
    /\ \A t \in Threads : hand[t] # None =>
        /\ \A k \in Queue!Slots : slot[k] # None => slot[k].item.fx # hand[t].item.fx
        /\ \A w \in Writers : wev[w] # None => wev[w].fx # hand[t].item.fx
        /\ \A r \in Ended : r.fx # hand[t].item.fx
    /\ \A k \in Queue!Slots : slot[k] # None =>
        /\ \A w \in Writers : wev[w] # None => wev[w].fx # slot[k].item.fx
        /\ \A r \in Ended : r.fx # slot[k].item.fx
    /\ \A w \in Writers : (wev[w] # None /\ wev[w].fx >= 0) =>
        /\ wpc[w] = "insert" => \A r \in Ended : r.fx # wev[w].fx
        /\ wpc[w] # "insert" => \E r \in Ended : r.fx = wev[w].fx

(* Nor is it nowhere.                                                      *)
Somewhere ==
    mode # "binint" =>
        \A n \in 0 .. calls - 1 :
            \/ \E t \in Threads : ev[t] # None /\ ev[t].fx = n
            \/ \E t \in Threads : hand[t] # None /\ hand[t].item.fx = n
            \/ \E k \in Queue!Slots : slot[k] # None /\ slot[k].item.fx = n
            \/ \E w \in Writers : wev[w] # None /\ wev[w].fx = n
            \/ \E r \in Ended : r.fx = n

(* The events in hand have a place in the order of the calls.              *)
LEMMA Numbered ==
  ASSUME Shape
  PROVE  /\ \A t \in Threads : ev[t] # None => ev[t].fx \in Nat
         /\ \A t \in Threads : hand[t] # None => hand[t].item.fx \in Nat
         /\ \A k \in Queue!Slots : slot[k] # None => slot[k].item.fx \in Nat
         /\ \A w \in Writers : wev[w] # None => wev[w].fx \in Nat \cup {-1}
         /\ \A r \in Ended : r.fx \in Nat \cup {-1}
<1>1. \A e \in Event : e.fx \in Nat
  BY DEF Event
<1>2. \A e \in Event \cup Garbage : e.fx \in Nat \cup {-1}
  BY DEF Event, Garbage
<1>3. /\ \A t \in Threads : ev[t] # None => ev[t] \in Event
      /\ \A w \in Writers : wev[w] # None => wev[w] \in Event \cup Garbage
  BY DEF Shape, TypeOK, ThreadOK, WriterOK
<1>4. /\ \A t \in Threads : hand[t] # None => hand[t].item \in Event
      /\ \A k \in Queue!Slots : slot[k] # None => slot[k].item \in Event
  BY DEF Shape, TypeOK, Queue!TypeOK, Queue!Element
<1>5. Ended \subseteq Event \cup Garbage
  BY DEF Shape, TypeOK, DatabaseOK, HistoryOK, Rows, Ended
<1> QED
  BY <1>1, <1>2, <1>3, <1>4, <1>5

(* An event moves from one place to the next, and a new one is new.        *)
LEMMA OnceStep ==
  ASSUME Shape, Once, [Next]_vars PROVE Once'
<1> USE DEF Shape, Once, Ended, state, queue, thread, writer, database, history
<1>1. ASSUME Start PROVE Once'
  BY <1>1 DEF Start, WGoto, TypeOK, WriterOK, ThreadOK, Placed
<1>2. ASSUME NEW t \in Threads, NEW k \in CallKinds, Call(t, k) PROVE Once'
  BY <1>2, CallEffect, Numbered DEF Known, state, queue, thread, writer, database, history
<1>3. ASSUME NEW t \in Threads, NEW f \in FatBins, Register(t, f) PROVE Once'
  BY <1>3 DEF Register, WGoto, TypeOK, WriterOK, ThreadOK, Placed
<1>4. ASSUME NEW t \in Threads, AssignId(t) PROVE Once'
  BY <1>4, AssignEffect
<1>5. ASSUME NEW t \in Threads, Bundle(t) PROVE Once'
  BY <1>5, BundleEffect, Numbered DEF Known
<1>6. ASSUME NEW t \in Threads, Registered(t) PROVE Once'
  BY <1>6 DEF Registered, WGoto, TypeOK, WriterOK, ThreadOK, Placed
<1>7. ASSUME NEW t \in Threads, Pushback(t) PROVE Once'
  BY <1>7 DEF Pushback, WGoto, TypeOK, WriterOK, ThreadOK, Placed
<1>8. ASSUME NEW t \in Threads, NEW w \in Writers, Spawn(t, w) PROVE Once'
  BY <1>8 DEF Spawn, WGoto, TypeOK, WriterOK, ThreadOK, Placed
<1>9. ASSUME NEW t \in Threads, Mark(t) PROVE Once'
  BY <1>9 DEF Mark, WGoto, TypeOK, WriterOK, ThreadOK, Placed
<1>10. ASSUME NEW t \in Threads, Reserve(t) PROVE Once'
  BY <1>10, ReserveEffect
<1>11. ASSUME NEW t \in Threads, Store(t) PROVE Once'
  BY <1>11, StoreEffect
<1>12. ASSUME NEW t \in Threads, Notify(t) PROVE Once'
  BY <1>12 DEF Notify, WGoto, TypeOK, WriterOK, ThreadOK, Placed, WakeAll
<1>13. ASSUME NEW w \in Writers, Prepare(w) PROVE Once'
  BY <1>13 DEF Prepare, WGoto, TypeOK, WriterOK, ThreadOK, Placed
<1>14. ASSUME NEW w \in Writers, Begin(w) PROVE Once'
  BY <1>14 DEF Begin, WGoto, TypeOK, WriterOK, ThreadOK, Placed
<1>15. ASSUME NEW w \in Writers, Outer(w) PROVE Once'
  BY <1>15 DEF Outer, WGoto, TypeOK, WriterOK, ThreadOK, Placed
<1>16. ASSUME NEW w \in Writers, Inner(w) PROVE Once'
  BY <1>16 DEF Inner, WGoto, TypeOK, WriterOK, ThreadOK, Placed
<1>17. ASSUME NEW w \in Writers, PopClaim(w) PROVE Once'
  BY <1>17 DEF PopClaim, WGoto, TypeOK, WriterOK, ThreadOK, Placed, Queue!Claim, WGoto,
     TypeOK, WriterOK
<1>18. ASSUME NEW w \in Writers, PopTake(w) PROVE Once'
  BY <1>18, TakeEffect
<1>19. ASSUME NEW w \in Writers, PopNothing(w) PROVE Once'
  BY <1>19, NothingEffect, Numbered
<1>20. ASSUME NEW w \in Writers, InsertEvent(w) PROVE Once'
  BY <1>20, InsertEventEffect
<1>21. ASSUME NEW w \in Writers, WriteHostData(w) PROVE Once'
  BY <1>21 DEF WriteHostData, WGoto, TypeOK, WriterOK, ThreadOK, Placed
<1>22. ASSUME NEW w \in Writers, InsertDetail(w) PROVE Once'
  BY <1>22, InsertDetailEffect
<1>23. ASSUME NEW w \in Writers, InsertCode(w) PROVE Once'
  BY <1>23, InsertCodeEffect
<1>24. ASSUME NEW w \in Writers, CheckEmpty(w) PROVE Once'
  BY <1>24 DEF CheckEmpty, WGoto, TypeOK, WriterOK, ThreadOK, Placed
<1>25. ASSUME NEW w \in Writers, CheckLoaded(w) PROVE Once'
  BY <1>25 DEF CheckLoaded, WGoto, TypeOK, WriterOK, ThreadOK, Placed
<1>26. ASSUME NEW w \in Writers, Enter(w) PROVE Once'
  BY <1>26 DEF Enter, WGoto, TypeOK, WriterOK, ThreadOK, Placed
<1>27. ASSUME NEW w \in Writers, SpuriousWake(w) PROVE Once'
  BY <1>27 DEF SpuriousWake, WGoto, TypeOK, WriterOK, ThreadOK, Placed
<1>28. ASSUME NEW w \in Writers, End(w) PROVE Once'
  BY <1>28 DEF End, WGoto, TypeOK, WriterOK, ThreadOK, Placed
<1>29. ASSUME Exit PROVE Once'
  BY <1>29 DEF Exit, WGoto, TypeOK, WriterOK, ThreadOK, Placed
<1>30. ASSUME ExitNotify PROVE Once'
  BY <1>30 DEF ExitNotify, WGoto, TypeOK, WriterOK, ThreadOK, Placed, WakeAll, TypeOK,
     WriterOK
<1>31. ASSUME ExitClose PROVE Once'
  BY <1>31 DEF ExitClose, WGoto, TypeOK, WriterOK, ThreadOK, Placed
<1>32. ASSUME ExitJoin PROVE Once'
  BY <1>32 DEF ExitJoin, WGoto, TypeOK, WriterOK, ThreadOK, Placed
<1>33. CASE UNCHANGED vars
  BY <1>33 DEF vars
<1> QED
  BY <1>1, <1>2, <1>3, <1>4, <1>5, <1>6, <1>7, <1>8, <1>9, <1>10, <1>11, <1>12, <1>13,
     <1>14, <1>15, <1>16, <1>17, <1>18, <1>19, <1>20, <1>21, <1>22, <1>23, <1>24, <1>25,
     <1>26, <1>27, <1>28, <1>29, <1>30, <1>31, <1>32, <1>33 DEF Next, Program, PushStep,
     WriterStep, ExitStep

(* Every step that takes an event from a place puts it in another.         *)
LEMMA SomewhereStep ==
  ASSUME Shape, Once, Somewhere, [Next]_vars PROVE Somewhere'
<1> USE DEF Shape, Somewhere, Ended, state, queue, thread, writer, database, history
<1>1. ASSUME Start PROVE Somewhere'
  BY <1>1 DEF Start, WGoto, TypeOK, WriterOK, ThreadOK, Placed
<1>2. ASSUME NEW t \in Threads, NEW k \in CallKinds, Call(t, k) PROVE Somewhere'
  BY <1>2, CallEffect
<1>3. ASSUME NEW t \in Threads, NEW f \in FatBins, Register(t, f) PROVE Somewhere'
  BY <1>3 DEF Register, WGoto, TypeOK, WriterOK, ThreadOK, Placed
<1>4. ASSUME NEW t \in Threads, AssignId(t) PROVE Somewhere'
  BY <1>4, AssignEffect
<1>5. ASSUME NEW t \in Threads, Bundle(t) PROVE Somewhere'
  BY <1>5, BundleEffect
<1>6. ASSUME NEW t \in Threads, Registered(t) PROVE Somewhere'
  BY <1>6 DEF Registered, WGoto, TypeOK, WriterOK, ThreadOK, Placed
<1>7. ASSUME NEW t \in Threads, Pushback(t) PROVE Somewhere'
  BY <1>7 DEF Pushback, WGoto, TypeOK, WriterOK, ThreadOK, Placed
<1>8. ASSUME NEW t \in Threads, NEW w \in Writers, Spawn(t, w) PROVE Somewhere'
  BY <1>8 DEF Spawn, WGoto, TypeOK, WriterOK, ThreadOK, Placed
<1>9. ASSUME NEW t \in Threads, Mark(t) PROVE Somewhere'
  BY <1>9 DEF Mark, WGoto, TypeOK, WriterOK, ThreadOK, Placed
<1>10. ASSUME NEW t \in Threads, Reserve(t) PROVE Somewhere'
  BY <1>10, ReserveEffect
<1>11. ASSUME NEW t \in Threads, Store(t) PROVE Somewhere'
  BY <1>11, StoreEffect
<1>12. ASSUME NEW t \in Threads, Notify(t) PROVE Somewhere'
  BY <1>12 DEF Notify, WGoto, TypeOK, WriterOK, ThreadOK, Placed, WakeAll
<1>13. ASSUME NEW w \in Writers, Prepare(w) PROVE Somewhere'
  BY <1>13 DEF Prepare, WGoto, TypeOK, WriterOK, ThreadOK, Placed
<1>14. ASSUME NEW w \in Writers, Begin(w) PROVE Somewhere'
  BY <1>14 DEF Begin, WGoto, TypeOK, WriterOK, ThreadOK, Placed
<1>15. ASSUME NEW w \in Writers, Outer(w) PROVE Somewhere'
  BY <1>15 DEF Outer, WGoto, TypeOK, WriterOK, ThreadOK, Placed
<1>16. ASSUME NEW w \in Writers, Inner(w) PROVE Somewhere'
  BY <1>16 DEF Inner, WGoto, TypeOK, WriterOK, ThreadOK, Placed
<1>17. ASSUME NEW w \in Writers, PopClaim(w) PROVE Somewhere'
  BY <1>17 DEF PopClaim, WGoto, TypeOK, WriterOK, ThreadOK, Placed, Queue!Claim, WGoto,
     TypeOK, WriterOK
<1>18. ASSUME NEW w \in Writers, PopTake(w) PROVE Somewhere'
  BY <1>18, TakeEffect
<1>19. ASSUME NEW w \in Writers, PopNothing(w) PROVE Somewhere'
  BY <1>19, NothingEffect
<1>20. ASSUME NEW w \in Writers, InsertEvent(w) PROVE Somewhere'
  BY <1>20, InsertEventEffect
<1>21. ASSUME NEW w \in Writers, WriteHostData(w) PROVE Somewhere'
  BY <1>21 DEF WriteHostData, WGoto, TypeOK, WriterOK, ThreadOK, Placed
<1>22. ASSUME NEW w \in Writers, InsertDetail(w) PROVE Somewhere'
  <2>1. \A n \in 0 .. calls - 1 : wev[w].fx = n => \E r \in Ended : r.fx = n
    BY <1>22, InsertDetailEffect DEF Once
  <2> QED
    BY <1>22, <2>1, InsertDetailEffect
<1>23. ASSUME NEW w \in Writers, InsertCode(w) PROVE Somewhere'
  BY <1>23, InsertCodeEffect
<1>24. ASSUME NEW w \in Writers, CheckEmpty(w) PROVE Somewhere'
  BY <1>24 DEF CheckEmpty, WGoto, TypeOK, WriterOK, ThreadOK, Placed
<1>25. ASSUME NEW w \in Writers, CheckLoaded(w) PROVE Somewhere'
  BY <1>25 DEF CheckLoaded, WGoto, TypeOK, WriterOK, ThreadOK, Placed
<1>26. ASSUME NEW w \in Writers, Enter(w) PROVE Somewhere'
  BY <1>26 DEF Enter, WGoto, TypeOK, WriterOK, ThreadOK, Placed
<1>27. ASSUME NEW w \in Writers, SpuriousWake(w) PROVE Somewhere'
  BY <1>27 DEF SpuriousWake, WGoto, TypeOK, WriterOK, ThreadOK, Placed
<1>28. ASSUME NEW w \in Writers, End(w) PROVE Somewhere'
  BY <1>28 DEF End, WGoto, TypeOK, WriterOK, ThreadOK, Placed
<1>29. ASSUME Exit PROVE Somewhere'
  BY <1>29 DEF Exit, WGoto, TypeOK, WriterOK, ThreadOK, Placed
<1>30. ASSUME ExitNotify PROVE Somewhere'
  BY <1>30 DEF ExitNotify, WGoto, TypeOK, WriterOK, ThreadOK, Placed, WakeAll, TypeOK,
     WriterOK
<1>31. ASSUME ExitClose PROVE Somewhere'
  BY <1>31 DEF ExitClose, WGoto, TypeOK, WriterOK, ThreadOK, Placed
<1>32. ASSUME ExitJoin PROVE Somewhere'
  BY <1>32 DEF ExitJoin, WGoto, TypeOK, WriterOK, ThreadOK, Placed
<1>33. CASE UNCHANGED vars
  BY <1>33 DEF vars
<1> QED
  BY <1>1, <1>2, <1>3, <1>4, <1>5, <1>6, <1>7, <1>8, <1>9, <1>10, <1>11, <1>12, <1>13,
     <1>14, <1>15, <1>16, <1>17, <1>18, <1>19, <1>20, <1>21, <1>22, <1>23, <1>24, <1>25,
     <1>26, <1>27, <1>28, <1>29, <1>30, <1>31, <1>32, <1>33 DEF Next, Program, PushStep,
     WriterStep, ExitStep


(* Every event is in at most one place, and a call that was made has its   *)
(* event somewhere.                                                        *)
LEMMA OnceHolds == Spec => [](Once /\ Somewhere)
<1>1. Init => Once /\ Somewhere
  BY DEF Init, Queue!Init, NoRows, Once, Somewhere, Ended
<1> QED
  BY <1>1, ShapeHolds, OnceStep, SomewhereStep, PTL DEF Spec

(* Every event is in one place, as a row or a failed insertion at the end, *)
(* with any number of threads and of writers.                              *)
THEOREM OncePerEventHolds == Spec => []OncePerEvent
<1>1. Shape /\ Once /\ Somewhere => OncePerEvent
  <2> SUFFICES ASSUME Shape, Once, Somewhere, mode # "binint", NEW n \in 0 .. calls - 1
               PROVE  LET done == Cardinality(Written(n)) + Cardinality(Dropped(n)) IN
                      /\ Cardinality(Building(n)) + Cardinality(Pushing(n)) + Cardinality(Queued(n))
                           + (IF Inserting(n) = {} THEN done ELSE Cardinality(Inserting(n))) = 1
                      /\ done <= 1
    BY DEF OncePerEvent
  <2>0. n \in Nat
    BY DEF Shape, TypeOK, HistoryOK
  <2>1. Cardinality(Building(n)) = IF Building(n) = {} THEN 0 ELSE 1
    <3>1. \A t, u \in Building(n) : t = u
      BY DEF Once, Building
    <3> QED
      BY <3>1, AtMostOne
  <2>2. Cardinality(Pushing(n)) = IF Pushing(n) = {} THEN 0 ELSE 1
    <3>1. \A t, u \in Pushing(n) : t = u
      BY DEF Once, Pushing
    <3> QED
      BY <3>1, AtMostOne
  <2>3. Cardinality(Queued(n)) = IF Queued(n) = {} THEN 0 ELSE 1
    <3>1. \A j, k \in Queued(n) : j = k
      BY DEF Once, Queued, Queue!Slots
    <3> QED
      BY <3>1, AtMostOne
  <2>4. Cardinality(Inserting(n)) = IF Inserting(n) = {} THEN 0 ELSE 1
    <3>1. \A u, w \in Inserting(n) : u = w
      BY <2>0 DEF Once, Inserting
    <3> QED
      BY <3>1, AtMostOne
  <2>5. Cardinality(Written(n)) = IF Written(n) = {} THEN 0 ELSE 1
    <3>1. \A r, s \in Written(n) : r = s
      BY <2>0 DEF Once, Written, Ended
    <3> QED
      BY <3>1, AtMostOne
  <2>6. Cardinality(Dropped(n)) = IF Dropped(n) = {} THEN 0 ELSE 1
    <3>1. \A r, s \in Dropped(n) : r = s
      BY <2>0 DEF Once, Dropped, Ended
    <3> QED
      BY <3>1, AtMostOne
  <2>7. Written(n) = {} \/ Dropped(n) = {}
    BY <2>0 DEF Once, Written, Dropped
  <2>8. \/ Building(n) = {}
        \/ Pushing(n) = {} /\ Queued(n) = {} /\ Inserting(n) = {} /\ Written(n) = {} /\ Dropped(n) = {}
    BY DEF Once, Ended, Building, Pushing, Queued, Inserting, Written, Dropped, Queue!Slots
  <2>9. \/ Pushing(n) = {}
        \/ Queued(n) = {} /\ Inserting(n) = {} /\ Written(n) = {} /\ Dropped(n) = {}
    BY DEF Once, Ended, Pushing, Queued, Inserting, Written, Dropped, Queue!Slots
  <2>10. \/ Queued(n) = {}
         \/ Inserting(n) = {} /\ Written(n) = {} /\ Dropped(n) = {}
    BY DEF Once, Ended, Queued, Inserting, Written, Dropped, Queue!Slots
  <2>11. \/ Building(n) # {} \/ Pushing(n) # {} \/ Queued(n) # {} \/ Inserting(n) # {}
         \/ Written(n) # {} \/ Dropped(n) # {}
    BY DEF Somewhere, Ended, Building, Pushing, Queued, Inserting, Written, Dropped,
       Queue!Slots
  <2> QED
    BY <2>1, <2>2, <2>3, <2>4, <2>5, <2>6, <2>7, <2>8, <2>9, <2>10, <2>11
<1> QED
  BY <1>1, ShapeHolds, OnceHolds, PTL


-----------------------------------------------------------------------------
(* Names of files *)

(* The events anywhere.                                                    *)
Around ==
    {e \in Event :
        \/ \E t \in Threads : e = ev[t]
        \/ \E t \in Threads : hand[t] # None /\ e = hand[t].item
        \/ \E k \in Queue!Slots : slot[k] # None /\ e = slot[k].item
        \/ \E w \in Writers : e = wev[w]
        \/ e \in tables.events \cup tables.details \cup tables.codes}

(* The id of a call is its own.  That of a bundle may be that of a call or *)
(* of another bundle, but not of one with its place in its fat binary: the *)
(* bundles are gone through downwards, and whoever registers the next fat  *)
(* binary has drawn an id first.                                           *)
Names ==
    /\ \A e \in Around : IF e.kind = "code" THEN e.id <= curr_event ELSE e.id < curr_event
    /\ \A e \in Around, t \in Threads :
        (e.kind = "code" /\ loader = t /\ e.id = curr_event) => e.part > left[t]
    /\ \A e, f \in Around :
        (e.kind # "code" /\ f.kind # "code" /\ e.id = f.id /\ e.id >= 0) => e = f
    /\ \A e, f \in Around :
        (e.kind = "code" /\ f.kind = "code" /\ e.id = f.id /\ e.part = f.part) => e = f

(* Nothing new, nothing to tell apart from the rest.                       *)
LEMMA NamesKept ==
  ASSUME Names, Around' \subseteq Around, UNCHANGED <<curr_event, left, loader>>
  PROVE  Names'
BY DEF Names

(* Handing an event on makes no new one.                                   *)
LEMMA AroundKept ==
  ASSUME Shape,
         \A t \in Threads : ev'[t] # None => ev'[t] = ev[t],
         \A t \in Threads : hand'[t] # None =>
            \/ hand'[t] = hand[t]
            \/ \E u \in Threads : ev[u] # None /\ hand'[t].item = ev[u],
         \A k \in Queue!Slots : slot'[k] # None =>
            slot'[k] = slot[k] \/ \E u \in Threads : hand[u] # None /\ slot'[k] = hand[u],
         \A w \in Writers : (wev'[w] # None /\ wev'[w] \in Event) =>
            wev'[w] = wev[w] \/ \E k \in Queue!Slots : slot[k] # None /\ wev'[w] = slot[k].item,
         \A r \in Event : r \in tables'.events \cup tables'.details \cup tables'.codes =>
            \/ r \in tables.events \cup tables.details \cup tables.codes
            \/ \E w \in Writers : r = wev[w]
  PROVE  Around' \subseteq Around
BY NoneAssumption DEF Around


(* Nor does a step that moves none.                                        *)
LEMMA NamesStill ==
  ASSUME Names, UNCHANGED <<ev, hand, slot, wev, tables, curr_event, left, loader>>
  PROVE  Names'
<1>1. Around' = Around
  BY DEF Around
<1> QED
  BY <1>1, NamesKept

(* Only the event of a call that has just been made has no id, and it is   *)
(* not that of a bundle.                                                   *)
Assigned ==
    /\ \A t \in Threads : pc[t] = "assign" => ev[t].kind # "code"
    /\ \A t \in Threads : pc[t] \in Holding \ {"assign"} => ev[t].id >= 0
    /\ \A t \in Threads : hand[t] # None => hand[t].item.id >= 0
    /\ \A k \in Queue!Slots : slot[k] # None => slot[k].item.id >= 0
    /\ \A w \in Writers : (wev[w] # None /\ wev[w].fx >= 0) => wev[w].id >= 0
    /\ \A r \in tables.events \cup tables.details \cup tables.codes : r.fx >= 0 => r.id >= 0

(* A new id is a new one.                                                  *)
LEMMA NamesStep ==
  ASSUME Shape, Assigned, Names, [Next]_vars PROVE Names'
<1> USE DEF Shape, state, queue, thread, writer, database, history
<1>1. ASSUME Start PROVE Names'
  BY <1>1, NamesStill DEF Start
<1>2. ASSUME NEW t \in Threads, NEW k \in CallKinds, Call(t, k) PROVE Names'
  <2>1. Around' \subseteq Around \cup {ev'[t]}
    BY <1>2, CallEffect DEF Around
  <2> QED
    BY <1>2, <2>1, CallEffect DEF Names, TypeOK, StateOK
<1>3. ASSUME NEW t \in Threads, NEW f \in FatBins, Register(t, f) PROVE Names'
  <2>1. Around' \subseteq Around /\ curr_event' = curr_event + 1 /\ curr_event \in Nat
    BY <1>3, AroundKept DEF Register, TypeOK, StateOK
  <2>2. \A e \in Around : e.id \in Int
    BY DEF Around, Event
  <2> QED
    BY <2>1, <2>2 DEF Names
<1>4. ASSUME NEW t \in Threads, AssignId(t) PROVE Names'
  <2>1. Around' \subseteq Around \cup {ev'[t]} /\ ev[t] \in Around
    BY <1>4, AssignEffect DEF Around
  <2>2. \A e \in Around : e.id \in Int
    BY DEF Around, Event
  <2>3. \A e \in Around : e.id # curr_event \/ e.kind = "code"
    BY <1>4, <2>2, AssignEffect DEF Names
  <2>4. ev'[t].kind # "code"
    BY <1>4, AssignEffect DEF Assigned
  <2> QED
    BY <2>1, <2>2, <2>3, <2>4, <1>4, AssignEffect DEF Names
<1>5. ASSUME NEW t \in Threads, Bundle(t) PROVE Names'
  <2>1. CASE UNCHANGED ev
    <3>1. Around' \subseteq Around
      BY <1>5, <2>1, BundleEffect, AroundKept
    <3>2. \A e \in Around : e.part \in Nat
      BY DEF Around, Event
    <3> QED
      BY <1>5, <3>1, <3>2, BundleEffect DEF Names
  <2>2. CASE ev'[t] # None
    <3>1. Around' \subseteq Around \cup {ev'[t]}
      BY <1>5, <2>2, BundleEffect DEF Around
    <3>2. \A e \in Around : e.part \in Nat /\ e.id \in Int
      BY DEF Around, Event
    <3> DEFINE n == ev'[t]
    <3>3. /\ n.kind = "code" /\ n.id = curr_event /\ n.part = left[t]
          /\ left[t] \in Nat /\ left'[t] = left[t] - 1 /\ curr_event \in Nat
          /\ loader = t /\ UNCHANGED <<curr_event, loader>>
      BY <1>5, <2>2, BundleEffect DEF TypeOK, StateOK
    <3> HIDE DEF n
    <3>4. \A e \in Around' : IF e.kind = "code" THEN e.id <= curr_event' ELSE e.id < curr_event'
      BY <3>1, <3>3 DEF Names, n
    <3>5. \A e \in Around', u \in Threads :
            (e.kind = "code" /\ loader' = u /\ e.id = curr_event') => e.part > left'[u]
      BY <3>1, <3>2, <3>3 DEF Names, n
    <3>6. \A e \in Around : e.kind = "code" /\ e.id = n.id => e.part # n.part
      BY <3>2, <3>3 DEF Names
    <3> QED
      BY <3>1, <3>3, <3>4, <3>5, <3>6 DEF Names, n
  <2> QED
    BY <1>5, <2>1, <2>2, BundleEffect
<1>6. ASSUME NEW t \in Threads, Registered(t) PROVE Names'
  <2>1. Around' \subseteq Around /\ loader' = None /\ UNCHANGED curr_event
    BY <1>6, AroundKept DEF Registered
  <2> QED
    BY <2>1, NoneAssumption DEF Names
<1>7. ASSUME NEW t \in Threads, Pushback(t) PROVE Names'
  <2>1. Around' \subseteq Around
    BY <1>7, AroundKept DEF Pushback, ThreadOK, TypeOK
  <2> QED
    BY <1>7, <2>1, NamesKept DEF Pushback
<1>8. ASSUME NEW t \in Threads, NEW w \in Writers, Spawn(t, w) PROVE Names'
  BY <1>8, NamesStill DEF Spawn
<1>9. ASSUME NEW t \in Threads, Mark(t) PROVE Names'
  BY <1>9, NamesStill DEF Mark
<1>10. ASSUME NEW t \in Threads, Reserve(t) PROVE Names'
  <2>1. Around' \subseteq Around
    BY <1>10, ReserveEffect, AroundKept
  <2> QED
    BY <1>10, <2>1, ReserveEffect, NamesKept
<1>11. ASSUME NEW t \in Threads, Store(t) PROVE Names'
  <2>1. Around' \subseteq Around
    BY <1>11, StoreEffect, AroundKept
  <2> QED
    BY <1>11, <2>1, StoreEffect, NamesKept
<1>12. ASSUME NEW t \in Threads, Notify(t) PROVE Names'
  BY <1>12, NamesStill DEF Notify
<1>13. ASSUME NEW w \in Writers, Prepare(w) PROVE Names'
  BY <1>13, NamesStill DEF Prepare
<1>14. ASSUME NEW w \in Writers, Begin(w) PROVE Names'
  BY <1>14, NamesStill DEF Begin
<1>15. ASSUME NEW w \in Writers, Outer(w) PROVE Names'
  BY <1>15, NamesStill DEF Outer
<1>16. ASSUME NEW w \in Writers, Inner(w) PROVE Names'
  BY <1>16, NamesStill DEF Inner
<1>17. ASSUME NEW w \in Writers, PopClaim(w) PROVE Names'
  BY <1>17, NamesStill DEF PopClaim, Queue!Claim
<1>18. ASSUME NEW w \in Writers, PopTake(w) PROVE Names'
  <2>1. Around' \subseteq Around
    BY <1>18, TakeEffect, AroundKept
  <2> QED
    BY <1>18, <2>1, TakeEffect, NamesKept
<1>19. ASSUME NEW w \in Writers, PopNothing(w) PROVE Names'
  <2>1. wev'[w] \notin Event
    BY <1>19, NothingEffect DEF Event
  <2>2. Around' \subseteq Around
    BY <1>19, <2>1, NothingEffect, AroundKept
  <2> QED
    BY <1>19, <2>2, NothingEffect, NamesKept
<1>20. ASSUME NEW w \in Writers, InsertEvent(w) PROVE Names'
  <2>1. Around' \subseteq Around
    BY <1>20, InsertEventEffect, AroundKept
  <2> QED
    BY <1>20, <2>1, InsertEventEffect, NamesKept
<1>21. ASSUME NEW w \in Writers, WriteHostData(w) PROVE Names'
  BY <1>21, NamesStill DEF WriteHostData
<1>22. ASSUME NEW w \in Writers, InsertDetail(w) PROVE Names'
  <2>1. Around' \subseteq Around
    BY <1>22, InsertDetailEffect, AroundKept
  <2> QED
    BY <1>22, <2>1, InsertDetailEffect, NamesKept
<1>23. ASSUME NEW w \in Writers, InsertCode(w) PROVE Names'
  <2>1. Around' \subseteq Around
    BY <1>23, InsertCodeEffect, AroundKept
  <2> QED
    BY <1>23, <2>1, InsertCodeEffect, NamesKept
<1>24. ASSUME NEW w \in Writers, CheckEmpty(w) PROVE Names'
  BY <1>24, NamesStill DEF CheckEmpty
<1>25. ASSUME NEW w \in Writers, CheckLoaded(w) PROVE Names'
  BY <1>25, NamesStill DEF CheckLoaded
<1>26. ASSUME NEW w \in Writers, Enter(w) PROVE Names'
  BY <1>26, NamesStill DEF Enter
<1>27. ASSUME NEW w \in Writers, SpuriousWake(w) PROVE Names'
  BY <1>27, NamesStill DEF SpuriousWake
<1>28. ASSUME NEW w \in Writers, End(w) PROVE Names'
  BY <1>28, NamesStill DEF End
<1>29. ASSUME Exit PROVE Names'
  BY <1>29, NamesStill DEF Exit
<1>30. ASSUME ExitNotify PROVE Names'
  BY <1>30, NamesStill DEF ExitNotify
<1>31. ASSUME ExitClose PROVE Names'
  BY <1>31, NamesStill DEF ExitClose
<1>32. ASSUME ExitJoin PROVE Names'
  BY <1>32, NamesStill DEF ExitJoin
<1>33. CASE UNCHANGED vars
  BY <1>33, NamesStill DEF vars
<1> QED
  BY <1>1, <1>2, <1>3, <1>4, <1>5, <1>6, <1>7, <1>8, <1>9, <1>10, <1>11, <1>12, <1>13,
     <1>14, <1>15, <1>16, <1>17, <1>18, <1>19, <1>20, <1>21, <1>22, <1>23, <1>24, <1>25,
     <1>26, <1>27, <1>28, <1>29, <1>30, <1>31, <1>32, <1>33 DEF Next, Program, PushStep,
     WriterStep, ExitStep

(* Nothing is pushed before it has an id.                                  *)
LEMMA AssignedStep ==
  ASSUME Shape, Assigned, [Next]_vars PROVE Assigned'
<1> USE DEF Shape, TypeOK, StateOK, ThreadOK, WriterOK, Placed, Holding, Assigned, At,
      Goto, WGoto, state, queue, thread, writer, database, history
<1>1. ASSUME Start PROVE Assigned'
  BY <1>1 DEF Start
<1>2. ASSUME NEW t \in Threads, NEW k \in CallKinds, Call(t, k) PROVE Assigned'
  BY <1>2, CallEffect
<1>3. ASSUME NEW t \in Threads, NEW f \in FatBins, Register(t, f) PROVE Assigned'
  BY <1>3 DEF Register
<1>4. ASSUME NEW t \in Threads, AssignId(t) PROVE Assigned'
  BY <1>4, AssignEffect
<1>5. ASSUME NEW t \in Threads, Bundle(t) PROVE Assigned'
  BY <1>5, BundleEffect
<1>6. ASSUME NEW t \in Threads, Registered(t) PROVE Assigned'
  BY <1>6 DEF Registered
<1>7. ASSUME NEW t \in Threads, Pushback(t) PROVE Assigned'
  BY <1>7 DEF Pushback, Caller
<1>8. ASSUME NEW t \in Threads, NEW w \in Writers, Spawn(t, w) PROVE Assigned'
  BY <1>8 DEF Spawn
<1>9. ASSUME NEW t \in Threads, Mark(t) PROVE Assigned'
  BY <1>9 DEF Mark
<1>10. ASSUME NEW t \in Threads, Reserve(t) PROVE Assigned'
  BY <1>10, ReserveEffect
<1>11. ASSUME NEW t \in Threads, Store(t) PROVE Assigned'
  BY <1>11, StoreEffect
<1>12. ASSUME NEW t \in Threads, Notify(t) PROVE Assigned'
  BY <1>12 DEF Notify, WakeAll, Caller
<1>13. ASSUME NEW w \in Writers, Prepare(w) PROVE Assigned'
  BY <1>13 DEF Prepare
<1>14. ASSUME NEW w \in Writers, Begin(w) PROVE Assigned'
  BY <1>14 DEF Begin
<1>15. ASSUME NEW w \in Writers, Outer(w) PROVE Assigned'
  BY <1>15 DEF Outer
<1>16. ASSUME NEW w \in Writers, Inner(w) PROVE Assigned'
  BY <1>16 DEF Inner
<1>17. ASSUME NEW w \in Writers, PopClaim(w) PROVE Assigned'
  BY <1>17 DEF PopClaim, Queue!Claim
<1>18. ASSUME NEW w \in Writers, PopTake(w) PROVE Assigned'
  BY <1>18, TakeEffect
<1>19. ASSUME NEW w \in Writers, PopNothing(w) PROVE Assigned'
  BY <1>19, NothingEffect
<1>20. ASSUME NEW w \in Writers, InsertEvent(w) PROVE Assigned'
  BY <1>20, InsertEventEffect
<1>21. ASSUME NEW w \in Writers, WriteHostData(w) PROVE Assigned'
  BY <1>21 DEF WriteHostData
<1>22. ASSUME NEW w \in Writers, InsertDetail(w) PROVE Assigned'
  BY <1>22, InsertDetailEffect
<1>23. ASSUME NEW w \in Writers, InsertCode(w) PROVE Assigned'
  BY <1>23, InsertCodeEffect
<1>24. ASSUME NEW w \in Writers, CheckEmpty(w) PROVE Assigned'
  BY <1>24 DEF CheckEmpty
<1>25. ASSUME NEW w \in Writers, CheckLoaded(w) PROVE Assigned'
  BY <1>25 DEF CheckLoaded
<1>26. ASSUME NEW w \in Writers, Enter(w) PROVE Assigned'
  BY <1>26 DEF Enter
<1>27. ASSUME NEW w \in Writers, SpuriousWake(w) PROVE Assigned'
  BY <1>27 DEF SpuriousWake
<1>28. ASSUME NEW w \in Writers, End(w) PROVE Assigned'
  BY <1>28 DEF End
<1>29. ASSUME Exit PROVE Assigned'
  BY <1>29 DEF Exit
<1>30. ASSUME ExitNotify PROVE Assigned'
  BY <1>30 DEF ExitNotify, WakeAll
<1>31. ASSUME ExitClose PROVE Assigned'
  BY <1>31 DEF ExitClose
<1>32. ASSUME ExitJoin PROVE Assigned'
  BY <1>32 DEF ExitJoin
<1>33. CASE UNCHANGED vars
  BY <1>33 DEF vars
<1> QED
  BY <1>1, <1>2, <1>3, <1>4, <1>5, <1>6, <1>7, <1>8, <1>9, <1>10, <1>11, <1>12, <1>13,
     <1>14, <1>15, <1>16, <1>17, <1>18, <1>19, <1>20, <1>21, <1>22, <1>23, <1>24, <1>25,
     <1>26, <1>27, <1>28, <1>29, <1>30, <1>31, <1>32, <1>33 DEF Next, Program, PushStep,
     WriterStep, ExitStep


(* The tables of what is in them; a file is written before its row.        *)
HasFile(r, fs) == FileOf(r) \in DOMAIN fs /\ fs[FileOf(r)] = r.fx
Sorted ==
    /\ \A r \in tables.events \cup tables.details : r.kind # "code"
    /\ \A r \in tables.codes : r.kind = "code"
Filed ==
    /\ \A r \in tables.codes : HasFile(r, files)
    /\ \A r \in tables.details : r.kind = "copy" => HasFile(r, files)
    /\ \A w \in Writers : (wpc[w] = "detail" /\ wev[w].kind = "copy") => HasFile(wev[w], files)

(* What is written for an event is not what another one has.               *)
LEMMA WriteApart ==
  ASSUME Names, NEW e \in Around, NEW r \in Around, Write(e), HasFile(r, files),
         e.kind \in {"copy", "code"}, r.kind \in {"copy", "code"},
         e.kind = "copy" => e.id >= 0
  PROVE  HasFile(r, files')
<1>1. DOMAIN files' = DOMAIN files \cup {FileOf(e)}
  BY DEF Write
<1>2. \A f \in DOMAIN files' : files'[f] = IF f = FileOf(e) THEN e.fx ELSE files[f]
  BY DEF Write
<1>3. FileOf(e) = FileOf(r) => e = r
  <2> SUFFICES ASSUME FileOf(e) = FileOf(r) PROVE e = r
    OBVIOUS
  <2>1. CASE e.kind = "code"
    <3>1. r.kind = "code" /\ e.id = r.id /\ e.part = r.part
      BY <2>1 DEF FileOf
    <3> QED
      BY <2>1, <3>1 DEF Names
  <2>2. CASE e.kind = "copy"
    <3>1. r.kind # "code" /\ e.id = r.id
      BY <2>2 DEF FileOf
    <3> QED
      BY <2>2, <3>1 DEF Names
  <2> QED
    BY <2>1, <2>2
<1> HIDE DEF Write
<1> QED
  BY <1>1, <1>2, <1>3 DEF HasFile
(* The file that is written is there afterwards.                           *)
LEMMA WriteOwn == ASSUME NEW e, Write(e) PROVE HasFile(e, files')
  BY DEF Write, HasFile

(* What has, or is about to have, a file is an event.                      *)
LEMMA FiledAround ==
  ASSUME Shape, Sorted
  PROVE  /\ tables.codes \subseteq Around
         /\ \A r \in tables.details : r.kind = "copy" => r \in Around
         /\ \A w \in Writers : (wev[w] # None /\ wev[w].kind \in {"copy", "code"}) => wev[w] \in Around
<1>1. \A e \in Event \cup Garbage : e.kind \in {"copy", "code"} => e \in Event
  BY DEF Garbage
<1>2. tables.codes \subseteq Event /\ tables.details \subseteq Event \cup Garbage
  BY DEF Shape, TypeOK, DatabaseOK, Rows
<1>3. \A w \in Writers : wev[w] # None => wev[w] \in Event \cup Garbage
  BY DEF Shape, TypeOK, WriterOK
<1> QED
  BY <1>1, <1>2, <1>3 DEF Around

(* Each insert goes to its table.                                          *)
LEMMA SortedStep ==
  ASSUME Shape, Sorted, [Next]_vars PROVE Sorted'
<1> USE DEF Shape, Sorted, state, queue, thread, writer, database, history
<1>1. ASSUME Start PROVE Sorted'
  BY <1>1 DEF Start
<1>2. ASSUME NEW t \in Threads, NEW k \in CallKinds, Call(t, k) PROVE Sorted'
  BY <1>2, CallEffect
<1>3. ASSUME NEW t \in Threads, NEW f \in FatBins, Register(t, f) PROVE Sorted'
  BY <1>3 DEF Register
<1>4. ASSUME NEW t \in Threads, AssignId(t) PROVE Sorted'
  BY <1>4, AssignEffect
<1>5. ASSUME NEW t \in Threads, Bundle(t) PROVE Sorted'
  BY <1>5, BundleEffect
<1>6. ASSUME NEW t \in Threads, Registered(t) PROVE Sorted'
  BY <1>6 DEF Registered
<1>7. ASSUME NEW t \in Threads, Pushback(t) PROVE Sorted'
  BY <1>7 DEF Pushback
<1>8. ASSUME NEW t \in Threads, NEW w \in Writers, Spawn(t, w) PROVE Sorted'
  BY <1>8 DEF Spawn
<1>9. ASSUME NEW t \in Threads, Mark(t) PROVE Sorted'
  BY <1>9 DEF Mark
<1>10. ASSUME NEW t \in Threads, Reserve(t) PROVE Sorted'
  BY <1>10, ReserveEffect
<1>11. ASSUME NEW t \in Threads, Store(t) PROVE Sorted'
  BY <1>11, StoreEffect
<1>12. ASSUME NEW t \in Threads, Notify(t) PROVE Sorted'
  BY <1>12 DEF Notify, WakeAll
<1>13. ASSUME NEW w \in Writers, Prepare(w) PROVE Sorted'
  BY <1>13 DEF Prepare
<1>14. ASSUME NEW w \in Writers, Begin(w) PROVE Sorted'
  BY <1>14 DEF Begin
<1>15. ASSUME NEW w \in Writers, Outer(w) PROVE Sorted'
  BY <1>15 DEF Outer
<1>16. ASSUME NEW w \in Writers, Inner(w) PROVE Sorted'
  BY <1>16 DEF Inner
<1>17. ASSUME NEW w \in Writers, PopClaim(w) PROVE Sorted'
  BY <1>17 DEF PopClaim, Queue!Claim
<1>18. ASSUME NEW w \in Writers, PopTake(w) PROVE Sorted'
  BY <1>18, TakeEffect
<1>19. ASSUME NEW w \in Writers, PopNothing(w) PROVE Sorted'
  BY <1>19, NothingEffect
<1>20. ASSUME NEW w \in Writers, InsertEvent(w) PROVE Sorted'
  BY <1>20, InsertEventEffect
<1>21. ASSUME NEW w \in Writers, WriteHostData(w) PROVE Sorted'
  BY <1>21 DEF WriteHostData
<1>22. ASSUME NEW w \in Writers, InsertDetail(w) PROVE Sorted'
  BY <1>22, InsertDetailEffect
<1>23. ASSUME NEW w \in Writers, InsertCode(w) PROVE Sorted'
  BY <1>23, InsertCodeEffect
<1>24. ASSUME NEW w \in Writers, CheckEmpty(w) PROVE Sorted'
  BY <1>24 DEF CheckEmpty
<1>25. ASSUME NEW w \in Writers, CheckLoaded(w) PROVE Sorted'
  BY <1>25 DEF CheckLoaded
<1>26. ASSUME NEW w \in Writers, Enter(w) PROVE Sorted'
  BY <1>26 DEF Enter
<1>27. ASSUME NEW w \in Writers, SpuriousWake(w) PROVE Sorted'
  BY <1>27 DEF SpuriousWake
<1>28. ASSUME NEW w \in Writers, End(w) PROVE Sorted'
  BY <1>28 DEF End
<1>29. ASSUME Exit PROVE Sorted'
  BY <1>29 DEF Exit
<1>30. ASSUME ExitNotify PROVE Sorted'
  BY <1>30 DEF ExitNotify, WakeAll
<1>31. ASSUME ExitClose PROVE Sorted'
  BY <1>31 DEF ExitClose
<1>32. ASSUME ExitJoin PROVE Sorted'
  BY <1>32 DEF ExitJoin
<1>33. CASE UNCHANGED vars
  BY <1>33 DEF vars
<1> QED
  BY <1>1, <1>2, <1>3, <1>4, <1>5, <1>6, <1>7, <1>8, <1>9, <1>10, <1>11, <1>12, <1>13,
     <1>14, <1>15, <1>16, <1>17, <1>18, <1>19, <1>20, <1>21, <1>22, <1>23, <1>24, <1>25,
     <1>26, <1>27, <1>28, <1>29, <1>30, <1>31, <1>32, <1>33 DEF Next, Program, PushStep,
     WriterStep, ExitStep

(* No file is written over before the end.                                 *)
LEMMA FiledStep ==
  ASSUME Shape, Assigned, Names, Sorted, Filed, [Next]_vars PROVE Filed'
<1> USE DEF Shape, Filed, WGoto, TypeOK, WriterOK, state, queue, thread, writer,
      database, history
<1>1. ASSUME Start PROVE Filed'
  BY <1>1 DEF Start
<1>2. ASSUME NEW t \in Threads, NEW k \in CallKinds, Call(t, k) PROVE Filed'
  BY <1>2, CallEffect
<1>3. ASSUME NEW t \in Threads, NEW f \in FatBins, Register(t, f) PROVE Filed'
  BY <1>3 DEF Register
<1>4. ASSUME NEW t \in Threads, AssignId(t) PROVE Filed'
  BY <1>4, AssignEffect
<1>5. ASSUME NEW t \in Threads, Bundle(t) PROVE Filed'
  BY <1>5, BundleEffect
<1>6. ASSUME NEW t \in Threads, Registered(t) PROVE Filed'
  BY <1>6 DEF Registered
<1>7. ASSUME NEW t \in Threads, Pushback(t) PROVE Filed'
  BY <1>7 DEF Pushback
<1>8. ASSUME NEW t \in Threads, NEW w \in Writers, Spawn(t, w) PROVE Filed'
  BY <1>8 DEF Spawn
<1>9. ASSUME NEW t \in Threads, Mark(t) PROVE Filed'
  BY <1>9 DEF Mark
<1>10. ASSUME NEW t \in Threads, Reserve(t) PROVE Filed'
  BY <1>10, ReserveEffect
<1>11. ASSUME NEW t \in Threads, Store(t) PROVE Filed'
  BY <1>11, StoreEffect
<1>12. ASSUME NEW t \in Threads, Notify(t) PROVE Filed'
  BY <1>12 DEF Notify, WakeAll
<1>13. ASSUME NEW w \in Writers, Prepare(w) PROVE Filed'
  BY <1>13 DEF Prepare
<1>14. ASSUME NEW w \in Writers, Begin(w) PROVE Filed'
  BY <1>14 DEF Begin
<1>15. ASSUME NEW w \in Writers, Outer(w) PROVE Filed'
  BY <1>15 DEF Outer
<1>16. ASSUME NEW w \in Writers, Inner(w) PROVE Filed'
  BY <1>16 DEF Inner
<1>17. ASSUME NEW w \in Writers, PopClaim(w) PROVE Filed'
  BY <1>17 DEF PopClaim, Queue!Claim
<1>18. ASSUME NEW w \in Writers, PopTake(w) PROVE Filed'
  BY <1>18, TakeEffect
<1>19. ASSUME NEW w \in Writers, PopNothing(w) PROVE Filed'
  BY <1>19, NothingEffect
<1>20. ASSUME NEW w \in Writers, InsertEvent(w) PROVE Filed'
  BY <1>20, InsertEventEffect
<1>21. ASSUME NEW w \in Writers, WriteHostData(w) PROVE Filed'
  <2>1. /\ wpc[w] = "file" /\ wev[w] # None /\ wev[w].kind = "copy"
        /\ Write(wev[w]) /\ UNCHANGED <<wev, tables>>
        /\ \A u \in Writers : wpc'[u] = "detail" => u = w \/ wpc[u] = "detail"
    BY <1>21 DEF WriteHostData, TypeOK, WriterOK, Placed, WGoto
  <2>2. wev[w] \in Around /\ wev[w].id >= 0
    BY <1>21, <2>1, FiledAround, InsertingType DEF Assigned
  <2>3. \A r \in Around : (HasFile(r, files) /\ r.kind \in {"copy", "code"}) => HasFile(r, files')
    BY <2>1, <2>2, WriteApart
  <2>4. HasFile(wev[w], files')
    BY <2>1, WriteOwn
  <2>5. \A u \in Writers : (wpc[u] = "detail" /\ wev[u].kind = "copy") => wev[u] \in Around
    BY FiledAround DEF Placed
  <2>6. \A r \in tables.codes : r \in Around /\ r.kind = "code"
    BY FiledAround DEF Sorted
  <2> QED
    BY <2>1, <2>3, <2>4, <2>5, <2>6, FiledAround DEF Filed
<1>22. ASSUME NEW w \in Writers, InsertDetail(w) PROVE Filed'
  <2>1. wev[w].kind = "copy" => HasFile(wev[w], files)
    BY <1>22, InsertDetailEffect DEF Filed
  <2> QED
    BY <1>22, <2>1, InsertDetailEffect DEF Filed
<1>23. ASSUME NEW w \in Writers, InsertCode(w) PROVE Filed'
  <2>1. Write(wev[w]) /\ wev[w] # None /\ wev[w].kind = "code" /\ wev[w] \in Around
    BY <1>23, InsertCodeEffect, FiledAround
  <2>2. \A r \in Around : (HasFile(r, files) /\ r.kind \in {"copy", "code"}) => HasFile(r, files')
    BY <2>1, WriteApart
  <2>3. HasFile(wev[w], files')
    BY <2>1, WriteOwn
  <2>4. \A u \in Writers : (wpc'[u] = "detail" /\ wev'[u].kind = "copy") =>
            wev[u] \in Around /\ wev'[u] = wev[u] /\ wpc[u] = "detail"
    BY <1>23, InsertCodeEffect, FiledAround DEF Placed
  <2>5. \A r \in tables.codes : r \in Around /\ r.kind = "code"
    BY FiledAround DEF Sorted
  <2>6. tables'.codes \subseteq tables.codes \cup {wev[w]} /\ tables'.details = tables.details
    BY <1>23, InsertCodeEffect
  <2> QED
    BY <2>1, <2>2, <2>3, <2>4, <2>5, <2>6, FiledAround DEF Filed
<1>24. ASSUME NEW w \in Writers, CheckEmpty(w) PROVE Filed'
  BY <1>24 DEF CheckEmpty
<1>25. ASSUME NEW w \in Writers, CheckLoaded(w) PROVE Filed'
  BY <1>25 DEF CheckLoaded
<1>26. ASSUME NEW w \in Writers, Enter(w) PROVE Filed'
  BY <1>26 DEF Enter
<1>27. ASSUME NEW w \in Writers, SpuriousWake(w) PROVE Filed'
  BY <1>27 DEF SpuriousWake
<1>28. ASSUME NEW w \in Writers, End(w) PROVE Filed'
  BY <1>28 DEF End
<1>29. ASSUME Exit PROVE Filed'
  BY <1>29 DEF Exit
<1>30. ASSUME ExitNotify PROVE Filed'
  BY <1>30 DEF ExitNotify, WakeAll
<1>31. ASSUME ExitClose PROVE Filed'
  BY <1>31 DEF ExitClose
<1>32. ASSUME ExitJoin PROVE Filed'
  BY <1>32 DEF ExitJoin
<1>33. CASE UNCHANGED vars
  BY <1>33 DEF vars
<1> QED
  BY <1>1, <1>2, <1>3, <1>4, <1>5, <1>6, <1>7, <1>8, <1>9, <1>10, <1>11, <1>12, <1>13,
     <1>14, <1>15, <1>16, <1>17, <1>18, <1>19, <1>20, <1>21, <1>22, <1>23, <1>24, <1>25,
     <1>26, <1>27, <1>28, <1>29, <1>30, <1>31, <1>32, <1>33 DEF Next, Program, PushStep,
     WriterStep, ExitStep


(* Ids, the columns of a row and the files it names, in every behaviour.   *)
LEMMA FiledHolds == Spec => [](Names /\ Assigned /\ Sorted /\ Filed)
<1>1. Init => Names /\ Assigned /\ Sorted /\ Filed
  <2> SUFFICES ASSUME Init PROVE Names /\ Assigned /\ Sorted /\ Filed
    OBVIOUS
  <2>1. tables.events = {} /\ tables.details = {} /\ tables.codes = {}
    BY DEF Init, NoRows
  <2>2. /\ \A t \in Threads : pc[t] = "idle" /\ ev[t] = None /\ hand[t] = None
        /\ \A w \in Writers : wpc[w] = "unborn" /\ wev[w] = None
        /\ \A k \in Queue!Slots : slot[k] = None
    BY DEF Init, Queue!Init
  <2>3. Around = {}
    BY <2>1, <2>2, NoneAssumption DEF Around
  <2> QED
    BY <2>1, <2>2, <2>3 DEF Names, Assigned, Sorted, Filed, Holding
<1> QED
  BY <1>1, ShapeHolds, NamesStep, AssignedStep, SortedStep, FiledStep, PTL DEF Spec

(* The file named by a row of Code or of a copy is there and is that of    *)
(* the row's own event: no name is made twice.                             *)
THEOREM FilesHoldTheirRowsHolds == Spec => []FilesHoldTheirRows
<1>1. Filed => FilesHoldTheirRows
  BY DEF Filed, HasFile, FilesHoldTheirRows
<1> QED
  BY <1>1, FiledHolds, PTL


-----------------------------------------------------------------------------
(* The database *)

(* The database is there for a writer from when it has prepared its        *)
(* statements: sqlite3_close refuses while there are any, and a writer     *)
(* that finds it closed is born after the end of the program.              *)
Served ==
    /\ event_db # "null" <=> mode = "capture"
    /\ event_db # "open" => stmts = {}
    /\ stmts = {} => tables = NoRows /\ disk = NoRows
    /\ event_db = "closed" => dtor \in {"join", "destroyed"}
    /\ mode = "capture" => (library_loaded <=> dtor = "run")
    /\ mode = "capture" =>
        \A w \in Writers :
            wpc[w] \notin {"unborn", "start"} =>
                w \in stmts \/ (event_db = "closed" /\ wpc[w] \in {"begin", "outer", "end", "done"})

(* The database is closed under no writer's hands.                         *)
LEMMA ServedStep ==
  ASSUME Shape, Served, [Next]_vars PROVE Served'
<1> USE DEF Shape, TypeOK, StateOK, WriterOK, Served, WGoto, state, queue, thread,
      writer, database, history
<1>1. ASSUME Start PROVE Served'
  BY <1>1 DEF Start
<1>2. ASSUME NEW t \in Threads, NEW k \in CallKinds, Call(t, k) PROVE Served'
  BY <1>2, CallEffect
<1>3. ASSUME NEW t \in Threads, NEW f \in FatBins, Register(t, f) PROVE Served'
  BY <1>3 DEF Register
<1>4. ASSUME NEW t \in Threads, AssignId(t) PROVE Served'
  BY <1>4, AssignEffect
<1>5. ASSUME NEW t \in Threads, Bundle(t) PROVE Served'
  BY <1>5, BundleEffect
<1>6. ASSUME NEW t \in Threads, Registered(t) PROVE Served'
  BY <1>6 DEF Registered
<1>7. ASSUME NEW t \in Threads, Pushback(t) PROVE Served'
  BY <1>7 DEF Pushback
<1>8. ASSUME NEW t \in Threads, NEW w \in Writers, Spawn(t, w) PROVE Served'
  BY <1>8 DEF Spawn
<1>9. ASSUME NEW t \in Threads, Mark(t) PROVE Served'
  BY <1>9 DEF Mark
<1>10. ASSUME NEW t \in Threads, Reserve(t) PROVE Served'
  BY <1>10, ReserveEffect
<1>11. ASSUME NEW t \in Threads, Store(t) PROVE Served'
  BY <1>11, StoreEffect
<1>12. ASSUME NEW t \in Threads, Notify(t) PROVE Served'
  BY <1>12 DEF Notify, WakeAll
<1>13. ASSUME NEW w \in Writers, Prepare(w) PROVE Served'
  BY <1>13 DEF Prepare
<1>14. ASSUME NEW w \in Writers, Begin(w) PROVE Served'
  BY <1>14 DEF Begin
<1>15. ASSUME NEW w \in Writers, Outer(w) PROVE Served'
  BY <1>15 DEF Outer
<1>16. ASSUME NEW w \in Writers, Inner(w) PROVE Served'
  BY <1>16 DEF Inner
<1>17. ASSUME NEW w \in Writers, PopClaim(w) PROVE Served'
  BY <1>17 DEF PopClaim, Queue!Claim
<1>18. ASSUME NEW w \in Writers, PopTake(w) PROVE Served'
  BY <1>18, TakeEffect
<1>19. ASSUME NEW w \in Writers, PopNothing(w) PROVE Served'
  BY <1>19, NothingEffect
<1>20. ASSUME NEW w \in Writers, InsertEvent(w) PROVE Served'
  BY <1>20, InsertEventEffect DEF Usable
<1>21. ASSUME NEW w \in Writers, WriteHostData(w) PROVE Served'
  BY <1>21 DEF WriteHostData
<1>22. ASSUME NEW w \in Writers, InsertDetail(w) PROVE Served'
  BY <1>22, InsertDetailEffect DEF Usable
<1>23. ASSUME NEW w \in Writers, InsertCode(w) PROVE Served'
  BY <1>23, InsertCodeEffect DEF Usable
<1>24. ASSUME NEW w \in Writers, CheckEmpty(w) PROVE Served'
  BY <1>24 DEF CheckEmpty
<1>25. ASSUME NEW w \in Writers, CheckLoaded(w) PROVE Served'
  BY <1>25 DEF CheckLoaded
<1>26. ASSUME NEW w \in Writers, Enter(w) PROVE Served'
  BY <1>26 DEF Enter
<1>27. ASSUME NEW w \in Writers, SpuriousWake(w) PROVE Served'
  BY <1>27 DEF SpuriousWake
<1>28. ASSUME NEW w \in Writers, End(w) PROVE Served'
  BY <1>28 DEF End
<1>29. ASSUME Exit PROVE Served'
  BY <1>29 DEF Exit
<1>30. ASSUME ExitNotify PROVE Served'
  BY <1>30 DEF ExitNotify, WakeAll
<1>31. ASSUME ExitClose PROVE Served'
  BY <1>31 DEF ExitClose
<1>32. ASSUME ExitJoin PROVE Served'
  BY <1>32 DEF ExitJoin
<1>33. CASE UNCHANGED vars
  BY <1>33 DEF vars
<1> QED
  BY <1>1, <1>2, <1>3, <1>4, <1>5, <1>6, <1>7, <1>8, <1>9, <1>10, <1>11, <1>12, <1>13,
     <1>14, <1>15, <1>16, <1>17, <1>18, <1>19, <1>20, <1>21, <1>22, <1>23, <1>24, <1>25,
     <1>26, <1>27, <1>28, <1>29, <1>30, <1>31, <1>32, <1>33 DEF Next, Program, PushStep,
     WriterStep, ExitStep


(* The database serves its writers in every behaviour.                     *)
LEMMA ServedHolds == Spec => []Served
<1>1. Init => Served
  BY DEF Init, Served
<1> QED
  BY <1>1, ShapeHolds, ServedStep, PTL DEF Spec

(* So the statements of a writer that has something to insert can be used. *)
LEMMA CanInsert ==
  ASSUME Served, mode = "capture", NEW w \in Writers,
         wpc[w] \in {"insert", "file", "detail"}
  PROVE  Usable(w)
BY DEF Served, Usable


-----------------------------------------------------------------------------
(* Recording with one writer *)

(* All that is inserted is events, and nothing is refused.                 *)
Genuine ==
    /\ dropped = {}
    /\ \A r \in tables.events \cup tables.codes : r.fx >= 0
    /\ \A w \in Writers : wev[w] # None => wev[w].fx >= 0
    /\ \A w \in Writers : wpc[w] = "pop" => head > tail

(* The writer is in its transaction whenever it inserts.                   *)
InTransaction ==
    /\ \A w \in Writers :
        (event_db = "open" /\ wpc[w] \notin {"unborn", "start", "begin", "done"}) => txn
    /\ \A w \in Writers : wpc[w] = "done" => ~txn
    /\ ~txn => tables = disk

(* The rows of an event are both there, or it is in the writer's hands.    *)
Detailed(rows) == {r \in rows.events : r.kind # "plain"}
InHand(w) == wpc[w] \in {"file", "detail"}
Whole ==
    /\ disk.details = Detailed(disk)
    /\ \A w \in Writers : InHand(w) =>
        /\ wev[w] \in tables.events
        /\ tables.details = Detailed(tables) \ {wev[w]}
    /\ (\A w \in Writers : ~InHand(w)) => tables.details = Detailed(tables)

Recording == Sole => Genuine /\ InTransaction /\ Whole

(* What the threads and the writer do to the events, as proved so far.     *)
Tracked == Shape /\ Alone /\ Once /\ Names /\ Assigned /\ Sorted /\ Served

(* There is one writer, and it was there before unless it is just born.    *)
LEMMA OneBorn ==
  ASSUME Alone, Sole, NEW u \in Writers, NEW w \in Writers, Born(u), Born(w)
  PROVE  u = w
BY DEF Alone, Sole

(* A capture with one writer had one before.                               *)
LEMMA SoleBefore == ASSUME [Next]_vars, Sole' PROVE Sole
BY DEF Next, Program, PushStep, WriterStep, ExitStep, vars, state, thread, Sole,
       Start, Exit, ExitNotify, ExitClose, ExitJoin, Call, Register, AssignId, Bundle, Registered,
       Pushback, Spawn, Mark, Reserve, Store, Notify, Prepare, Begin, Outer, Inner, PopClaim,
       PopTake, PopNothing, InsertEvent, WriteHostData, InsertDetail, InsertCode, CheckEmpty,
       CheckLoaded, Enter, End, SpuriousWake

(* The key of an event that comes from the queue is not in Events: a row   *)
(* with it would be a row of that event.                                   *)
LEMMA KeyIsFresh ==
  ASSUME Tracked, Genuine, NEW w \in Writers, InsertEvent(w)
  PROVE  FreshKey(wev[w]) /\ wev[w] \notin tables.events
<1>1. /\ wpc[w] = "insert" /\ wev[w] # None /\ wev[w] \in Event \cup Garbage
      /\ wev[w].kind # "code"
  BY InsertEventEffect DEF Tracked
<1>2. wev[w].fx >= 0
  BY <1>1 DEF Genuine
<1>3. \A e \in Event \cup Garbage : e.fx >= 0 => e \in Event
  BY DEF Garbage
<1>4. wev[w] \in Around /\ wev[w].id >= 0
  BY <1>1, <1>2, <1>3 DEF Around, Tracked, Assigned
<1>5. \A r \in tables.events : r \in Around /\ r.kind # "code"
  <2>1. tables.events \subseteq Event \cup Garbage
    BY DEF Tracked, Shape, TypeOK, DatabaseOK, Rows
  <2> QED
    BY <1>3, <2>1 DEF Around, Genuine, Tracked, Sorted
<1>6. \A r \in tables.events : r # wev[w]
  BY <1>1, <1>2 DEF Tracked, Once, Ended
<1> QED
  BY <1>1, <1>4, <1>5, <1>6 DEF Tracked, Names, FreshKey

(* Nor is that of its details in their table.                              *)
LEMMA DetailIsFresh ==
  ASSUME Tracked, Genuine, Whole, NEW w \in Writers, InsertDetail(w)
  PROVE  \A r \in tables.details : r.id # wev[w].id
<1>1. /\ wpc[w] = "detail" /\ wev[w] # None /\ wev[w] \in Event \cup Garbage
      /\ wev[w].kind \in {"detail", "copy"}
  BY InsertDetailEffect DEF Tracked
<1>2. wev[w].fx >= 0
  BY <1>1 DEF Genuine
<1>3. \A e \in Event \cup Garbage : e.fx >= 0 => e \in Event
  BY DEF Garbage
<1>4. wev[w] \in Around /\ wev[w].id >= 0
  BY <1>1, <1>2, <1>3 DEF Around, Tracked, Assigned
<1>5. \A r \in tables.events : r \in Around /\ r.kind # "code"
  <2>1. tables.events \subseteq Event \cup Garbage
    BY DEF Tracked, Shape, TypeOK, DatabaseOK, Rows
  <2> QED
    BY <1>3, <2>1 DEF Around, Genuine, Tracked, Sorted
<1>6. \A r \in tables.details : r \in tables.events /\ r # wev[w]
  BY <1>1 DEF Whole, InHand, Detailed
<1> QED
  BY <1>1, <1>4, <1>5, <1>6 DEF Tracked, Names

(* Statements are usable, keys are fresh, and try_pop never fails.         *)
LEMMA GenuineStep ==
  ASSUME Tracked, Sole, Genuine, [Next]_vars PROVE Genuine'
<1> USE DEF Tracked, Shape, TypeOK, WriterOK, Queue!TypeOK, Genuine, WGoto, state,
      queue, thread, writer, database, history
<1>1. ASSUME Start PROVE Genuine'
  BY <1>1 DEF Start
<1>2. ASSUME NEW t \in Threads, NEW k \in CallKinds, Call(t, k) PROVE Genuine'
  BY <1>2, CallEffect
<1>3. ASSUME NEW t \in Threads, NEW f \in FatBins, Register(t, f) PROVE Genuine'
  BY <1>3 DEF Register
<1>4. ASSUME NEW t \in Threads, AssignId(t) PROVE Genuine'
  BY <1>4, AssignEffect
<1>5. ASSUME NEW t \in Threads, Bundle(t) PROVE Genuine'
  BY <1>5, BundleEffect
<1>6. ASSUME NEW t \in Threads, Registered(t) PROVE Genuine'
  BY <1>6 DEF Registered
<1>7. ASSUME NEW t \in Threads, Pushback(t) PROVE Genuine'
  BY <1>7 DEF Pushback
<1>8. ASSUME NEW t \in Threads, NEW w \in Writers, Spawn(t, w) PROVE Genuine'
  BY <1>8 DEF Spawn
<1>9. ASSUME NEW t \in Threads, Mark(t) PROVE Genuine'
  BY <1>9 DEF Mark
<1>10. ASSUME NEW t \in Threads, Reserve(t) PROVE Genuine'
  BY <1>10, ReserveEffect
<1>11. ASSUME NEW t \in Threads, Store(t) PROVE Genuine'
  BY <1>11, StoreEffect
<1>12. ASSUME NEW t \in Threads, Notify(t) PROVE Genuine'
  BY <1>12 DEF Notify, WakeAll
<1>13. ASSUME NEW w \in Writers, Prepare(w) PROVE Genuine'
  BY <1>13 DEF Prepare
<1>14. ASSUME NEW w \in Writers, Begin(w) PROVE Genuine'
  BY <1>14 DEF Begin
<1>15. ASSUME NEW w \in Writers, Outer(w) PROVE Genuine'
  BY <1>15 DEF Outer
<1>16. ASSUME NEW w \in Writers, Inner(w) PROVE Genuine'
  BY <1>16 DEF Inner, was_empty
<1>17. ASSUME NEW w \in Writers, PopClaim(w) PROVE Genuine'
  <2>1. wpc[w] = "pop" /\ wpc'[w] = "take" /\ \A u \in Writers \ {w} : wpc'[u] = wpc[u]
    BY <1>17 DEF PopClaim, WGoto, TypeOK, WriterOK
  <2>2. \A u \in Writers : wpc'[u] # "pop"
    BY <2>1, OneBorn DEF Born
  <2> QED
    BY <1>17, <2>2 DEF PopClaim, Queue!Claim
<1>18. ASSUME NEW w \in Writers, PopTake(w) PROVE Genuine'
  BY <1>18, TakeEffect DEF Event
<1>19. ASSUME NEW w \in Writers, PopNothing(w) PROVE Genuine'
  BY <1>19, NothingEffect DEF was_empty, Genuine, TypeOK, Queue!TypeOK
<1>20. ASSUME NEW w \in Writers, InsertEvent(w) PROVE Genuine'
  <2>1. Usable(w) /\ FreshKey(wev[w])
    BY <1>20, CanInsert, KeyIsFresh, InsertEventEffect DEF Sole
  <2> QED
    BY <1>20, <2>1, InsertEventEffect
<1>21. ASSUME NEW w \in Writers, WriteHostData(w) PROVE Genuine'
  BY <1>21 DEF WriteHostData
<1>22. ASSUME NEW w \in Writers, InsertDetail(w) PROVE Genuine'
  BY <1>22, InsertDetailEffect
<1>23. ASSUME NEW w \in Writers, InsertCode(w) PROVE Genuine'
  <2>1. Usable(w)
    BY <1>23, CanInsert, InsertCodeEffect DEF Sole
  <2> QED
    BY <1>23, <2>1, InsertCodeEffect
<1>24. ASSUME NEW w \in Writers, CheckEmpty(w) PROVE Genuine'
  BY <1>24 DEF CheckEmpty
<1>25. ASSUME NEW w \in Writers, CheckLoaded(w) PROVE Genuine'
  BY <1>25 DEF CheckLoaded
<1>26. ASSUME NEW w \in Writers, Enter(w) PROVE Genuine'
  BY <1>26 DEF Enter
<1>27. ASSUME NEW w \in Writers, SpuriousWake(w) PROVE Genuine'
  BY <1>27 DEF SpuriousWake
<1>28. ASSUME NEW w \in Writers, End(w) PROVE Genuine'
  BY <1>28 DEF End
<1>29. ASSUME Exit PROVE Genuine'
  BY <1>29 DEF Exit
<1>30. ASSUME ExitNotify PROVE Genuine'
  BY <1>30 DEF ExitNotify, WakeAll
<1>31. ASSUME ExitClose PROVE Genuine'
  BY <1>31 DEF ExitClose
<1>32. ASSUME ExitJoin PROVE Genuine'
  BY <1>32 DEF ExitJoin
<1>33. CASE UNCHANGED vars
  BY <1>33 DEF vars
<1> QED
  BY <1>1, <1>2, <1>3, <1>4, <1>5, <1>6, <1>7, <1>8, <1>9, <1>10, <1>11, <1>12, <1>13,
     <1>14, <1>15, <1>16, <1>17, <1>18, <1>19, <1>20, <1>21, <1>22, <1>23, <1>24, <1>25,
     <1>26, <1>27, <1>28, <1>29, <1>30, <1>31, <1>32, <1>33 DEF Next, Program, PushStep,
     WriterStep, ExitStep

(* Nothing is committed between two rows of an event.                      *)
LEMMA InTransactionStep ==
  ASSUME Tracked, Sole, InTransaction, [Next]_vars PROVE InTransaction'
<1> USE DEF Tracked, Shape, TypeOK, WriterOK, InTransaction, WGoto, state, queue,
      thread, writer, database, history
<1>1. ASSUME Start PROVE InTransaction'
  BY <1>1 DEF Start
<1>2. ASSUME NEW t \in Threads, NEW k \in CallKinds, Call(t, k) PROVE InTransaction'
  BY <1>2, CallEffect
<1>3. ASSUME NEW t \in Threads, NEW f \in FatBins, Register(t, f) PROVE InTransaction'
  BY <1>3 DEF Register
<1>4. ASSUME NEW t \in Threads, AssignId(t) PROVE InTransaction'
  BY <1>4, AssignEffect
<1>5. ASSUME NEW t \in Threads, Bundle(t) PROVE InTransaction'
  BY <1>5, BundleEffect
<1>6. ASSUME NEW t \in Threads, Registered(t) PROVE InTransaction'
  BY <1>6 DEF Registered
<1>7. ASSUME NEW t \in Threads, Pushback(t) PROVE InTransaction'
  BY <1>7 DEF Pushback
<1>8. ASSUME NEW t \in Threads, NEW w \in Writers, Spawn(t, w) PROVE InTransaction'
  BY <1>8 DEF Spawn
<1>9. ASSUME NEW t \in Threads, Mark(t) PROVE InTransaction'
  BY <1>9 DEF Mark
<1>10. ASSUME NEW t \in Threads, Reserve(t) PROVE InTransaction'
  BY <1>10, ReserveEffect
<1>11. ASSUME NEW t \in Threads, Store(t) PROVE InTransaction'
  BY <1>11, StoreEffect
<1>12. ASSUME NEW t \in Threads, Notify(t) PROVE InTransaction'
  BY <1>12 DEF Notify, WakeAll
<1>13. ASSUME NEW w \in Writers, Prepare(w) PROVE InTransaction'
  BY <1>13 DEF Prepare
<1>14. ASSUME NEW w \in Writers, Begin(w) PROVE InTransaction'
  <2>1. wpc[w] = "begin" /\ wpc'[w] = "outer" /\ \A u \in Writers \ {w} : wpc'[u] = wpc[u]
    BY <1>14 DEF Begin
  <2>2. \A u \in Writers : wpc'[u] # "done" /\ wpc'[u] \in {"unborn", "outer"}
    BY <2>1, OneBorn DEF Born
  <2> QED
    BY <1>14, <2>2 DEF Begin
<1>15. ASSUME NEW w \in Writers, Outer(w) PROVE InTransaction'
  BY <1>15 DEF Outer
<1>16. ASSUME NEW w \in Writers, Inner(w) PROVE InTransaction'
  BY <1>16 DEF Inner
<1>17. ASSUME NEW w \in Writers, PopClaim(w) PROVE InTransaction'
  BY <1>17 DEF PopClaim, Queue!Claim
<1>18. ASSUME NEW w \in Writers, PopTake(w) PROVE InTransaction'
  BY <1>18, TakeEffect
<1>19. ASSUME NEW w \in Writers, PopNothing(w) PROVE InTransaction'
  BY <1>19, NothingEffect
<1>20. ASSUME NEW w \in Writers, InsertEvent(w) PROVE InTransaction'
  <2>1. (tables' = tables /\ disk' = disk) \/ (txn /\ disk' = disk)
    BY <1>20, InsertEventEffect DEF Usable
  <2> QED
    BY <1>20, <2>1, InsertEventEffect
<1>21. ASSUME NEW w \in Writers, WriteHostData(w) PROVE InTransaction'
  BY <1>21 DEF WriteHostData
<1>22. ASSUME NEW w \in Writers, InsertDetail(w) PROVE InTransaction'
  <2>1. (tables' = tables /\ disk' = disk) \/ (txn /\ disk' = disk)
    BY <1>22, InsertDetailEffect DEF Usable
  <2> QED
    BY <1>22, <2>1, InsertDetailEffect
<1>23. ASSUME NEW w \in Writers, InsertCode(w) PROVE InTransaction'
  <2>1. (tables' = tables /\ disk' = disk) \/ (txn /\ disk' = disk)
    BY <1>23, InsertCodeEffect DEF Usable
  <2> QED
    BY <1>23, <2>1, InsertCodeEffect
<1>24. ASSUME NEW w \in Writers, CheckEmpty(w) PROVE InTransaction'
  BY <1>24 DEF CheckEmpty
<1>25. ASSUME NEW w \in Writers, CheckLoaded(w) PROVE InTransaction'
  BY <1>25 DEF CheckLoaded
<1>26. ASSUME NEW w \in Writers, Enter(w) PROVE InTransaction'
  BY <1>26 DEF Enter
<1>27. ASSUME NEW w \in Writers, SpuriousWake(w) PROVE InTransaction'
  BY <1>27 DEF SpuriousWake
<1>28. ASSUME NEW w \in Writers, End(w) PROVE InTransaction'
  <2>1. wpc[w] = "end" /\ wpc'[w] = "done" /\ \A u \in Writers \ {w} : wpc'[u] = wpc[u]
    BY <1>28 DEF End
  <2>2. \A u \in Writers : wpc'[u] \in {"unborn", "done"}
    BY <2>1, OneBorn DEF Born
  <2>3. disk' = tables /\ UNCHANGED tables /\ txn' = FALSE
    BY <1>28 DEF End, Served
  <2> QED
    BY <2>2, <2>3
<1>29. ASSUME Exit PROVE InTransaction'
  BY <1>29 DEF Exit
<1>30. ASSUME ExitNotify PROVE InTransaction'
  BY <1>30 DEF ExitNotify, WakeAll
<1>31. ASSUME ExitClose PROVE InTransaction'
  BY <1>31 DEF ExitClose
<1>32. ASSUME ExitJoin PROVE InTransaction'
  BY <1>32 DEF ExitJoin
<1>33. CASE UNCHANGED vars
  BY <1>33 DEF vars
<1> QED
  BY <1>1, <1>2, <1>3, <1>4, <1>5, <1>6, <1>7, <1>8, <1>9, <1>10, <1>11, <1>12, <1>13,
     <1>14, <1>15, <1>16, <1>17, <1>18, <1>19, <1>20, <1>21, <1>22, <1>23, <1>24, <1>25,
     <1>26, <1>27, <1>28, <1>29, <1>30, <1>31, <1>32, <1>33 DEF Next, Program, PushStep,
     WriterStep, ExitStep

(* The writer's transaction ends with whole events.                        *)
LEMMA WholeStep ==
  ASSUME Tracked, Sole, Genuine, InTransaction, Whole, [Next]_vars PROVE Whole'
<1> USE DEF Tracked, Shape, TypeOK, WriterOK, Whole, InHand, WGoto, state, queue,
      thread, writer, database, history
<1>1. ASSUME Start PROVE Whole'
  BY <1>1 DEF Start, Detailed
<1>2. ASSUME NEW t \in Threads, NEW k \in CallKinds, Call(t, k) PROVE Whole'
  BY <1>2, CallEffect
<1>3. ASSUME NEW t \in Threads, NEW f \in FatBins, Register(t, f) PROVE Whole'
  BY <1>3 DEF Register, Detailed
<1>4. ASSUME NEW t \in Threads, AssignId(t) PROVE Whole'
  BY <1>4, AssignEffect
<1>5. ASSUME NEW t \in Threads, Bundle(t) PROVE Whole'
  BY <1>5, BundleEffect
<1>6. ASSUME NEW t \in Threads, Registered(t) PROVE Whole'
  BY <1>6 DEF Registered, Detailed
<1>7. ASSUME NEW t \in Threads, Pushback(t) PROVE Whole'
  BY <1>7 DEF Pushback, Detailed
<1>8. ASSUME NEW t \in Threads, NEW w \in Writers, Spawn(t, w) PROVE Whole'
  BY <1>8 DEF Spawn, Detailed
<1>9. ASSUME NEW t \in Threads, Mark(t) PROVE Whole'
  BY <1>9 DEF Mark, Detailed
<1>10. ASSUME NEW t \in Threads, Reserve(t) PROVE Whole'
  BY <1>10, ReserveEffect
<1>11. ASSUME NEW t \in Threads, Store(t) PROVE Whole'
  BY <1>11, StoreEffect
<1>12. ASSUME NEW t \in Threads, Notify(t) PROVE Whole'
  BY <1>12 DEF Notify, Detailed, WakeAll
<1>13. ASSUME NEW w \in Writers, Prepare(w) PROVE Whole'
  BY <1>13 DEF Prepare, Detailed
<1>14. ASSUME NEW w \in Writers, Begin(w) PROVE Whole'
  BY <1>14 DEF Begin, Detailed
<1>15. ASSUME NEW w \in Writers, Outer(w) PROVE Whole'
  BY <1>15 DEF Outer, Detailed
<1>16. ASSUME NEW w \in Writers, Inner(w) PROVE Whole'
  BY <1>16 DEF Inner, Detailed
<1>17. ASSUME NEW w \in Writers, PopClaim(w) PROVE Whole'
  BY <1>17 DEF PopClaim, Detailed, Queue!Claim
<1>18. ASSUME NEW w \in Writers, PopTake(w) PROVE Whole'
  BY <1>18, TakeEffect
<1>19. ASSUME NEW w \in Writers, PopNothing(w) PROVE Whole'
  BY <1>19, NothingEffect
<1>20. ASSUME NEW w \in Writers, InsertEvent(w) PROVE Whole'
  <2>1. Usable(w) /\ FreshKey(wev[w]) /\ wev[w] \notin tables.events
    BY <1>20, CanInsert, KeyIsFresh, InsertEventEffect DEF Sole
  <2>2. /\ tables'.events = tables.events \cup {wev[w]} /\ tables'.details = tables.details
        /\ disk' = disk
    BY <1>20, <2>1, InsertEventEffect DEF Usable, InTransaction
  <2>3. \A u \in Writers \ {w} : ~InHand(u) /\ wpc'[u] = wpc[u]
    BY <1>20, OneBorn, InsertEventEffect DEF Born
  <2>4. tables.details = Detailed(tables) /\ ~InHand(w)
    BY <1>20, <2>3, InsertEventEffect
  <2>5. CASE wev[w].kind = "plain"
    <3>1. \A u \in Writers : ~(wpc'[u] \in {"file", "detail"})
      BY <1>20, <2>3, <2>5, InsertEventEffect
    <3> QED
      BY <2>2, <2>4, <2>5, <3>1 DEF Detailed
  <2>6. CASE wev[w].kind # "plain"
    <3>1. wpc'[w] \in {"file", "detail"} /\ wev'[w] = wev[w]
      BY <1>20, <2>6, InsertEventEffect
    <3>2. Detailed(tables)' \ {wev[w]} = Detailed(tables)
      BY <2>1, <2>2 DEF Detailed
    <3> QED
      BY <2>2, <2>3, <2>4, <3>1, <3>2 DEF Detailed
  <2> QED
    BY <2>5, <2>6
<1>21. ASSUME NEW w \in Writers, WriteHostData(w) PROVE Whole'
  BY <1>21 DEF WriteHostData, Detailed
<1>22. ASSUME NEW w \in Writers, InsertDetail(w) PROVE Whole'
  <2>1. Usable(w) /\ \A r \in tables.details : r.id # wev[w].id
    BY <1>22, CanInsert, DetailIsFresh, InsertDetailEffect DEF Sole
  <2>2. /\ tables'.details = tables.details \cup {wev[w]} /\ tables'.events = tables.events
        /\ disk' = disk
    BY <1>22, <2>1, InsertDetailEffect DEF Usable, InTransaction
  <2>3. \A u \in Writers : ~(wpc'[u] \in {"file", "detail"})
    BY <1>22, OneBorn, InsertDetailEffect DEF Born
  <2>4. /\ wev[w] \in tables.events /\ wev[w].kind # "plain"
        /\ tables.details = Detailed(tables) \ {wev[w]}
    BY <1>22, InsertDetailEffect
  <2>5. tables'.details = Detailed(tables)'
    BY <2>2, <2>4 DEF Detailed
  <2> QED
    BY <2>2, <2>3, <2>5 DEF Detailed
<1>23. ASSUME NEW w \in Writers, InsertCode(w) PROVE Whole'
  <2>1. Usable(w)
    BY <1>23, CanInsert, InsertCodeEffect DEF Sole
  <2>2. /\ tables'.details = tables.details /\ tables'.events = tables.events
        /\ disk' = disk
    BY <1>23, <2>1, InsertCodeEffect DEF Usable, InTransaction
  <2> QED
    BY <1>23, <2>2, InsertCodeEffect DEF Detailed
<1>24. ASSUME NEW w \in Writers, CheckEmpty(w) PROVE Whole'
  BY <1>24 DEF CheckEmpty, Detailed
<1>25. ASSUME NEW w \in Writers, CheckLoaded(w) PROVE Whole'
  BY <1>25 DEF CheckLoaded, Detailed
<1>26. ASSUME NEW w \in Writers, Enter(w) PROVE Whole'
  BY <1>26 DEF Enter, Detailed
<1>27. ASSUME NEW w \in Writers, SpuriousWake(w) PROVE Whole'
  BY <1>27 DEF SpuriousWake, Detailed
<1>28. ASSUME NEW w \in Writers, End(w) PROVE Whole'
  <2>1. wpc[w] = "end" /\ wpc'[w] = "done" /\ \A u \in Writers \ {w} : wpc'[u] = wpc[u]
    BY <1>28 DEF End
  <2>2. /\ \A u \in Writers : ~(wpc'[u] \in {"file", "detail"})
        /\ \A u \in Writers : ~(wpc[u] \in {"file", "detail"})
    BY <2>1, OneBorn DEF Born
  <2>3. disk' = tables /\ UNCHANGED tables
    BY <1>28 DEF End, Served
  <2> QED
    BY <2>2, <2>3 DEF Detailed
<1>29. ASSUME Exit PROVE Whole'
  BY <1>29 DEF Exit, Detailed
<1>30. ASSUME ExitNotify PROVE Whole'
  BY <1>30 DEF ExitNotify, Detailed, WakeAll
<1>31. ASSUME ExitClose PROVE Whole'
  BY <1>31 DEF ExitClose, Detailed
<1>32. ASSUME ExitJoin PROVE Whole'
  BY <1>32 DEF ExitJoin, Detailed
<1>33. CASE UNCHANGED vars
  BY <1>33 DEF vars, Detailed
<1> QED
  BY <1>1, <1>2, <1>3, <1>4, <1>5, <1>6, <1>7, <1>8, <1>9, <1>10, <1>11, <1>12, <1>13,
     <1>14, <1>15, <1>16, <1>17, <1>18, <1>19, <1>20, <1>21, <1>22, <1>23, <1>24, <1>25,
     <1>26, <1>27, <1>28, <1>29, <1>30, <1>31, <1>32, <1>33 DEF Next, Program, PushStep,
     WriterStep, ExitStep


(* So the facts about events hold together.                                *)
LEMMA TrackedHolds == Spec => []Tracked
BY ShapeHolds, AloneHolds, OnceHolds, FiledHolds, ServedHolds, PTL DEF Tracked

(* A sole writer inserts all it takes, in its transaction, and both rows   *)
(* of an event, in every behaviour.                                        *)
LEMMA RecordingHolds == Spec => []Recording
<1>1. Init => Recording
  <2> SUFFICES ASSUME Init PROVE Recording
    OBVIOUS
  <2>1. /\ tables.events = {} /\ tables.details = {} /\ tables.codes = {}
        /\ disk = tables /\ dropped = {}
    BY DEF Init, NoRows
  <2>2. \A w \in Writers : wpc[w] = "unborn" /\ wev[w] = None
    BY DEF Init
  <2> QED
    BY <2>1, <2>2 DEF Recording, Genuine, InTransaction, Whole, Detailed, InHand
<1>2. Tracked /\ Recording /\ [Next]_vars => Recording'
  <2> SUFFICES ASSUME Tracked, Recording, [Next]_vars, Sole'
               PROVE  Genuine' /\ InTransaction' /\ Whole'
    BY DEF Recording
  <2>1. Sole /\ Genuine /\ InTransaction /\ Whole
    BY SoleBefore DEF Recording
  <2> QED
    BY <2>1, GenuineStep, InTransactionStep, WholeStep
<1> QED
  BY <1>1, <1>2, TrackedHolds, PTL DEF Spec

(* Everything the writer takes from the queue gets its row, and nothing    *)
(* else does: was_empty() is right for the only writer, and no key is      *)
(* taken.                                                                  *)
THEOREM AllTakenAreRecordedHolds == Spec => []AllTakenAreRecorded
<1>1. Recording => AllTakenAreRecorded
  BY DEF Recording, Sole, Genuine, AllTakenAreRecorded, NothingDropped
<1> QED
  BY <1>1, RecordingHolds, PTL

(* Whenever the process is killed, an event that has details has them on   *)
(* disk exactly if it is there itself.                                     *)
THEOREM DiskConsistentHolds == Spec => []DiskConsistent
<1>1. Served /\ Recording => DiskConsistent
  <2> SUFFICES ASSUME Served, Recording, started # "bare" PROVE disk.details = Detailed(disk)
    BY DEF DiskConsistent, Detailed
  <2>1. CASE mode = "capture"
    BY <2>1 DEF Recording, Sole, Whole
  <2>2. CASE mode # "capture"
    <3>1. disk = NoRows
      BY <2>2 DEF Served
    <3> QED
      BY <3>1 DEF NoRows, Detailed
  <2> QED
    BY <2>1, <2>2
<1> QED
  BY <1>1, ServedHolds, RecordingHolds, PTL


-----------------------------------------------------------------------------
(* The end of the program *)

(* Nothing is added any more, and the writer, if it was draining the queue *)
(* when the program exited, has left it only when it was empty.            *)
Emptied ==
    /\ dtor # "run" => \A t \in Threads : pc[t] = "idle"
    /\ (dtor # "run" /\ Sole) => started = "recording"
    /\ (dtor # "run" /\ draining /\ Sole) =>
        \A w \in Writers : Born(w) => wpc[w] \in DrainPcs \/ head <= tail
    /\ (dtor = "destroyed" /\ mode # "binint" /\ db_writer_thread # None) =>
        wpc[db_writer_thread] = "done"

(* Only Inner leaves the inner loop, when the queue is empty.              *)
LEMMA EmptiedStep ==
  ASSUME Shape, Alone, Emptied, [Next]_vars PROVE Emptied'
<1> USE DEF Shape, TypeOK, StateOK, ThreadOK, WriterOK, Queue!TypeOK, Emptied, At, Goto,
      WGoto, state, queue, thread, writer, database, history
<1>1. ASSUME Start PROVE Emptied'
  BY <1>1 DEF Start, Sole, Born, DrainPcs
<1>2. ASSUME NEW t \in Threads, NEW k \in CallKinds, Call(t, k) PROVE Emptied'
  BY <1>2, CallEffect DEF Sole, Born, DrainPcs
<1>3. ASSUME NEW t \in Threads, NEW f \in FatBins, Register(t, f) PROVE Emptied'
  BY <1>3 DEF Register, Sole, Born, DrainPcs
<1>4. ASSUME NEW t \in Threads, AssignId(t) PROVE Emptied'
  BY <1>4, AssignEffect DEF Sole, Born, DrainPcs
<1>5. ASSUME NEW t \in Threads, Bundle(t) PROVE Emptied'
  BY <1>5, BundleEffect DEF Sole, Born, DrainPcs
<1>6. ASSUME NEW t \in Threads, Registered(t) PROVE Emptied'
  BY <1>6 DEF Registered, Sole, Born, DrainPcs
<1>7. ASSUME NEW t \in Threads, Pushback(t) PROVE Emptied'
  BY <1>7 DEF Pushback, Sole, Born, DrainPcs, Caller
<1>8. ASSUME NEW t \in Threads, NEW w \in Writers, Spawn(t, w) PROVE Emptied'
  BY <1>8 DEF Spawn, Sole, Born, DrainPcs
<1>9. ASSUME NEW t \in Threads, Mark(t) PROVE Emptied'
  BY <1>9 DEF Mark, Sole, Born, DrainPcs
<1>10. ASSUME NEW t \in Threads, Reserve(t) PROVE Emptied'
  BY <1>10, ReserveEffect DEF Sole, Born, DrainPcs
<1>11. ASSUME NEW t \in Threads, Store(t) PROVE Emptied'
  BY <1>11, StoreEffect DEF Sole, Born, DrainPcs
<1>12. ASSUME NEW t \in Threads, Notify(t) PROVE Emptied'
  BY <1>12 DEF Notify, Sole, Born, DrainPcs, WakeAll, Caller
<1>13. ASSUME NEW w \in Writers, Prepare(w) PROVE Emptied'
  BY <1>13 DEF Prepare, Sole, Born, DrainPcs
<1>14. ASSUME NEW w \in Writers, Begin(w) PROVE Emptied'
  BY <1>14 DEF Begin, Sole, Born, DrainPcs
<1>15. ASSUME NEW w \in Writers, Outer(w) PROVE Emptied'
  BY <1>15 DEF Outer, Sole, Born, DrainPcs
<1>16. ASSUME NEW w \in Writers, Inner(w) PROVE Emptied'
  BY <1>16 DEF Inner, Sole, Born, DrainPcs, was_empty
<1>17. ASSUME NEW w \in Writers, PopClaim(w) PROVE Emptied'
  BY <1>17 DEF PopClaim, Sole, Born, DrainPcs, Queue!Claim
<1>18. ASSUME NEW w \in Writers, PopTake(w) PROVE Emptied'
  BY <1>18, TakeEffect DEF Sole, Born, DrainPcs
<1>19. ASSUME NEW w \in Writers, PopNothing(w) PROVE Emptied'
  BY <1>19, NothingEffect DEF Sole, Born, DrainPcs
<1>20. ASSUME NEW w \in Writers, InsertEvent(w) PROVE Emptied'
  BY <1>20, InsertEventEffect DEF Sole, Born, DrainPcs
<1>21. ASSUME NEW w \in Writers, WriteHostData(w) PROVE Emptied'
  BY <1>21 DEF WriteHostData, Sole, Born, DrainPcs
<1>22. ASSUME NEW w \in Writers, InsertDetail(w) PROVE Emptied'
  BY <1>22, InsertDetailEffect DEF Sole, Born, DrainPcs
<1>23. ASSUME NEW w \in Writers, InsertCode(w) PROVE Emptied'
  BY <1>23, InsertCodeEffect DEF Sole, Born, DrainPcs
<1>24. ASSUME NEW w \in Writers, CheckEmpty(w) PROVE Emptied'
  BY <1>24 DEF CheckEmpty, Sole, Born, DrainPcs
<1>25. ASSUME NEW w \in Writers, CheckLoaded(w) PROVE Emptied'
  BY <1>25 DEF CheckLoaded, Sole, Born, DrainPcs
<1>26. ASSUME NEW w \in Writers, Enter(w) PROVE Emptied'
  BY <1>26 DEF Enter, Sole, Born, DrainPcs
<1>27. ASSUME NEW w \in Writers, SpuriousWake(w) PROVE Emptied'
  BY <1>27 DEF SpuriousWake, Sole, Born, DrainPcs
<1>28. ASSUME NEW w \in Writers, End(w) PROVE Emptied'
  BY <1>28 DEF End, Sole, Born, DrainPcs
<1>29. ASSUME Exit PROVE Emptied'
  <2>1. /\ dtor = "run" /\ started # "no" /\ \A t \in Threads : pc[t] = "idle"
        /\ dtor' = "destroyed" => mode = "binint"
        /\ UNCHANGED <<mode, started, pc, wpc, head, tail, db_writer_thread>>
        /\ draining' = (was_empty \/ \E w \in Writers : wpc[w] \in DrainPcs)
    BY <1>29 DEF Exit
  <2>2. Sole => started = "recording"
    BY <2>1 DEF Sole
  <2>3. ASSUME Sole, draining', NEW w \in Writers, Born(w)
        PROVE  wpc[w] \in DrainPcs \/ head <= tail
    <3>1. CASE was_empty
      BY <3>1 DEF was_empty
    <3>2. CASE \E u \in Writers : wpc[u] \in DrainPcs
      BY <2>3, <3>2, OneBorn DEF Born, DrainPcs
    <3> QED
      BY <2>1, <2>3, <3>1, <3>2
  <2> QED
    BY <2>1, <2>2, <2>3 DEF Sole, Born
<1>30. ASSUME ExitNotify PROVE Emptied'
  BY <1>30 DEF ExitNotify, Sole, Born, DrainPcs, WakeAll
<1>31. ASSUME ExitClose PROVE Emptied'
  BY <1>31 DEF ExitClose, Sole, Born, DrainPcs
<1>32. ASSUME ExitJoin PROVE Emptied'
  BY <1>32 DEF ExitJoin, Sole, Born, DrainPcs
<1>33. CASE UNCHANGED vars
  BY <1>33 DEF vars, Sole, Born
<1> QED
  BY <1>1, <1>2, <1>3, <1>4, <1>5, <1>6, <1>7, <1>8, <1>9, <1>10, <1>11, <1>12, <1>13,
     <1>14, <1>15, <1>16, <1>17, <1>18, <1>19, <1>20, <1>21, <1>22, <1>23, <1>24, <1>25,
     <1>26, <1>27, <1>28, <1>29, <1>30, <1>31, <1>32, <1>33 DEF Next, Program, PushStep,
     WriterStep, ExitStep

(* The writer that found the queue empty while the program ends has seen   *)
(* every event, in every behaviour.                                        *)
LEMMA EmptiedHolds == Spec => []Emptied
<1>1. Init => Emptied
  BY DEF Init, Emptied
<1> QED
  BY <1>1, ShapeHolds, AloneHolds, EmptiedStep, PTL DEF Spec

(* What is proved of was_size in RingQueueProofs, about this queue.        *)
LEMMA QueueCounts == Spec => []Ring!Counted
<1>1. Queue!Init => Ring!Init
  BY DEF Queue!Init, Ring!Init, Queue!Slots, Ring!Slots, Queue!NoTicket, Ring!NoTicket
<1>2. [Queue!Next]_(Queue!vars) => [Ring!Next]_(Ring!vars)
  BY DEF Queue!Next, Ring!Next, Queue!vars, Ring!vars, Queue!Reserve, Ring!Reserve,
         Queue!Store, Ring!Store, Queue!Claim, Ring!Claim, Queue!Take, Ring!Take,
         Queue!SlotOf, Ring!SlotOf, Queue!NoTicket, Ring!NoTicket
<1>3. Ring!Spec => []Ring!Counted
  BY RingFits, Ring!CountedHolds, PTL
<1> QED
  BY <1>1, <1>2, <1>3, UsesRing, PTL DEF Queue!Spec, Ring!Spec

(* A queue that shows empty when nobody is popping is empty, and nobody is *)
(* pushing.                                                                *)
LEMMA NothingLeft ==
  ASSUME Shape, Ring!Counted, head <= tail, \A w \in Writers : want[w] = -1
  PROVE  /\ \A k \in Queue!Slots : slot[k] = None
         /\ \A t \in Threads : hand[t] = None
<1>1. Ring!Popping = {}
  BY DEF Ring!Popping, Ring!Busy, Ring!NoTicket
<1>2. Cardinality(Ring!Popping) = 0
  BY <1>1, FS_EmptySet
<1>3. IsFiniteSet(Ring!Pushing) /\ IsFiniteSet(Ring!Taken)
  BY DEF Ring!Counted, Ring!IsFiniteSet, IsFiniteSet
<1>4. Cardinality(Ring!Pushing) \in Nat /\ Cardinality(Ring!Taken) \in Nat
  BY <1>3, FS_CardinalityType
<1>5. head - tail = Cardinality(Ring!Pushing) + Cardinality(Ring!Taken)
  BY <1>2, <1>4, SameCount DEF Ring!Counted
<1>6. Cardinality(Ring!Pushing) = 0 /\ Cardinality(Ring!Taken) = 0
  BY <1>4, <1>5 DEF Shape, TypeOK, Queue!TypeOK
<1>7. Ring!Pushing = {} /\ Ring!Taken = {}
  BY <1>3, <1>6, FS_EmptySet
<1> QED
  BY <1>7 DEF Ring!Pushing, Ring!Taken, Ring!Busy, Ring!Slots, Queue!Slots

(* A program that exits while the writer is in its inner loop, or with     *)
(* nothing queued, leaves everything committed and the writer gone.        *)
THEOREM CompleteWhenDrainingHolds == Spec => []CompleteWhenDraining
<1>1. Tracked /\ Somewhere /\ Recording /\ Emptied /\ Ring!Counted => CompleteWhenDraining
  <2> SUFFICES ASSUME Tracked, Somewhere, Recording, Emptied, Ring!Counted,
                      dtor = "destroyed", draining, Sole
               PROVE  /\ \A n \in 0 .. calls - 1 : Recorded(n)
                      /\ \A w \in Writers : wpc[w] \in {"unborn", "done"}
                      /\ disk = tables
    BY DEF CompleteWhenDraining, Sole
  <2>1. \A t \in Threads : pc[t] = "idle"
    BY DEF Emptied
  <2>2. PICK w \in Writers : Born(w)
    BY DEF Emptied, Tracked, Alone, Sole
  <2>3. wpc[w] = "done"
    <3>1. db_writer_thread = w /\ w # None
      BY <2>2, NoneAssumption DEF Tracked, Alone, Sole
    <3> QED
      BY <3>1 DEF Emptied, Sole
  <2>4. \A u \in Writers : wpc[u] \in {"unborn", "done"}
    BY <2>2, <2>3, OneBorn DEF Tracked, Born
  <2>5. disk = tables
    BY <2>3 DEF Recording, InTransaction
  <2>6. head <= tail
    BY <2>2, <2>3 DEF Emptied, DrainPcs
  <2>7. /\ \A t \in Threads : ev[t] = None /\ hand[t] = None
        /\ \A u \in Writers : wev[u] = None /\ want[u] = -1
    BY <2>1, <2>4 DEF Tracked, Shape, Placed, Holding
  <2>8. \A k \in Queue!Slots : slot[k] = None
    BY <2>6, <2>7, NothingLeft DEF Tracked
  <2>9. ASSUME NEW n \in 0 .. calls - 1 PROVE Recorded(n)
    <3>1. \E r \in Ended : r.fx = n
      BY <2>7, <2>8 DEF Somewhere, Sole
    <3>2. dropped = {}
      BY DEF Recording, Genuine
    <3> QED
      BY <2>5, <3>1, <3>2 DEF Ended, Recorded
  <2> QED
    BY <2>4, <2>5, <2>9
<1> QED
  BY <1>1, TrackedHolds, OnceHolds, RecordingHolds, EmptiedHolds, QueueCounts, PTL


-----------------------------------------------------------------------------
(* Order of the calls *)

(* What came before some call is stored since, or gone from the queue.     *)
StoredFirst ==
    \A p \in before :
        /\ \A t \in Threads : ev[t] # None => ev[t].fx # p[1]
        /\ \A t \in Threads : hand[t] # None => hand[t].item.fx # p[1]

(* The ids of two calls of which one came before the other.                *)
InOrder ==
    \A a, b \in Around :
        (a.kind # "code" /\ b.kind # "code" /\ <<a.fx, b.fx>> \in before /\ b.id >= 0)
            => a.id < b.id

(* When the writer is not in its inner loop, what it has taken is closed.  *)
Closed ==
    (Sole /\ \A w \in Writers : wpc[w] \notin DrainPcs) =>
        \A p \in before :
            (\E r \in Ended : r.fx = p[2]) => (\E r \in Ended : r.fx = p[1])

(* There is only one commit, the writer's last step.                       *)
DiskOnce == (Sole /\ \A w \in Writers : wpc[w] # "done") => disk = NoRows

(* before grows by pairs whose first event is stored and whose second is   *)
(* the new one.                                                            *)
LEMMA EffectBefore ==
  ASSUME Shape, Effect
  PROVE  \A p \in before' :
            \/ p \in before
            \/ /\ p[2] = calls
               /\ \A t \in Threads : ev[t] # None => ev[t].fx # p[1]
               /\ \A t \in Threads : hand[t] # None => hand[t].item.fx # p[1]
<1>1. ASSUME NEW n \in (0 .. calls - 1) \ Unstored
      PROVE  /\ \A t \in Threads : ev[t] # None => ev[t].fx # n
             /\ \A t \in Threads : hand[t] # None => hand[t].item.fx # n
  BY DEF Unstored
<1> QED
  BY <1>1 DEF Effect

(* The order of calls relates calls that have been made.                   *)
LEMMA BeforeType ==
  ASSUME Shape
  PROVE  /\ calls \in Nat
         /\ \A p \in before : p[1] \in 0 .. calls - 1 /\ p[2] \in 0 .. calls - 1 /\ p = <<p[1], p[2]>>
BY DEF Shape, TypeOK, HistoryOK

(* What is stored does not come back.                                      *)
LEMMA StoredFirstStep ==
  ASSUME Shape, StoredFirst, [Next]_vars PROVE StoredFirst'
<1> USE DEF Shape, StoredFirst, state, queue, thread, writer, database, history
<1>1. ASSUME Start PROVE StoredFirst'
  BY <1>1 DEF Start
<1>2. ASSUME NEW t \in Threads, NEW k \in CallKinds, Call(t, k) PROVE StoredFirst'
  <2>1. \A p \in before : p[1] # calls
    BY BeforeType
  <2>2. \A p \in before' : p[1] # calls
    BY <2>1, BeforeType, <1>2 DEF Call, Effect
  <2> QED
    BY <1>2, <2>2, CallEffect, EffectBefore DEF Call
<1>3. ASSUME NEW t \in Threads, NEW f \in FatBins, Register(t, f) PROVE StoredFirst'
  BY <1>3 DEF Register
<1>4. ASSUME NEW t \in Threads, AssignId(t) PROVE StoredFirst'
  BY <1>4, AssignEffect
<1>5. ASSUME NEW t \in Threads, Bundle(t) PROVE StoredFirst'
  <2>1. CASE UNCHANGED <<ev, before>>
    BY <1>5, <2>1, BundleEffect
  <2>2. CASE Effect /\ ev'[t].fx = calls
    <3>1. \A p \in before' : p[1] # calls
      BY <2>2, BeforeType DEF Effect
    <3> QED
      BY <1>5, <2>2, <3>1, BundleEffect, EffectBefore
  <2> QED
    BY <1>5, <2>1, <2>2, BundleEffect DEF Bundle
<1>6. ASSUME NEW t \in Threads, Registered(t) PROVE StoredFirst'
  BY <1>6 DEF Registered
<1>7. ASSUME NEW t \in Threads, Pushback(t) PROVE StoredFirst'
  BY <1>7 DEF Pushback, TypeOK, ThreadOK
<1>8. ASSUME NEW t \in Threads, NEW w \in Writers, Spawn(t, w) PROVE StoredFirst'
  BY <1>8 DEF Spawn
<1>9. ASSUME NEW t \in Threads, Mark(t) PROVE StoredFirst'
  BY <1>9 DEF Mark
<1>10. ASSUME NEW t \in Threads, Reserve(t) PROVE StoredFirst'
  BY <1>10, ReserveEffect
<1>11. ASSUME NEW t \in Threads, Store(t) PROVE StoredFirst'
  BY <1>11, StoreEffect
<1>12. ASSUME NEW t \in Threads, Notify(t) PROVE StoredFirst'
  BY <1>12 DEF Notify, WakeAll
<1>13. ASSUME NEW w \in Writers, Prepare(w) PROVE StoredFirst'
  BY <1>13 DEF Prepare
<1>14. ASSUME NEW w \in Writers, Begin(w) PROVE StoredFirst'
  BY <1>14 DEF Begin
<1>15. ASSUME NEW w \in Writers, Outer(w) PROVE StoredFirst'
  BY <1>15 DEF Outer
<1>16. ASSUME NEW w \in Writers, Inner(w) PROVE StoredFirst'
  BY <1>16 DEF Inner
<1>17. ASSUME NEW w \in Writers, PopClaim(w) PROVE StoredFirst'
  BY <1>17 DEF PopClaim, Queue!Claim
<1>18. ASSUME NEW w \in Writers, PopTake(w) PROVE StoredFirst'
  BY <1>18, TakeEffect
<1>19. ASSUME NEW w \in Writers, PopNothing(w) PROVE StoredFirst'
  BY <1>19, NothingEffect
<1>20. ASSUME NEW w \in Writers, InsertEvent(w) PROVE StoredFirst'
  BY <1>20, InsertEventEffect
<1>21. ASSUME NEW w \in Writers, WriteHostData(w) PROVE StoredFirst'
  BY <1>21 DEF WriteHostData
<1>22. ASSUME NEW w \in Writers, InsertDetail(w) PROVE StoredFirst'
  BY <1>22, InsertDetailEffect
<1>23. ASSUME NEW w \in Writers, InsertCode(w) PROVE StoredFirst'
  BY <1>23, InsertCodeEffect
<1>24. ASSUME NEW w \in Writers, CheckEmpty(w) PROVE StoredFirst'
  BY <1>24 DEF CheckEmpty
<1>25. ASSUME NEW w \in Writers, CheckLoaded(w) PROVE StoredFirst'
  BY <1>25 DEF CheckLoaded
<1>26. ASSUME NEW w \in Writers, Enter(w) PROVE StoredFirst'
  BY <1>26 DEF Enter
<1>27. ASSUME NEW w \in Writers, SpuriousWake(w) PROVE StoredFirst'
  BY <1>27 DEF SpuriousWake
<1>28. ASSUME NEW w \in Writers, End(w) PROVE StoredFirst'
  BY <1>28 DEF End
<1>29. ASSUME Exit PROVE StoredFirst'
  BY <1>29 DEF Exit
<1>30. ASSUME ExitNotify PROVE StoredFirst'
  BY <1>30 DEF ExitNotify, WakeAll
<1>31. ASSUME ExitClose PROVE StoredFirst'
  BY <1>31 DEF ExitClose
<1>32. ASSUME ExitJoin PROVE StoredFirst'
  BY <1>32 DEF ExitJoin
<1>33. CASE UNCHANGED vars
  BY <1>33 DEF vars
<1> QED
  BY <1>1, <1>2, <1>3, <1>4, <1>5, <1>6, <1>7, <1>8, <1>9, <1>10, <1>11, <1>12, <1>13,
     <1>14, <1>15, <1>16, <1>17, <1>18, <1>19, <1>20, <1>21, <1>22, <1>23, <1>24, <1>25,
     <1>26, <1>27, <1>28, <1>29, <1>30, <1>31, <1>32, <1>33 DEF Next, Program, PushStep,
     WriterStep, ExitStep


(* All that is anywhere is of a call that has been made.                   *)
LEMMA AroundKnown == ASSUME Shape PROVE \A e \in Around : e.fx # calls
<1>1. \A e \in Event : e.fx < calls => e.fx # calls
  BY DEF Event, Shape, TypeOK, HistoryOK
<1> QED
  BY <1>1, NoneAssumption DEF Around, Shape, Known

(* An order of tickets survives a step that moves events and draws no      *)
(* ticket.                                                                 *)
LEMMA InOrderStill ==
  ASSUME InOrder, UNCHANGED <<ev, hand, slot, wev, tables, before>>
  PROVE  InOrder'
<1>1. Around' = Around
  BY DEF Around
<1> QED
  BY <1>1 DEF InOrder

(* An event that is stored has its id, and a later one a later id.         *)
LEMMA InOrderStep ==
  ASSUME Shape, Names, StoredFirst, InOrder, [Next]_vars PROVE InOrder'
<1> USE DEF Shape, state, queue, thread, writer, database, history
<1>1. ASSUME Start PROVE InOrder'
  BY <1>1, InOrderStill DEF Start
<1>2. ASSUME NEW t \in Threads, NEW k \in CallKinds, Call(t, k) PROVE InOrder'
  <2>1. Around' \subseteq Around \cup {ev'[t]}
    BY <1>2, CallEffect DEF Around
  <2>2. \A e \in Around : e.fx # calls
    BY AroundKnown
  <2>3. \A p \in before' : p \in before \/ p[2] = calls
    BY <1>2, EffectBefore DEF Call
  <2>4. \A p \in before : p[1] # calls
    BY BeforeType
  <2>5. ev'[t].fx = calls /\ ev'[t].id = -1
    BY <1>2, CallEffect
  <2>6. ASSUME NEW a \in Around', NEW b \in Around', a.kind # "code", b.kind # "code",
               <<a.fx, b.fx>> \in before', b.id >= 0
        PROVE  a.id < b.id
    <3>1. b \in Around /\ b.fx # calls
      BY <2>1, <2>2, <2>5, <2>6
    <3>2. <<a.fx, b.fx>> \in before
      BY <2>3, <2>6, <3>1
    <3>3. a.fx # calls
      BY <2>4, <3>2
    <3> QED
      BY <2>1, <2>5, <2>6, <3>1, <3>2, <3>3 DEF InOrder
  <2> QED
    BY <2>6 DEF InOrder
<1>3. ASSUME NEW t \in Threads, NEW f \in FatBins, Register(t, f) PROVE InOrder'
  BY <1>3, InOrderStill DEF Register
<1>4. ASSUME NEW t \in Threads, AssignId(t) PROVE InOrder'
  <2>1. Around' \subseteq Around \cup {ev'[t]}
    BY <1>4, AssignEffect DEF Around
  <2>2. UNCHANGED before /\ ev'[t].id = curr_event /\ ev'[t].fx = ev[t].fx
    BY <1>4, AssignEffect
  <2>3. \A p \in before : p[1] # ev[t].fx
    BY <1>4, AssignEffect DEF StoredFirst
  <2>4. \A a \in Around : a.kind # "code" => a.id < curr_event
    BY DEF Names
  <2>5. ASSUME NEW a \in Around', NEW b \in Around', a.kind # "code", b.kind # "code",
               <<a.fx, b.fx>> \in before', b.id >= 0
        PROVE  a.id < b.id
    <3>1. a \in Around
      BY <2>1, <2>2, <2>3, <2>5
    <3> QED
      BY <2>1, <2>2, <2>4, <2>5, <3>1 DEF InOrder
  <2> QED
    BY <2>5 DEF InOrder
<1>5. ASSUME NEW t \in Threads, Bundle(t) PROVE InOrder'
  <2>1. CASE UNCHANGED ev
    <3>1. Around' \subseteq Around /\ UNCHANGED before
      BY <1>5, <2>1, BundleEffect, AroundKept
    <3> QED
      BY <3>1 DEF InOrder
  <2>2. CASE ev'[t] # None /\ ev'[t].kind = "code" /\ Effect
    <3>1. Around' \subseteq Around \cup {ev'[t]}
      BY <1>5, <2>2, BundleEffect DEF Around
    <3>2. \A e \in Around : e.fx # calls
      BY AroundKnown
    <3>3. \A p \in before' : p \in before \/ p[2] = calls
      BY <2>2, EffectBefore
    <3> QED
      BY <2>2, <3>1, <3>2, <3>3 DEF InOrder
  <2> QED
    BY <1>5, <2>1, <2>2, BundleEffect DEF Bundle
<1>6. ASSUME NEW t \in Threads, Registered(t) PROVE InOrder'
  BY <1>6, InOrderStill DEF Registered
<1>7. ASSUME NEW t \in Threads, Pushback(t) PROVE InOrder'
  <2>1. Around' \subseteq Around
    BY <1>7, AroundKept DEF Pushback, ThreadOK, TypeOK
  <2> QED
    BY <1>7, <2>1 DEF Pushback, InOrder
<1>8. ASSUME NEW t \in Threads, NEW w \in Writers, Spawn(t, w) PROVE InOrder'
  BY <1>8, InOrderStill DEF Spawn
<1>9. ASSUME NEW t \in Threads, Mark(t) PROVE InOrder'
  BY <1>9, InOrderStill DEF Mark
<1>10. ASSUME NEW t \in Threads, Reserve(t) PROVE InOrder'
  <2>1. Around' \subseteq Around
    BY <1>10, ReserveEffect, AroundKept
  <2> QED
    BY <1>10, <2>1, ReserveEffect DEF InOrder
<1>11. ASSUME NEW t \in Threads, Store(t) PROVE InOrder'
  <2>1. Around' \subseteq Around
    BY <1>11, StoreEffect, AroundKept
  <2> QED
    BY <1>11, <2>1, StoreEffect DEF InOrder
<1>12. ASSUME NEW t \in Threads, Notify(t) PROVE InOrder'
  BY <1>12, InOrderStill DEF Notify
<1>13. ASSUME NEW w \in Writers, Prepare(w) PROVE InOrder'
  BY <1>13, InOrderStill DEF Prepare
<1>14. ASSUME NEW w \in Writers, Begin(w) PROVE InOrder'
  BY <1>14, InOrderStill DEF Begin
<1>15. ASSUME NEW w \in Writers, Outer(w) PROVE InOrder'
  BY <1>15, InOrderStill DEF Outer
<1>16. ASSUME NEW w \in Writers, Inner(w) PROVE InOrder'
  BY <1>16, InOrderStill DEF Inner
<1>17. ASSUME NEW w \in Writers, PopClaim(w) PROVE InOrder'
  BY <1>17, InOrderStill DEF PopClaim, Queue!Claim
<1>18. ASSUME NEW w \in Writers, PopTake(w) PROVE InOrder'
  <2>1. Around' \subseteq Around
    BY <1>18, TakeEffect, AroundKept
  <2> QED
    BY <1>18, <2>1, TakeEffect DEF InOrder
<1>19. ASSUME NEW w \in Writers, PopNothing(w) PROVE InOrder'
  <2>1. wev'[w] \notin Event
    BY <1>19, NothingEffect DEF Event
  <2>2. Around' \subseteq Around
    BY <1>19, <2>1, NothingEffect, AroundKept
  <2> QED
    BY <1>19, <2>2, NothingEffect DEF InOrder
<1>20. ASSUME NEW w \in Writers, InsertEvent(w) PROVE InOrder'
  <2>1. Around' \subseteq Around
    BY <1>20, InsertEventEffect, AroundKept
  <2> QED
    BY <1>20, <2>1, InsertEventEffect DEF InOrder
<1>21. ASSUME NEW w \in Writers, WriteHostData(w) PROVE InOrder'
  BY <1>21, InOrderStill DEF WriteHostData
<1>22. ASSUME NEW w \in Writers, InsertDetail(w) PROVE InOrder'
  <2>1. Around' \subseteq Around
    BY <1>22, InsertDetailEffect, AroundKept
  <2> QED
    BY <1>22, <2>1, InsertDetailEffect DEF InOrder
<1>23. ASSUME NEW w \in Writers, InsertCode(w) PROVE InOrder'
  <2>1. Around' \subseteq Around
    BY <1>23, InsertCodeEffect, AroundKept
  <2> QED
    BY <1>23, <2>1, InsertCodeEffect DEF InOrder
<1>24. ASSUME NEW w \in Writers, CheckEmpty(w) PROVE InOrder'
  BY <1>24, InOrderStill DEF CheckEmpty
<1>25. ASSUME NEW w \in Writers, CheckLoaded(w) PROVE InOrder'
  BY <1>25, InOrderStill DEF CheckLoaded
<1>26. ASSUME NEW w \in Writers, Enter(w) PROVE InOrder'
  BY <1>26, InOrderStill DEF Enter
<1>27. ASSUME NEW w \in Writers, SpuriousWake(w) PROVE InOrder'
  BY <1>27, InOrderStill DEF SpuriousWake
<1>28. ASSUME NEW w \in Writers, End(w) PROVE InOrder'
  BY <1>28, InOrderStill DEF End
<1>29. ASSUME Exit PROVE InOrder'
  BY <1>29, InOrderStill DEF Exit
<1>30. ASSUME ExitNotify PROVE InOrder'
  BY <1>30, InOrderStill DEF ExitNotify
<1>31. ASSUME ExitClose PROVE InOrder'
  BY <1>31, InOrderStill DEF ExitClose
<1>32. ASSUME ExitJoin PROVE InOrder'
  BY <1>32, InOrderStill DEF ExitJoin
<1>33. CASE UNCHANGED vars
  BY <1>33, InOrderStill DEF vars
<1> QED
  BY <1>1, <1>2, <1>3, <1>4, <1>5, <1>6, <1>7, <1>8, <1>9, <1>10, <1>11, <1>12, <1>13,
     <1>14, <1>15, <1>16, <1>17, <1>18, <1>19, <1>20, <1>21, <1>22, <1>23, <1>24, <1>25,
     <1>26, <1>27, <1>28, <1>29, <1>30, <1>31, <1>32, <1>33 DEF Next, Program, PushStep,
     WriterStep, ExitStep


(* All that came before some call is done with when the queue is empty and *)
(* the only writer has nothing in hand.                                    *)
LEMMA DrainedIsClosed ==
  ASSUME Shape, Alone, Sole, Somewhere, StoredFirst, Ring!Counted,
         NEW w \in Writers, wpc[w] = "inner", was_empty, NEW p \in before
  PROVE  \E r \in Ended : r.fx = p[1]
<1>1. \A u \in Writers : wpc[u] \in {"unborn", "inner"}
  BY OneBorn DEF Born
<1>2. \A u \in Writers : want[u] = -1 /\ wev[u] = None
  BY <1>1 DEF Shape, Placed
<1>3. head <= tail
  BY DEF was_empty, Shape, TypeOK, Queue!TypeOK
<1>4. \A k \in Queue!Slots : slot[k] = None
  BY <1>2, <1>3, NothingLeft
<1>5. p[1] \in 0 .. calls - 1
  BY BeforeType
<1> QED
  BY <1>2, <1>4, <1>5 DEF Somewhere, StoredFirst, Sole


(* No event that is done with is of a call yet to come.                    *)
LEMMA EndedKnown == ASSUME Shape PROVE \A r \in Ended : r.fx # calls
<1>1. Ended \subseteq Event \cup Garbage
  BY DEF Ended, Shape, TypeOK, DatabaseOK, HistoryOK, Rows
<1>2. \A e \in Event \cup Garbage : e.fx < calls => e.fx # calls
  BY DEF Event, Garbage, Shape, TypeOK, HistoryOK
<1> QED
  BY <1>1, <1>2 DEF Ended, Shape, Known

(* What was closed stays so when a step moves no event to the tables and   *)
(* no writer out of its inner loop.                                        *)
LEMMA ClosedStill ==
  ASSUME Closed, Sole' => Sole, UNCHANGED <<before, tables, dropped>>,
         \A w \in Writers : wpc[w] \in DrainPcs => wpc'[w] \in DrainPcs
  PROVE  Closed'
BY DEF Closed, Ended

(* The writer leaves its inner loop on an empty queue.                     *)
LEMMA ClosedStep ==
  ASSUME Shape, Alone, Somewhere, StoredFirst, Ring!Counted, Closed, [Next]_vars PROVE Closed'
<1> USE SoleBefore DEF Shape, TypeOK, WriterOK, WGoto, state, queue, thread, writer,
      database, history
<1>1. ASSUME Start PROVE Closed'
  BY <1>1, ClosedStill DEF Start, DrainPcs, Sole
<1>2. ASSUME NEW t \in Threads, NEW k \in CallKinds, Call(t, k) PROVE Closed'
  <2>1. UNCHANGED <<wpc, mode, started>> /\ Ended' = Ended
    BY <1>2, CallEffect DEF Ended
  <2>2. \A r \in Ended : r.fx # calls
    BY EndedKnown
  <2>3. \A p \in before' : p \in before \/ p[2] = calls
    BY <1>2, EffectBefore, CallEffect DEF Call
  <2> QED
    BY <2>1, <2>2, <2>3 DEF Closed, Sole
<1>3. ASSUME NEW t \in Threads, NEW f \in FatBins, Register(t, f) PROVE Closed'
  BY <1>3, ClosedStill DEF Register, DrainPcs
<1>4. ASSUME NEW t \in Threads, AssignId(t) PROVE Closed'
  BY <1>4, AssignEffect, ClosedStill DEF DrainPcs
<1>5. ASSUME NEW t \in Threads, Bundle(t) PROVE Closed'
  <2>1. UNCHANGED <<wpc, mode, started>> /\ Ended' = Ended
    BY <1>5, BundleEffect DEF Ended
  <2>2. \A r \in Ended : r.fx # calls
    BY EndedKnown
  <2>3. \A p \in before' : p \in before \/ p[2] = calls
    BY <1>5, EffectBefore, BundleEffect DEF Bundle
  <2> QED
    BY <2>1, <2>2, <2>3 DEF Closed, Sole
<1>6. ASSUME NEW t \in Threads, Registered(t) PROVE Closed'
  BY <1>6, ClosedStill DEF Registered, DrainPcs
<1>7. ASSUME NEW t \in Threads, Pushback(t) PROVE Closed'
  BY <1>7, ClosedStill DEF Pushback, DrainPcs
<1>8. ASSUME NEW t \in Threads, NEW w \in Writers, Spawn(t, w) PROVE Closed'
  BY <1>8, ClosedStill DEF Spawn, DrainPcs
<1>9. ASSUME NEW t \in Threads, Mark(t) PROVE Closed'
  BY <1>9, ClosedStill DEF Mark, DrainPcs
<1>10. ASSUME NEW t \in Threads, Reserve(t) PROVE Closed'
  BY <1>10, ReserveEffect, ClosedStill DEF DrainPcs
<1>11. ASSUME NEW t \in Threads, Store(t) PROVE Closed'
  BY <1>11, StoreEffect, ClosedStill DEF DrainPcs
<1>12. ASSUME NEW t \in Threads, Notify(t) PROVE Closed'
  BY <1>12, ClosedStill DEF Notify, DrainPcs, WakeAll
<1>13. ASSUME NEW w \in Writers, Prepare(w) PROVE Closed'
  BY <1>13, ClosedStill DEF Prepare, DrainPcs
<1>14. ASSUME NEW w \in Writers, Begin(w) PROVE Closed'
  BY <1>14, ClosedStill DEF Begin, DrainPcs
<1>15. ASSUME NEW w \in Writers, Outer(w) PROVE Closed'
  BY <1>15, ClosedStill DEF Outer, DrainPcs
<1>16. ASSUME NEW w \in Writers, Inner(w) PROVE Closed'
  <2>1. UNCHANGED <<before, mode, started>> /\ Ended' = Ended
    BY <1>16 DEF Inner, Ended
  <2>2. CASE was_empty
    <3>1. Sole => \A p \in before : \E r \in Ended : r.fx = p[1]
      BY <1>16, <2>2, DrainedIsClosed DEF Inner
    <3> QED
      BY <2>1, <3>1 DEF Closed, Sole
  <2>3. CASE ~was_empty
    <3>1. wpc'[w] = "pop"
      BY <1>16, <2>3 DEF Inner, WGoto, TypeOK, WriterOK
    <3> QED
      BY <3>1 DEF Closed, DrainPcs
  <2> QED
    BY <2>2, <2>3
<1>17. ASSUME NEW w \in Writers, PopClaim(w) PROVE Closed'
  <2>1. wpc'[w] \in DrainPcs
    BY <1>17 DEF PopClaim, WGoto, TypeOK, WriterOK, DrainPcs
  <2> QED
    BY <2>1 DEF Closed
<1>18. ASSUME NEW w \in Writers, PopTake(w) PROVE Closed'
  BY <1>18, TakeEffect, ClosedStill DEF DrainPcs
<1>19. ASSUME NEW w \in Writers, PopNothing(w) PROVE Closed'
  BY <1>19, NothingEffect, ClosedStill DEF DrainPcs
<1>20. ASSUME NEW w \in Writers, InsertEvent(w) PROVE Closed'
  <2>1. wpc'[w] \in DrainPcs
    BY <1>20, InsertEventEffect DEF DrainPcs
  <2> QED
    BY <2>1 DEF Closed
<1>21. ASSUME NEW w \in Writers, WriteHostData(w) PROVE Closed'
  <2>1. wpc'[w] \in DrainPcs
    BY <1>21 DEF WriteHostData, WGoto, TypeOK, WriterOK, DrainPcs
  <2> QED
    BY <2>1 DEF Closed
<1>22. ASSUME NEW w \in Writers, InsertDetail(w) PROVE Closed'
  <2>1. wpc'[w] \in DrainPcs
    BY <1>22, InsertDetailEffect DEF DrainPcs
  <2> QED
    BY <2>1 DEF Closed
<1>23. ASSUME NEW w \in Writers, InsertCode(w) PROVE Closed'
  <2>1. wpc'[w] \in DrainPcs
    BY <1>23, InsertCodeEffect DEF DrainPcs
  <2> QED
    BY <2>1 DEF Closed
<1>24. ASSUME NEW w \in Writers, CheckEmpty(w) PROVE Closed'
  BY <1>24, ClosedStill DEF CheckEmpty, DrainPcs
<1>25. ASSUME NEW w \in Writers, CheckLoaded(w) PROVE Closed'
  BY <1>25, ClosedStill DEF CheckLoaded, DrainPcs
<1>26. ASSUME NEW w \in Writers, Enter(w) PROVE Closed'
  BY <1>26, ClosedStill DEF Enter, DrainPcs
<1>27. ASSUME NEW w \in Writers, SpuriousWake(w) PROVE Closed'
  BY <1>27, ClosedStill DEF SpuriousWake, DrainPcs
<1>28. ASSUME NEW w \in Writers, End(w) PROVE Closed'
  BY <1>28, ClosedStill DEF End, DrainPcs
<1>29. ASSUME Exit PROVE Closed'
  BY <1>29, ClosedStill DEF Exit, DrainPcs
<1>30. ASSUME ExitNotify PROVE Closed'
  BY <1>30, ClosedStill DEF ExitNotify, DrainPcs, WakeAll
<1>31. ASSUME ExitClose PROVE Closed'
  BY <1>31, ClosedStill DEF ExitClose, DrainPcs
<1>32. ASSUME ExitJoin PROVE Closed'
  BY <1>32, ClosedStill DEF ExitJoin, DrainPcs
<1>33. CASE UNCHANGED vars
  BY <1>33, ClosedStill DEF vars, Sole
<1> QED
  BY <1>1, <1>2, <1>3, <1>4, <1>5, <1>6, <1>7, <1>8, <1>9, <1>10, <1>11, <1>12, <1>13,
     <1>14, <1>15, <1>16, <1>17, <1>18, <1>19, <1>20, <1>21, <1>22, <1>23, <1>24, <1>25,
     <1>26, <1>27, <1>28, <1>29, <1>30, <1>31, <1>32, <1>33 DEF Next, Program, PushStep,
     WriterStep, ExitStep

(* The writer's rows are committed by its END TRANSACTION and by nothing   *)
(* before.                                                                 *)
LEMMA DiskOnceStep ==
  ASSUME Shape, Recording, DiskOnce, [Next]_vars PROVE DiskOnce'
<1> USE DEF Shape, TypeOK, WriterOK, DiskOnce, WGoto, state, queue, thread, writer,
      database, history
<1>1. ASSUME Start PROVE DiskOnce'
  BY <1>1 DEF Start, Sole
<1>2. ASSUME NEW t \in Threads, NEW k \in CallKinds, Call(t, k) PROVE DiskOnce'
  BY <1>2, CallEffect DEF Sole
<1>3. ASSUME NEW t \in Threads, NEW f \in FatBins, Register(t, f) PROVE DiskOnce'
  BY <1>3 DEF Register, Sole
<1>4. ASSUME NEW t \in Threads, AssignId(t) PROVE DiskOnce'
  BY <1>4, AssignEffect DEF Sole
<1>5. ASSUME NEW t \in Threads, Bundle(t) PROVE DiskOnce'
  BY <1>5, BundleEffect DEF Sole
<1>6. ASSUME NEW t \in Threads, Registered(t) PROVE DiskOnce'
  BY <1>6 DEF Registered, Sole
<1>7. ASSUME NEW t \in Threads, Pushback(t) PROVE DiskOnce'
  BY <1>7 DEF Pushback, Sole
<1>8. ASSUME NEW t \in Threads, NEW w \in Writers, Spawn(t, w) PROVE DiskOnce'
  BY <1>8 DEF Spawn, Sole
<1>9. ASSUME NEW t \in Threads, Mark(t) PROVE DiskOnce'
  BY <1>9 DEF Mark, Sole
<1>10. ASSUME NEW t \in Threads, Reserve(t) PROVE DiskOnce'
  BY <1>10, ReserveEffect DEF Sole
<1>11. ASSUME NEW t \in Threads, Store(t) PROVE DiskOnce'
  BY <1>11, StoreEffect DEF Sole
<1>12. ASSUME NEW t \in Threads, Notify(t) PROVE DiskOnce'
  BY <1>12 DEF Notify, Sole, WakeAll
<1>13. ASSUME NEW w \in Writers, Prepare(w) PROVE DiskOnce'
  BY <1>13 DEF Prepare, Sole
<1>14. ASSUME NEW w \in Writers, Begin(w) PROVE DiskOnce'
  BY <1>14 DEF Begin, Sole
<1>15. ASSUME NEW w \in Writers, Outer(w) PROVE DiskOnce'
  BY <1>15 DEF Outer, Sole
<1>16. ASSUME NEW w \in Writers, Inner(w) PROVE DiskOnce'
  BY <1>16 DEF Inner, Sole
<1>17. ASSUME NEW w \in Writers, PopClaim(w) PROVE DiskOnce'
  BY <1>17 DEF PopClaim, Sole, Queue!Claim
<1>18. ASSUME NEW w \in Writers, PopTake(w) PROVE DiskOnce'
  BY <1>18, TakeEffect DEF Sole
<1>19. ASSUME NEW w \in Writers, PopNothing(w) PROVE DiskOnce'
  BY <1>19, NothingEffect DEF Sole
<1>20. ASSUME NEW w \in Writers, InsertEvent(w) PROVE DiskOnce'
  <2>1. Sole => disk' = disk
    BY <1>20, InsertEventEffect DEF Usable, Recording, InTransaction
  <2> QED
    BY <1>20, <2>1, InsertEventEffect DEF Sole
<1>21. ASSUME NEW w \in Writers, WriteHostData(w) PROVE DiskOnce'
  BY <1>21 DEF WriteHostData, Sole
<1>22. ASSUME NEW w \in Writers, InsertDetail(w) PROVE DiskOnce'
  <2>1. Sole => disk' = disk
    BY <1>22, InsertDetailEffect DEF Usable, Recording, InTransaction
  <2> QED
    BY <1>22, <2>1, InsertDetailEffect DEF Sole
<1>23. ASSUME NEW w \in Writers, InsertCode(w) PROVE DiskOnce'
  <2>1. Sole => disk' = disk
    BY <1>23, InsertCodeEffect DEF Usable, Recording, InTransaction
  <2> QED
    BY <1>23, <2>1, InsertCodeEffect DEF Sole
<1>24. ASSUME NEW w \in Writers, CheckEmpty(w) PROVE DiskOnce'
  BY <1>24 DEF CheckEmpty, Sole
<1>25. ASSUME NEW w \in Writers, CheckLoaded(w) PROVE DiskOnce'
  BY <1>25 DEF CheckLoaded, Sole
<1>26. ASSUME NEW w \in Writers, Enter(w) PROVE DiskOnce'
  BY <1>26 DEF Enter, Sole
<1>27. ASSUME NEW w \in Writers, SpuriousWake(w) PROVE DiskOnce'
  BY <1>27 DEF SpuriousWake, Sole
<1>28. ASSUME NEW w \in Writers, End(w) PROVE DiskOnce'
  BY <1>28 DEF End, Sole
<1>29. ASSUME Exit PROVE DiskOnce'
  BY <1>29 DEF Exit, Sole
<1>30. ASSUME ExitNotify PROVE DiskOnce'
  BY <1>30 DEF ExitNotify, Sole, WakeAll
<1>31. ASSUME ExitClose PROVE DiskOnce'
  BY <1>31 DEF ExitClose, Sole
<1>32. ASSUME ExitJoin PROVE DiskOnce'
  BY <1>32 DEF ExitJoin, Sole
<1>33. CASE UNCHANGED vars
  BY <1>33 DEF vars, Sole
<1> QED
  BY <1>1, <1>2, <1>3, <1>4, <1>5, <1>6, <1>7, <1>8, <1>9, <1>10, <1>11, <1>12, <1>13,
     <1>14, <1>15, <1>16, <1>17, <1>18, <1>19, <1>20, <1>21, <1>22, <1>23, <1>24, <1>25,
     <1>26, <1>27, <1>28, <1>29, <1>30, <1>31, <1>32, <1>33 DEF Next, Program, PushStep,
     WriterStep, ExitStep


(* The order of events on their way to the disk, in every behaviour.       *)
LEMMA ClosedHolds == Spec => [](StoredFirst /\ InOrder /\ Closed /\ DiskOnce)
<1>1. Init => StoredFirst /\ InOrder /\ Closed /\ DiskOnce
  BY DEF Init, StoredFirst, InOrder, Closed, DiskOnce
<1>2. Shape /\ StoredFirst /\ [Next]_vars => StoredFirst'
  BY StoredFirstStep
<1>3. Tracked /\ StoredFirst /\ InOrder /\ [Next]_vars => InOrder'
  BY InOrderStep DEF Tracked
<1>4. Tracked /\ Somewhere /\ StoredFirst /\ Ring!Counted /\ Closed /\ [Next]_vars => Closed'
  BY ClosedStep DEF Tracked
<1>5. Shape /\ Recording /\ DiskOnce /\ [Next]_vars => DiskOnce'
  BY DiskOnceStep
<1> QED
  BY <1>1, <1>2, <1>3, <1>4, <1>5, ShapeHolds, TrackedHolds, OnceHolds, RecordingHolds,
     QueueCounts, PTL DEF Spec

(* A capture that ends early ends without a gap: with a call, what was     *)
(* queued before it began is on disk too, with a smaller id.               *)
THEOREM CausallyClosedHolds == Spec => []CausallyClosed
<1>1. Tracked /\ Recording /\ InOrder /\ Closed /\ DiskOnce => CausallyClosed
  <2> SUFFICES ASSUME Tracked, Recording, InOrder, Closed, DiskOnce, Sole,
                      NEW p \in before, Recorded(p[2])
               PROVE  /\ Recorded(p[1])
                      /\ \A a, b \in disk.events : <<a.fx, b.fx>> = p => a.id < b.id
    BY DEF CausallyClosed, Sole
  <2>1. disk # NoRows
    BY DEF Recorded, NoRows
  <2>2. PICK w \in Writers : wpc[w] = "done"
    BY <2>1 DEF DiskOnce
  <2>3. disk = tables /\ dropped = {}
    BY <2>2 DEF Recording, InTransaction, Genuine
  <2>4. \A u \in Writers : wpc[u] \in {"unborn", "done"}
    BY <2>2, OneBorn DEF Tracked, Born
  <2>5. Recorded(p[1])
    <3>1. \E r \in Ended : r.fx = p[2]
      BY <2>3 DEF Recorded, Ended
    <3>2. \E r \in Ended : r.fx = p[1]
      BY <2>4, <3>1 DEF Closed, DrainPcs
    <3> QED
      BY <2>3, <3>2 DEF Recorded, Ended
  <2>6. ASSUME NEW a \in disk.events, NEW b \in disk.events, <<a.fx, b.fx>> = p PROVE a.id < b.id
    <3>1. a.fx >= 0 /\ b.fx >= 0
      BY <2>3, <2>6 DEF Recording, Genuine
    <3>2. a \in Event /\ b \in Event
      <4>1. a \in Event \cup Garbage /\ b \in Event \cup Garbage
        BY <2>3, <2>6 DEF Tracked, Shape, TypeOK, DatabaseOK, Rows
      <4> QED
        BY <3>1, <4>1 DEF Garbage
    <3>3. a \in Around /\ b \in Around /\ a.kind # "code" /\ b.kind # "code" /\ b.id >= 0
      BY <2>3, <2>6, <3>1, <3>2 DEF Around, Tracked, Sorted, Assigned
    <3> QED
      BY <2>6, <3>3 DEF InOrder
  <2> QED
    BY <2>5, <2>6
<1> QED
  BY <1>1, TrackedHolds, RecordingHolds, ClosedHolds, PTL
-----------------------------------------------------------------------------
(* The promise of a recorder *)

(* Before the program exits nothing is said of its end, and its writer     *)
(* does not end.                                                           *)
Late ==
    dtor = "run" =>
        /\ ~draining
        /\ mode = "capture" => \A w \in Writers : wpc[w] \notin {"end", "done"}

(* The writer leaves its outer loop only when library_loaded is FALSE.     *)
LEMMA LateStep ==
  ASSUME Shape, Served, Late, [Next]_vars PROVE Late'
<1> USE DEF Shape, TypeOK, StateOK, WriterOK, Served, Late, WGoto, state, queue, thread,
      writer, database, history
<1>1. ASSUME Start PROVE Late'
  BY <1>1 DEF Start
<1>2. ASSUME NEW t \in Threads, NEW k \in CallKinds, Call(t, k) PROVE Late'
  BY <1>2, CallEffect
<1>3. ASSUME NEW t \in Threads, NEW f \in FatBins, Register(t, f) PROVE Late'
  BY <1>3 DEF Register
<1>4. ASSUME NEW t \in Threads, AssignId(t) PROVE Late'
  BY <1>4, AssignEffect
<1>5. ASSUME NEW t \in Threads, Bundle(t) PROVE Late'
  BY <1>5, BundleEffect
<1>6. ASSUME NEW t \in Threads, Registered(t) PROVE Late'
  BY <1>6 DEF Registered
<1>7. ASSUME NEW t \in Threads, Pushback(t) PROVE Late'
  BY <1>7 DEF Pushback
<1>8. ASSUME NEW t \in Threads, NEW w \in Writers, Spawn(t, w) PROVE Late'
  BY <1>8 DEF Spawn
<1>9. ASSUME NEW t \in Threads, Mark(t) PROVE Late'
  BY <1>9 DEF Mark
<1>10. ASSUME NEW t \in Threads, Reserve(t) PROVE Late'
  BY <1>10, ReserveEffect
<1>11. ASSUME NEW t \in Threads, Store(t) PROVE Late'
  BY <1>11, StoreEffect
<1>12. ASSUME NEW t \in Threads, Notify(t) PROVE Late'
  BY <1>12 DEF Notify, WakeAll
<1>13. ASSUME NEW w \in Writers, Prepare(w) PROVE Late'
  BY <1>13 DEF Prepare
<1>14. ASSUME NEW w \in Writers, Begin(w) PROVE Late'
  BY <1>14 DEF Begin
<1>15. ASSUME NEW w \in Writers, Outer(w) PROVE Late'
  BY <1>15 DEF Outer
<1>16. ASSUME NEW w \in Writers, Inner(w) PROVE Late'
  BY <1>16 DEF Inner
<1>17. ASSUME NEW w \in Writers, PopClaim(w) PROVE Late'
  BY <1>17 DEF PopClaim
<1>18. ASSUME NEW w \in Writers, PopTake(w) PROVE Late'
  BY <1>18, TakeEffect
<1>19. ASSUME NEW w \in Writers, PopNothing(w) PROVE Late'
  BY <1>19, NothingEffect
<1>20. ASSUME NEW w \in Writers, InsertEvent(w) PROVE Late'
  BY <1>20, InsertEventEffect
<1>21. ASSUME NEW w \in Writers, WriteHostData(w) PROVE Late'
  BY <1>21 DEF WriteHostData
<1>22. ASSUME NEW w \in Writers, InsertDetail(w) PROVE Late'
  BY <1>22, InsertDetailEffect
<1>23. ASSUME NEW w \in Writers, InsertCode(w) PROVE Late'
  BY <1>23, InsertCodeEffect
<1>24. ASSUME NEW w \in Writers, CheckEmpty(w) PROVE Late'
  BY <1>24 DEF CheckEmpty
<1>25. ASSUME NEW w \in Writers, CheckLoaded(w) PROVE Late'
  BY <1>25 DEF CheckLoaded
<1>26. ASSUME NEW w \in Writers, Enter(w) PROVE Late'
  BY <1>26 DEF Enter
<1>27. ASSUME NEW w \in Writers, SpuriousWake(w) PROVE Late'
  BY <1>27 DEF SpuriousWake
<1>28. ASSUME NEW w \in Writers, End(w) PROVE Late'
  BY <1>28 DEF End
<1>29. ASSUME Exit PROVE Late'
  BY <1>29 DEF Exit
<1>30. ASSUME ExitNotify PROVE Late'
  BY <1>30 DEF ExitNotify, WakeAll
<1>31. ASSUME ExitClose PROVE Late'
  BY <1>31 DEF ExitClose
<1>32. ASSUME ExitJoin PROVE Late'
  BY <1>32 DEF ExitJoin
<1>33. CASE UNCHANGED vars
  BY <1>33 DEF vars
<1> QED
  BY <1>1, <1>2, <1>3, <1>4, <1>5, <1>6, <1>7, <1>8, <1>9, <1>10, <1>11, <1>12, <1>13,
     <1>14, <1>15, <1>16, <1>17, <1>18, <1>19, <1>20, <1>21, <1>22, <1>23, <1>24, <1>25,
     <1>26, <1>27, <1>28, <1>29, <1>30, <1>31, <1>32, <1>33 DEF Next, Program, PushStep,
     WriterStep, ExitStep

(* The writer is late in every behaviour.                                  *)
LEMMA LateHolds == Spec => []Late
<1>1. Init => Late
  BY DEF Init, Late
<1> QED
  BY <1>1, ShapeHolds, ServedHolds, LateStep, PTL DEF Spec

(* Without a commit there is no record.                                    *)
LEMMA NothingKept ==
  ASSUME DiskOnce, Sole => \A w \in Writers : wpc[w] # "done"
  PROVE  KeptView = {}
<1>1. CASE Sole
  <2>1. disk.events = {} /\ disk.codes = {}
    BY <1>1 DEF DiskOnce, NoRows
  <2> QED
    BY <2>1 DEF KeptView
<1> QED
  BY <1>1 DEF KeptView

(* With it every row can be read, with its details and its file.           *)
LEMMA AllReadable ==
  ASSUME Tracked, Recording, Filed, Sole, NEW w \in Writers, wpc[w] = "done"
  PROVE  /\ disk = tables
         /\ KeptView = {Record(r) : r \in disk.events \cup disk.codes}
<1>1. disk = tables
  BY DEF Recording, InTransaction
<1>2. disk.details = Detailed(disk)
  BY DEF Recording, Whole
<1>3. ASSUME NEW r \in disk.events \cup disk.codes PROVE Readable(r)
  <2>1. CASE r \in disk.codes
    BY <1>1, <2>1 DEF Tracked, Sorted, Filed, HasFile, Readable
  <2>2. CASE r \in disk.events
    <3>1. r.kind # "code"
      BY <1>1, <2>2 DEF Tracked, Sorted
    <3>2. r.kind \in {"detail", "copy"} => r \in disk.details
      BY <1>2, <2>2 DEF Detailed
    <3>3. r.kind = "copy" => HasFile(r, files)
      BY <1>1, <3>2 DEF Filed
    <3> QED
      BY <3>1, <3>2, <3>3 DEF Readable, HasFile
  <2> QED
    BY <2>1, <2>2
<1>4. {r \in disk.events \cup disk.codes : Readable(r)} = disk.events \cup disk.codes
  BY <1>3
<1> QED
  BY <1>1, <1>4 DEF KeptView

(* The records are as Recorder wants them.                                 *)
KeptFaithful == Promise!Faithful(KeptView)
LEMMA KeptFaithfulHolds == Spec => []KeptFaithful
<1>1. Tracked /\ Recording /\ Filed /\ DiskOnce /\ CausallyClosed => KeptFaithful
  <2> SUFFICES ASSUME Tracked, Recording, Filed, DiskOnce, CausallyClosed
               PROVE  KeptFaithful
    OBVIOUS
  <2>1. ASSUME KeptView = {} PROVE KeptFaithful
    BY <2>1 DEF KeptFaithful, Promise!Faithful, Promise!Kept
  <2>2. ASSUME Sole, NEW w \in Writers, wpc[w] = "done" PROVE KeptFaithful
    <3> DEFINE rows == disk.events \cup disk.codes
    <3>1. disk = tables /\ KeptView = {Record(r) : r \in rows}
      BY <2>2, AllReadable
    <3>2. \A r \in rows : r.fx \in 0 .. calls - 1
      <4>1. calls \in Nat /\ \A r \in rows : r \in Event \cup Garbage
        BY DEF Tracked, Shape, TypeOK, DatabaseOK, HistoryOK, Rows
      <4>2. \A r \in rows : r.fx >= 0 /\ r.fx < calls
        BY <2>2, <3>1 DEF Tracked, Shape, Known, Recording, Genuine
      <4>3. \A r \in Event \cup Garbage : r.fx \in Int
        BY DEF Event, Garbage
      <4> QED
        BY <4>1, <4>2, <4>3
    <3>3. \A r, s \in rows : r.fx = s.fx => r = s
      <4>1. \A r \in rows : r \in Ended /\ r.fx >= 0
        BY <3>1, <3>2 DEF Ended
      <4> QED
        BY <4>1 DEF Tracked, Once
    <3>4. \A r : Record(r).call = r.fx
      BY DEF Record
    <3>5. \A r \in rows : Record(r).id # -1 => r \in disk.events /\ Record(r).id = r.id
      BY <3>1 DEF Record, Tracked, Sorted
    <3>6. \A n : Promise!Kept(n, KeptView) <=> Recorded(n)
      BY <3>1, <3>4 DEF Promise!Kept, Recorded
    <3>7. \A p \in before : Promise!Kept(p[2], KeptView) => Promise!Kept(p[1], KeptView)
      BY <2>2, <3>6 DEF CausallyClosed, Sole
    <3>8. ASSUME NEW r \in rows, NEW s \in rows, <<r.fx, s.fx>> \in before,
                 Record(r).id # -1, Record(s).id # -1
          PROVE  Record(r).id < Record(s).id
      <4>1. r \in disk.events /\ s \in disk.events /\ Recorded(s.fx)
        BY <3>5, <3>8 DEF Recorded
      <4>2. PICK p \in before : p = <<r.fx, s.fx>>
        BY <3>8
      <4>3. r.id < s.id
        BY <2>2, <4>1, <4>2 DEF CausallyClosed, Sole
      <4> QED
        BY <3>5, <3>8, <4>3
    <3>9. \A r \in KeptView : r.call \in 0 .. calls - 1
      BY <3>1, <3>2, <3>4
    <3>10. \A r, s \in KeptView : r.call = s.call => r = s
      BY <3>1, <3>3, <3>4
    <3>11. \A r, s \in KeptView :
               (<<r.call, s.call>> \in before /\ r.id # -1 /\ s.id # -1) => r.id < s.id
      BY <3>1, <3>4, <3>8
    <3> QED
      BY <3>7, <3>9, <3>10, <3>11 DEF KeptFaithful, Promise!Faithful, Promise!NoId
  <2> QED
    BY <2>1, <2>2, NothingKept
<1> QED
  BY <1>1, TrackedHolds, RecordingHolds, FiledHolds, ClosedHolds, CausallyClosedHolds, PTL

(* Nothing is missing from the capture of a program that ended in time.    *)
AllKept ==
    (dtor = "destroyed" /\ draining /\ Sole) => \A n \in 0 .. calls - 1 : Promise!Kept(n, KeptView)
LEMMA AllKeptHolds == Spec => []AllKept
<1>1. Tracked /\ Recording /\ Filed /\ Emptied /\ CompleteWhenDraining => AllKept
  <2> SUFFICES ASSUME Tracked, Recording, Filed, Emptied, CompleteWhenDraining,
                      dtor = "destroyed", draining, Sole, NEW n \in 0 .. calls - 1
               PROVE  Promise!Kept(n, KeptView)
    BY DEF AllKept
  <2>1. PICK w \in Writers : wpc[w] = "done"
    <3>1. PICK w \in Writers : Born(w)
      BY DEF Emptied, Tracked, Alone, Sole
    <3>2. wpc[w] \in {"unborn", "done"}
      BY DEF CompleteWhenDraining, Sole
    <3> QED
      BY <3>1, <3>2 DEF Born
  <2>2. KeptView = {Record(r) : r \in disk.events \cup disk.codes}
    BY <2>1, AllReadable
  <2>3. PICK r \in disk.events \cup disk.codes : r.fx = n
    BY DEF CompleteWhenDraining, Sole, Recorded
  <2>4. Record(r) \in KeptView /\ Record(r).call = n
    BY <2>2, <2>3 DEF Record
  <2> QED
    BY <2>4 DEF Promise!Kept
<1> QED
  BY <1>1, TrackedHolds, RecordingHolds, FiledHolds, EmptiedHolds,
     CompleteWhenDrainingHolds, PTL

(* The abstract variables say nothing of what most steps change.           *)
LEMMA SettledStep ==
  ASSUME UNCHANGED <<calls, before, disk, files, mode, started, draining, StageView>>
  PROVE  UNCHANGED Promise!vars
BY DEF Promise!vars, KeptView, Sole, Readable, Record

(* Nor of what the writer does to a transaction that is open.              *)
LEMMA InsertSeen ==
  ASSUME Alone, DiskOnce, DiskOnce', NEW w \in Writers, wpc[w] \notin {"unborn", "done"},
         wpc'[w] # "done", \A u \in Writers : u # w => wpc'[u] = wpc[u],
         UNCHANGED <<calls, before, mode, started, dtor, draining>>
  PROVE  UNCHANGED Promise!vars
<1>1. Sole => \A u \in Writers : wpc[u] # "done"
  BY OneBorn DEF Born
<1>2. KeptView = {}
  BY <1>1, NothingKept
<1>3. Sole' => disk'.events = {} /\ disk'.codes = {}
  BY <1>1 DEF DiskOnce, NoRows, Sole
<1>4. KeptView' = {}
  BY <1>3 DEF KeptView
<1> QED
  BY <1>2, <1>4 DEF Promise!vars, StageView, Sole

(* A call adds to the order what came before it.                           *)
LEMMA EffectCalls ==
  ASSUME Effect
  PROVE  /\ calls' = calls + 1
         /\ \E earlier \in SUBSET (0 .. calls - 1) : before' = before \cup (earlier \X {calls})
<1>1. (0 .. calls - 1) \ Unstored \in SUBSET (0 .. calls - 1)
  OBVIOUS
<1>2. {<<n, calls>> : n \in (0 .. calls - 1) \ Unstored} = ((0 .. calls - 1) \ Unstored) \X {calls}
  OBVIOUS
<1> QED
  BY <1>1, <1>2 DEF Effect

(* The writer's last step is the commit.                                   *)
LEMMA CommitStep ==
  ASSUME Tracked, Late, DiskOnce, KeptFaithful', Alive, NEW w \in Writers, End(w)
  PROVE  [Promise!Next]_(Promise!vars)
<1>1. /\ wpc[w] = "end"
      /\ UNCHANGED <<calls, before, mode, started, dtor, draining>>
  BY DEF End, state, thread, history
<1>2. CASE Sole
  <2>1. \A u \in Writers : wpc[u] # "done"
    BY <1>1, <1>2, OneBorn DEF Tracked, Born
  <2>2. KeptView = {}
    BY <2>1, NothingKept
  <2>3. StageView = "ending"
    BY <1>1, <1>2 DEF Late, Sole, Alive, StageView
  <2>4. Promise!Faithful(KeptView')
    BY <1>1 DEF KeptFaithful, Promise!Faithful, Promise!Kept
  <2>5. UNCHANGED <<StageView, draining /\ Sole>>
    BY <1>1 DEF StageView, Sole
  <2> QED
    BY <1>1, <2>2, <2>3, <2>4, <2>5 DEF Promise!Next, Promise!Commit
<1>3. CASE ~Sole
  <2>1. KeptView = {} /\ KeptView' = {}
    BY <1>1, <1>3 DEF KeptView, Sole
  <2> QED
    BY <1>1, <1>3, <2>1 DEF Promise!vars, StageView, Sole
<1> QED
  BY <1>2, <1>3

(* The program exits.                                                      *)
LEMMA ExitSeen ==
  ASSUME Exit
  PROVE  Promise!Exit
<1>1. /\ dtor = "run"
      /\ \/ dtor' = "notify"
         \/ dtor' = "destroyed" /\ mode = "binint"
      /\ UNCHANGED <<calls, before, disk, files, mode, started>>
      /\ draining' \in BOOLEAN
  BY DEF Exit, thread, database
<1>2. /\ KeptView' = KeptView /\ Sole' = Sole
      /\ StageView = "recording"
  BY <1>1 DEF KeptView, Sole, Readable, Record, StageView
<1>3. (draining /\ Sole)' \in BOOLEAN
  BY <1>1 DEF Sole
<1>4. CASE dtor' = "notify"
  <2>1. StageView' = "ending"
    BY <1>4 DEF StageView
  <2> QED
    BY <1>1, <1>2, <1>3, <2>1 DEF Promise!Exit
<1>5. CASE dtor' = "destroyed" /\ mode = "binint"
  <2>1. StageView' = "ended"
    BY <1>5 DEF StageView
  <2>2. (draining /\ Sole)' = FALSE
    BY <1>1, <1>5 DEF Sole
  <2> QED
    BY <1>1, <1>2, <2>1, <2>2 DEF Promise!Exit
<1> QED
  BY <1>1, <1>4, <1>5

(* The destructor has joined the writer: the program ends.                 *)
LEMMA EndSeen ==
  ASSUME ExitJoin, AllKept'
  PROVE  Promise!End
<1>1. /\ dtor = "join" /\ dtor' = "destroyed"
      /\ UNCHANGED <<calls, before, disk, files, mode, started, draining>>
  BY DEF ExitJoin, state, thread, database, history
<1>2. KeptView' = KeptView /\ Sole' = Sole /\ (draining /\ Sole)' = (draining /\ Sole)
  BY <1>1 DEF KeptView, Sole, Readable, Record
<1>3. StageView = "ending" /\ StageView' = "ended"
  BY <1>1 DEF StageView
<1>4. (draining /\ Sole) => \A n \in 0 .. calls - 1 : Promise!Kept(n, KeptView)
  BY <1>1, <1>2 DEF AllKept, Promise!Kept
<1> QED
  BY <1>1, <1>2, <1>3, <1>4 DEF Promise!End

(* Every step of the recorder at work is one of Recorder or unseen.        *)
LEMMA PromiseStep ==
  ASSUME Tracked, Emptied, Late, DiskOnce, DiskOnce', KeptFaithful', AllKept', [Next]_vars
  PROVE  [Promise!Next]_(Promise!vars)
<1> USE DEF state, queue, thread, writer, database, history, WGoto
<1>1. ASSUME Start PROVE [Promise!Next]_(Promise!vars)
  <2>1. UNCHANGED <<calls, before, disk, files, mode, wpc, dtor, draining>> /\ started = "no"
    BY <1>1 DEF Start
  <2>2. Sole' => Sole
    BY SoleBefore
  <2>3. ASSUME Sole, ~Sole' PROVE KeptView = {} /\ ~draining
    <3>1. dtor = "run"
      BY <2>1, <2>3 DEF Emptied
    <3> QED
      BY <2>3, <3>1, NothingKept DEF Late, Sole
  <2>4. KeptView' = KeptView /\ ((draining /\ Sole)' <=> (draining /\ Sole))
    BY <2>1, <2>2, <2>3 DEF KeptView, Readable, Record
  <2> QED
    BY <2>1, <2>4 DEF Promise!vars, StageView
<1>2. ASSUME NEW t \in Threads, NEW k \in CallKinds, Call(t, k) PROVE [Promise!Next]_(Promise!vars)
  <2>1. UNCHANGED <<disk, files, mode, started, dtor, draining>>
    BY <1>2 DEF Call
  <2>2. UNCHANGED <<KeptView, StageView, draining /\ Sole>>
    BY <2>1 DEF KeptView, StageView, Sole, Readable, Record
  <2>3. dtor = "run"
    BY <1>2 DEF Call, At, Emptied
  <2> QED
    BY <1>2, <2>2, <2>3, EffectCalls DEF Call, Promise!Next, Promise!Call, Promise!vars,
       StageView
<1>3. ASSUME NEW t \in Threads, NEW f \in FatBins, Register(t, f) PROVE [Promise!Next]_(Promise!vars)
  BY <1>3, SettledStep DEF Register, StageView
<1>4. ASSUME NEW t \in Threads, AssignId(t) PROVE [Promise!Next]_(Promise!vars)
  BY <1>4, SettledStep DEF AssignId, StageView
<1>5. ASSUME NEW t \in Threads, Bundle(t) PROVE [Promise!Next]_(Promise!vars)
  <2>1. UNCHANGED <<disk, files, mode, started, dtor, draining>>
    BY <1>5 DEF Bundle
  <2>2. UNCHANGED <<KeptView, StageView, draining /\ Sole>>
    BY <2>1 DEF KeptView, StageView, Sole, Readable, Record
  <2>3. dtor = "run"
    BY <1>5 DEF Bundle, At, Emptied
  <2> QED
    BY <1>5, <2>2, <2>3, EffectCalls DEF Bundle, Promise!Next, Promise!Call,
       Promise!vars, StageView
<1>6. ASSUME NEW t \in Threads, Registered(t) PROVE [Promise!Next]_(Promise!vars)
  BY <1>6, SettledStep DEF Registered, StageView
<1>7. ASSUME NEW t \in Threads, Pushback(t) PROVE [Promise!Next]_(Promise!vars)
  BY <1>7, SettledStep DEF Pushback, StageView
<1>8. ASSUME NEW t \in Threads, NEW w \in Writers, Spawn(t, w) PROVE [Promise!Next]_(Promise!vars)
  BY <1>8, SettledStep DEF Spawn, StageView
<1>9. ASSUME NEW t \in Threads, Mark(t) PROVE [Promise!Next]_(Promise!vars)
  BY <1>9, SettledStep DEF Mark, StageView
<1>10. ASSUME NEW t \in Threads, Reserve(t) PROVE [Promise!Next]_(Promise!vars)
  BY <1>10, SettledStep DEF Reserve, StageView
<1>11. ASSUME NEW t \in Threads, Store(t) PROVE [Promise!Next]_(Promise!vars)
  BY <1>11, SettledStep DEF Store, StageView
<1>12. ASSUME NEW t \in Threads, Notify(t) PROVE [Promise!Next]_(Promise!vars)
  BY <1>12, SettledStep DEF Notify, WakeAll, StageView
<1>13. ASSUME NEW w \in Writers, Prepare(w) PROVE [Promise!Next]_(Promise!vars)
  BY <1>13, SettledStep DEF Prepare, StageView
<1>14. ASSUME NEW w \in Writers, Begin(w) PROVE [Promise!Next]_(Promise!vars)
  BY <1>14, SettledStep DEF Begin, StageView
<1>15. ASSUME NEW w \in Writers, Outer(w) PROVE [Promise!Next]_(Promise!vars)
  BY <1>15, SettledStep DEF Outer, StageView
<1>16. ASSUME NEW w \in Writers, Inner(w) PROVE [Promise!Next]_(Promise!vars)
  BY <1>16, SettledStep DEF Inner, StageView
<1>17. ASSUME NEW w \in Writers, PopClaim(w) PROVE [Promise!Next]_(Promise!vars)
  BY <1>17, SettledStep DEF PopClaim, StageView
<1>18. ASSUME NEW w \in Writers, PopTake(w) PROVE [Promise!Next]_(Promise!vars)
  BY <1>18, SettledStep DEF PopTake, StageView
<1>19. ASSUME NEW w \in Writers, PopNothing(w) PROVE [Promise!Next]_(Promise!vars)
  BY <1>19, SettledStep DEF PopNothing, StageView
<1>20. ASSUME NEW w \in Writers, InsertEvent(w) PROVE [Promise!Next]_(Promise!vars)
  <2>1. /\ wpc[w] \notin {"unborn", "done"} /\ wpc'[w] # "done"
        /\ \A u \in Writers : u # w => wpc'[u] = wpc[u]
        /\ UNCHANGED <<calls, before, mode, started, dtor, draining>>
    BY <1>20, InsertEventEffect DEF Tracked, Shape, TypeOK, WriterOK
  <2> QED
    BY <2>1, InsertSeen DEF Tracked
<1>21. ASSUME NEW w \in Writers, WriteHostData(w) PROVE [Promise!Next]_(Promise!vars)
  <2>1. /\ wpc[w] \notin {"unborn", "done"} /\ wpc'[w] # "done"
        /\ \A u \in Writers : u # w => wpc'[u] = wpc[u]
        /\ UNCHANGED <<calls, before, mode, started, dtor, draining>>
    BY <1>21 DEF WriteHostData
  <2> QED
    BY <2>1, InsertSeen DEF Tracked
<1>22. ASSUME NEW w \in Writers, InsertDetail(w) PROVE [Promise!Next]_(Promise!vars)
  <2>1. /\ wpc[w] \notin {"unborn", "done"} /\ wpc'[w] # "done"
        /\ \A u \in Writers : u # w => wpc'[u] = wpc[u]
        /\ UNCHANGED <<calls, before, mode, started, dtor, draining>>
    BY <1>22, InsertDetailEffect DEF Tracked, Shape, TypeOK, WriterOK
  <2> QED
    BY <2>1, InsertSeen DEF Tracked
<1>23. ASSUME NEW w \in Writers, InsertCode(w) PROVE [Promise!Next]_(Promise!vars)
  <2>1. /\ wpc[w] \notin {"unborn", "done"} /\ wpc'[w] # "done"
        /\ \A u \in Writers : u # w => wpc'[u] = wpc[u]
        /\ UNCHANGED <<calls, before, mode, started, dtor, draining>>
    BY <1>23, InsertCodeEffect DEF Tracked, Shape, TypeOK, WriterOK
  <2> QED
    BY <2>1, InsertSeen DEF Tracked
<1>24. ASSUME NEW w \in Writers, CheckEmpty(w) PROVE [Promise!Next]_(Promise!vars)
  BY <1>24, SettledStep DEF CheckEmpty, StageView
<1>25. ASSUME NEW w \in Writers, CheckLoaded(w) PROVE [Promise!Next]_(Promise!vars)
  BY <1>25, SettledStep DEF CheckLoaded, StageView
<1>26. ASSUME NEW w \in Writers, Enter(w) PROVE [Promise!Next]_(Promise!vars)
  BY <1>26, SettledStep DEF Enter, StageView
<1>27. ASSUME NEW w \in Writers, SpuriousWake(w) PROVE [Promise!Next]_(Promise!vars)
  BY <1>27, SettledStep DEF SpuriousWake, StageView
<1>28. ASSUME Alive, NEW w \in Writers, End(w) PROVE [Promise!Next]_(Promise!vars)
  BY <1>28, CommitStep
<1>29. ASSUME Exit PROVE [Promise!Next]_(Promise!vars)
  BY <1>29, ExitSeen DEF Promise!Next
<1>30. ASSUME ExitNotify PROVE [Promise!Next]_(Promise!vars)
  BY <1>30, SettledStep DEF ExitNotify, WakeAll, StageView
<1>31. ASSUME ExitClose PROVE [Promise!Next]_(Promise!vars)
  BY <1>31, SettledStep DEF ExitClose, StageView
<1>32. ASSUME ExitJoin PROVE [Promise!Next]_(Promise!vars)
  BY <1>32, EndSeen DEF Promise!Next
<1>33. CASE UNCHANGED vars
  BY <1>33, SettledStep DEF vars, StageView
<1> QED
  BY <1>1, <1>2, <1>3, <1>4, <1>5, <1>6, <1>7, <1>8, <1>9, <1>10, <1>11, <1>12, <1>13,
     <1>14, <1>15, <1>16, <1>17, <1>18, <1>19, <1>20, <1>21, <1>22, <1>23, <1>24, <1>25,
     <1>26, <1>27, <1>28, <1>29, <1>30, <1>31, <1>32, <1>33 DEF Next, Program, PushStep,
     WriterStep, ExitStep

(* The interposed calls, the writer and the destructor, in any             *)
(* interleaving, keep what Recorder promises: a killed program leaves no   *)
(* capture, one that exits a commit that is closed under what its calls    *)
(* can depend on, and a complete one if the queue was being drained.       *)
THEOREM RecordsAsPromised == Spec => ImplementsRecorder
<1>1. Init => Promise!Init
  <2> SUFFICES ASSUME Init PROVE Promise!Init
    OBVIOUS
  <2>1. disk = NoRows /\ dtor = "run" /\ calls = 0 /\ before = {} /\ ~draining
    BY DEF Init
  <2>2. KeptView = {}
    BY <2>1 DEF KeptView, NoRows
  <2> QED
    BY <2>1, <2>2 DEF Promise!Init, StageView
<1> QED
  BY <1>1, PromiseStep, TrackedHolds, EmptiedHolds, LateHolds, ClosedHolds,
     KeptFaithfulHolds,
     AllKeptHolds, PTL DEF Spec, ImplementsRecorder, Promise!Spec
=============================================================================
