------------------------------- MODULE Capture -------------------------------
(***************************************************************************)
(* libhipcapture.so inside the program it records: the interposed HIP      *)
(* calls (hip/hip.cpp), the registration of fat binaries                   *)
(* (hip/hip-fatbin.cpp), pushback_event, the writer thread prepare_events, *)
(* and the constructor and destructor of hiptracer_state (include/trace.h) *)
(* around them.  The threads of the program and the writer communicate     *)
(* through events_queue, which is RingQueue here (AtomicQueue shows that   *)
(* atomic_queue.h implements it).                                          *)
(*                                                                         *)
(* An event is known by `fx', its place in the order in which the calls    *)
(* took effect in the HIP runtime; the program does not know this number.  *)
(* What a call is reduces to where its rows go: a plain event has a row in *)
(* Events, a detail event (malloc, memcpy, free, launch) has one in Events *)
(* and one in the table of its kind, a copy event (memcpy from the host)   *)
(* also a file under ./hostdata, a code event has a row in Code and a file *)
(* under ./code.                                                           *)
(***************************************************************************)
EXTENDS Integers, FiniteSets

CONSTANTS
    Threads,     \* threads of the recorded program
    Main,        \* the one that runs the static constructors and returns from main
    Writers,     \* threads that pushback_event may start
    CallKinds,   \* kinds of the events of the calls it makes
    FatBins,     \* fat binaries the program registers
    Modes,       \* which HIPTRACER_MODE to consider: "capture" (any other
                 \* word does the same), "binint", "unset"
    Bare,        \* TRUE: the program may have threads before anything was recorded;
                 \* FALSE: a static constructor registers a fat binary with gfx908
                 \* code first
    Size,        \* slots of events_queue
    None,
    MaxCalls,    \* bound: calls are made while fewer events than this exist
    MaxBundles   \* bound: gfx908 bundles in a fat binary

ASSUME MainAssumption == Main \in Threads
ASSUME RingAssumption == Size \in Nat \ {0} /\ IsFiniteSet(FatBins)
ASSUME CaptureBounds == MaxCalls \in Nat /\ MaxBundles \in Nat /\ Bare \in BOOLEAN
ASSUME KindAssumption == CallKinds \subseteq {"plain", "detail", "copy"}
ASSUME ModeAssumption == Modes \subseteq {"capture", "binint", "unset"}

VARIABLES
    \* hiptracer_state and the static flag of pushback_event
    mode, library_loaded, curr_event, event_db, db_writer_thread, prepared, handled,
    \* events_queue, and its history
    head, tail, slot, hand, want, out,
    \* the program's threads: where each is, the event it is building, the fat
    \* binary it is registering and the bundles left of it, the loader's lock
    started, pc, ev, fat, left, loader,
    \* the writers: where each is, the event it is inserting, whether its
    \* statements are prepared
    wpc, wev, stmts,
    \* the database: an open transaction, what a query would see, what is
    \* committed; the files beside it, with the event each was written for
    txn, tables, disk, files,
    \* the destructor, and whether the process has been brought down
    dtor, crashed,
    \* history: calls that took effect, which of them began when the event of
    \* which other was in the queue already, events the writer had and could
    \* not insert, writers that missed a notify, whether the writer was sure
    \* to drain the queue when the program exited
    calls, before, dropped, missed, draining

queue == <<head, tail, slot, hand, want, out>>
state == <<mode, library_loaded, curr_event, event_db, db_writer_thread, prepared, handled>>
thread == <<started, pc, ev, fat, left, loader>>
writer == <<wpc, wev, stmts>>
database == <<txn, tables, disk, files>>
history == <<calls, before, dropped, missed, draining>>
vars == <<state, queue, thread, writer, database, dtor, crashed, history>>

Kinds == {"plain", "detail", "copy", "code"}
Event == [fx : Nat, kind : Kinds, id : Nat \cup {-1}, part : Nat]
(* What an uninitialized gputrace_event is taken for. *)
Garbage == [fx : {-1}, kind : {"plain", "detail"}, id : {-1}, part : {0}]

Queue == INSTANCE RingQueue WITH
    Producers <- Threads, Consumers <- Writers, Items <- Event,
    MaxPush <- MaxCalls + MaxBundles * Cardinality(FatBins),
    MaxPop <- MaxCalls + MaxBundles * Cardinality(FatBins)

ASSUME NoneAssumption ==
    /\ None \notin Event /\ None \notin Garbage /\ None \notin Queue!Element
    /\ None \notin Threads /\ None \notin Writers /\ None \notin FatBins

(* The name of the file of an event. *)
FileOf(e) ==
    IF e.kind = "code" THEN [dir |-> "code", id |-> e.id, part |-> e.part]
    ELSE [dir |-> "hostdata", id |-> e.id, part |-> 0]
(* fopen(name, "wb") and fwrite: what was there is gone. *)
Write(e) ==
    files' = [f \in DOMAIN files \cup {FileOf(e)} |-> IF f = FileOf(e) THEN e.fx ELSE files[f]]

(* was_empty() *)
was_empty == head - tail <= 0

ThreadPcs == {"idle", "assign", "push", "spawn", "mark", "reserve", "store", "notify", "bundle"}
(* The body of the writer's inner loop, where it looks at nothing but the queue. *)
DrainPcs == {"inner", "pop", "take", "insert", "file", "detail"}
WriterPcs == DrainPcs \cup
    {"unborn", "start", "begin", "outer", "check", "loaded", "enter", "waiting", "end", "done"}
Rows == [events : SUBSET (Event \cup Garbage), details : SUBSET (Event \cup Garbage),
         codes : SUBSET Event]

StateOK ==
    /\ mode \in Modes
    /\ library_loaded \in BOOLEAN
    /\ curr_event \in Nat
    /\ event_db \in {"null", "open", "closed"}
    /\ db_writer_thread \in Writers \cup {None}
    /\ prepared \in BOOLEAN
    /\ handled \in SUBSET FatBins

ThreadOK ==
    /\ started \in {"no", "recording", "bare"}
    /\ pc \in [Threads -> ThreadPcs]
    /\ ev \in [Threads -> Event \cup {None}]
    /\ fat \in [Threads -> FatBins \cup {None}]
    /\ left \in [Threads -> Nat]
    /\ loader \in Threads \cup {None}

WriterOK ==
    /\ wpc \in [Writers -> WriterPcs]
    /\ wev \in [Writers -> Event \cup Garbage \cup {None}]
    /\ stmts \in SUBSET Writers

DatabaseOK ==
    /\ txn \in BOOLEAN
    /\ tables \in Rows
    /\ disk \in Rows
    /\ \A f \in DOMAIN files : f.dir \in {"hostdata", "code"} /\ files[f] \in 0 .. calls - 1

HistoryOK ==
    /\ calls \in Nat
    /\ before \subseteq (0 .. calls - 1) \X (0 .. calls - 1)
    /\ dropped \in SUBSET (Event \cup Garbage)
    /\ missed \in SUBSET Writers
    /\ draining \in BOOLEAN

TypeOK ==
    /\ StateOK /\ ThreadOK /\ WriterOK /\ DatabaseOK /\ HistoryOK
    /\ dtor \in {"run", "notify", "close", "join", "destroyed"}
    /\ crashed \in BOOLEAN
    /\ Queue!TypeOK

NoRows == [events |-> {}, details |-> {}, codes |-> {}]

(* hiptracer_state(): only a set HIPTRACER_MODE other than binint opens the *)
(* database, but the tool is TOOL_CAPTURE also when it is unset.            *)
Init ==
    /\ mode \in Modes
    /\ library_loaded = TRUE
    /\ curr_event = 0
    /\ event_db = IF mode = "capture" THEN "open" ELSE "null"
    /\ db_writer_thread = None
    /\ prepared = FALSE
    /\ handled = {}
    /\ Queue!Init
    /\ started = "no"
    /\ pc = [t \in Threads |-> "idle"]
    /\ ev = [t \in Threads |-> None]
    /\ fat = [t \in Threads |-> None]
    /\ left = [t \in Threads |-> 0]
    /\ loader = None
    /\ wpc = [w \in Writers |-> "unborn"]
    /\ wev = [w \in Writers |-> None]
    /\ stmts = {}
    /\ txn = FALSE
    /\ tables = NoRows
    /\ disk = NoRows
    /\ files = << >>
    /\ dtor = "run"
    /\ crashed = FALSE
    /\ calls = 0
    /\ before = {}
    /\ dropped = {}
    /\ missed = {}
    /\ draining = FALSE

-----------------------------------------------------------------------------
(* The recorded program *)

At(t, l) == pc[t] = l
Goto(t, l) == pc' = [pc EXCEPT ![t] = l]

(* The static constructors are done and main begins: until then there is   *)
(* one thread.  started' remembers whether it has recorded anything.       *)
Start ==
    /\ started = "no"
    /\ At(Main, "idle")
    /\ IF prepared \/ mode = "binint"
       THEN started' = "recording"
       ELSE Bare /\ started' = "bare"
    /\ UNCHANGED <<state, queue, pc, ev, fat, left, loader, writer, database, dtor, crashed, history>>

(* A call takes effect; the events that are stored, or taken already, come *)
(* before it.                                                              *)
Unstored == {n \in 0 .. calls - 1 : \E t \in Threads :
                \/ ev[t] # None /\ ev[t].fx = n
                \/ hand[t] # None /\ hand[t].item.fx = n}
Effect ==
    /\ calls' = calls + 1
    /\ before' = before \cup {<<n, calls>> : n \in (0 .. calls - 1) \ Unstored}

(* An interposed function: the real call has been made and has returned. *)
Call(t, k) ==
    /\ started # "no" /\ dtor = "run"
    /\ At(t, "idle")
    /\ calls < MaxCalls
    /\ ev' = [ev EXCEPT ![t] = [fx |-> calls, kind |-> k, id |-> -1, part |-> 0]]
    /\ Effect
    /\ Goto(t, "assign")
    /\ UNCHANGED <<state, queue, started, fat, left, loader, writer, database, dtor, crashed,
                   dropped, missed, draining>>

(* Slip: event.id = get_curr_event(), as captureFatBin does. *)
AssignIdStale(t) ==
    /\ At(t, "assign")
    /\ ev' = [ev EXCEPT ![t].id = curr_event]
    /\ Goto(t, "push")
    /\ UNCHANGED <<state, queue, started, fat, left, loader, writer, database, dtor, crashed, history>>

(* event.id = get_curr_event()++ *)
AssignId(t) ==
    /\ At(t, "assign")
    /\ ev' = [ev EXCEPT ![t].id = curr_event]
    /\ curr_event' = curr_event + 1
    /\ Goto(t, "push")
    /\ UNCHANGED <<mode, library_loaded, event_db, db_writer_thread, prepared, handled, queue,
                   started, fat, left, loader, writer, database, dtor, crashed, history>>

(* Slip: registering does not draw an id. *)
RegisterNoId(t, f) ==
    /\ dtor = "run" /\ (started # "no" \/ t = Main)
    /\ At(t, "idle")
    /\ loader = None
    /\ f \notin handled
    /\ loader' = t
    /\ fat' = [fat EXCEPT ![t] = f]
    /\ \E n \in 0 .. MaxBundles : left' = [left EXCEPT ![t] = n]
    /\ Goto(t, "bundle")
    /\ UNCHANGED <<state, queue, started, ev, writer, database, dtor, crashed, history>>

(* __hipRegisterFatBinary of a fat binary seen for the first time, called  *)
(* by a constructor of the object it belongs to: the dynamic loader runs   *)
(* those one at a time.                                                    *)
Register(t, f) ==
    /\ dtor = "run" /\ (started # "no" \/ t = Main)
    /\ At(t, "idle")
    /\ loader = None
    /\ f \notin handled
    /\ loader' = t
    /\ fat' = [fat EXCEPT ![t] = f]
    /\ \E n \in 0 .. MaxBundles : left' = [left EXCEPT ![t] = n]
    /\ curr_event' = curr_event + 1
    /\ Goto(t, "bundle")
    /\ UNCHANGED <<mode, library_loaded, event_db, db_writer_thread, prepared, handled, queue,
                   started, ev, writer, database, dtor, crashed, history>>

(* Slip: one bundle too many. *)
BundleOff(t) ==
    /\ At(t, "bundle")
    /\ left' = [left EXCEPT ![t] = @ - 1]
    /\ ev' = [ev EXCEPT ![t] = [fx |-> calls, kind |-> "code", id |-> curr_event, part |-> 0]]
    /\ Effect
    /\ Goto(t, "push")
    /\ UNCHANGED <<state, queue, started, fat, loader, writer, database, dtor, crashed,
                   dropped, missed, draining>>

(* The next gfx908 bundle: its file is named after curr_event and the      *)
(* place of the bundle.  id is the number in that name; captureFatBin      *)
(* reads curr_event once more, for event.id, which nothing reads: code has *)
(* no row in Events.  With TOOL_BININT the code is instrumented instead    *)
(* and no event is made.                                                   *)
Bundle(t) ==
    /\ At(t, "bundle")
    /\ left[t] > 0
    /\ left' = [left EXCEPT ![t] = @ - 1]
    /\ IF mode = "binint"
       THEN UNCHANGED <<pc, ev, calls, before>>
       ELSE /\ ev' = [ev EXCEPT ![t] = [fx |-> calls, kind |-> "code", id |-> curr_event,
                                        part |-> left[t]]]
            /\ Effect
            /\ Goto(t, "push")
    /\ UNCHANGED <<state, queue, started, fat, loader, writer, database, dtor, crashed,
                   dropped, missed, draining>>

(* All bundles done: the fat binary is marked as handled. *)
Registered(t) ==
    /\ At(t, "bundle")
    /\ left[t] = 0
    /\ handled' = handled \cup {fat[t]}
    /\ fat' = [fat EXCEPT ![t] = None]
    /\ loader' = None
    /\ Goto(t, "idle")
    /\ UNCHANGED <<mode, library_loaded, curr_event, event_db, db_writer_thread, prepared, queue,
                   started, ev, left, writer, database, dtor, crashed, history>>

-----------------------------------------------------------------------------
(* pushback_event *)

(* Where pushback_event returns to. *)
Caller(t) == IF loader = t THEN "bundle" ELSE "idle"

(* Nothing is recorded with TOOL_BININT; otherwise `prepared' is read. *)
Pushback(t) ==
    /\ At(t, "push")
    /\ IF mode = "binint"
       THEN ev' = [ev EXCEPT ![t] = None] /\ Goto(t, Caller(t))
       ELSE /\ Goto(t, IF prepared THEN "reserve" ELSE "spawn")
            /\ UNCHANGED ev
    /\ UNCHANGED <<state, queue, started, fat, left, loader, writer, database, dtor, crashed, history>>

(* db_writer_thread = new std::thread(prepare_events) *)
Spawn(t, w) ==
    /\ At(t, "spawn")
    /\ wpc[w] = "unborn"
    /\ wpc' = [wpc EXCEPT ![w] = "start"]
    /\ db_writer_thread' = w
    /\ Goto(t, "mark")
    /\ UNCHANGED <<mode, library_loaded, curr_event, event_db, prepared, handled, queue, started,
                   ev, fat, left, loader, wev, stmts, database, dtor, crashed, history>>

(* Slip: prepared is not set. *)
MarkNot(t) ==
    /\ At(t, "mark")
    /\ Goto(t, "reserve")
    /\ UNCHANGED <<state, queue, started, ev, fat, left, loader, writer, database, dtor, crashed, history>>

(* prepared = true *)
Mark(t) ==
    /\ At(t, "mark")
    /\ prepared' = TRUE
    /\ Goto(t, "reserve")
    /\ UNCHANGED <<mode, library_loaded, curr_event, event_db, db_writer_thread, handled, queue,
                   started, ev, fat, left, loader, writer, database, dtor, crashed, history>>

(* push(event): its ticket ... *)
Reserve(t) ==
    /\ At(t, "reserve")
    /\ Queue!Reserve(t, ev[t])
    /\ ev' = [ev EXCEPT ![t] = None]
    /\ Goto(t, "store")
    /\ UNCHANGED <<state, started, fat, left, loader, writer, database, dtor, crashed, history>>

(* ... and its slot, for which it spins. *)
Store(t) ==
    /\ At(t, "store")
    /\ Queue!Store(t)
    /\ Goto(t, "notify")
    /\ UNCHANGED <<state, started, ev, fat, left, loader, writer, database, dtor, crashed, history>>

(* notify_all() wakes the writers that wait.  It is not made under mx: one *)
(* that has decided to wait and does not wait yet misses it.               *)
WakeAll ==
    /\ wpc' = [w \in Writers |-> IF wpc[w] = "waiting" THEN "outer" ELSE wpc[w]]
    /\ missed' = {w \in missed : wpc[w] # "waiting"}
                 \cup {w \in Writers : wpc[w] = "enter" \/ (wpc[w] = "loaded" /\ library_loaded)}

(* Slip: nobody is notified. *)
NotifyNot(t) ==
    /\ At(t, "notify")
    /\ Goto(t, Caller(t))
    /\ UNCHANGED <<state, queue, started, ev, fat, left, loader, writer, database, dtor,
                   crashed, history>>

Notify(t) ==
    /\ At(t, "notify")
    /\ WakeAll
    /\ Goto(t, Caller(t))
    /\ UNCHANGED <<state, queue, started, ev, fat, left, loader, wev, stmts, database, dtor,
                   crashed, calls, before, dropped, draining>>

-----------------------------------------------------------------------------
(* prepare_events, the writer *)

WGoto(w, l) == wpc' = [wpc EXCEPT ![w] = l]

(* sqlite3_prepare_v2 of the six statements.  A null connection is refused *)
(* and leaves them NULL; a closed one has been freed: anything may happen. *)
Prepare(w) ==
    /\ wpc[w] = "start"
    /\ IF event_db = "closed" THEN crashed' \in BOOLEAN ELSE UNCHANGED crashed
    /\ stmts' = IF event_db = "open" THEN stmts \cup {w} ELSE stmts
    /\ WGoto(w, "begin")
    /\ UNCHANGED <<state, queue, thread, wev, database, dtor, history>>

(* Slip: no transaction. *)
BeginNot(w) ==
    /\ wpc[w] = "begin"
    /\ WGoto(w, "outer")
    /\ UNCHANGED <<state, queue, thread, wev, stmts, database, dtor, crashed, history>>

(* BEGIN TRANSACTION; inside another writer's transaction it fails, which  *)
(* is ignored.                                                             *)
Begin(w) ==
    /\ wpc[w] = "begin"
    /\ txn' = (txn \/ event_db = "open")
    /\ WGoto(w, "outer")
    /\ UNCHANGED <<state, queue, thread, wev, stmts, tables, disk, files, dtor, crashed, history>>

(* while(get_library_loaded()) *)
Outer(w) ==
    /\ wpc[w] = "outer"
    /\ WGoto(w, IF library_loaded THEN "inner" ELSE "end")
    /\ UNCHANGED <<state, queue, thread, wev, stmts, database, dtor, crashed, history>>

(* Slip: the inner loop too ends with the program. *)
InnerLoaded(w) ==
    /\ wpc[w] = "inner"
    /\ WGoto(w, IF was_empty \/ ~library_loaded THEN "check" ELSE "pop")
    /\ UNCHANGED <<state, queue, thread, wev, stmts, database, dtor, crashed, history>>

(* while(!was_empty()) *)
Inner(w) ==
    /\ wpc[w] = "inner"
    /\ WGoto(w, IF was_empty THEN "check" ELSE "pop")
    /\ UNCHANGED <<state, queue, thread, wev, stmts, database, dtor, crashed, history>>

(* try_pop(event) draws a ticket ... *)
PopClaim(w) ==
    /\ wpc[w] = "pop"
    /\ head > tail
    /\ Queue!Claim(w)
    /\ WGoto(w, "take")
    /\ UNCHANGED <<state, thread, wev, stmts, database, dtor, crashed, history>>

(* ... and waits for its slot, ...  *)
PopTake(w) ==
    /\ wpc[w] = "take"
    /\ Queue!Take(w)
    /\ wev' = [wev EXCEPT ![w] = slot[Queue!SlotOf(want[w])].item]
    /\ WGoto(w, "insert")
    /\ UNCHANGED <<state, thread, stmts, database, dtor, crashed, history>>

(* ... or returns false, which is ignored: the local event is uninitialized. *)
(* Taken for an event of a kind its variant does not hold, std::get throws.  *)
PopNothing(w) ==
    /\ wpc[w] = "pop"
    /\ was_empty
    /\ \E g \in Garbage : wev' = [wev EXCEPT ![w] = g]
    /\ crashed' \in BOOLEAN
    /\ WGoto(w, "insert")
    /\ UNCHANGED <<state, queue, thread, stmts, database, dtor, history>>

(* A statement of w is executed: inside a transaction or committed at once. *)
Execute(w, rows) ==
    /\ tables' = rows
    /\ disk' = IF txn THEN disk ELSE rows

Usable(w) == event_db = "open" /\ w \in stmts
(* Events(Id INTEGER PRIMARY KEY) *)
FreshKey(e) == \A r \in tables.events : r.id # e.id

Finish(w) == WGoto(w, "inner") /\ wev' = [wev EXCEPT ![w] = None]

(* insert_event *)
InsertEvent(w) ==
    LET e == wev[w] IN
    /\ wpc[w] = "insert"
    /\ e.kind # "code"
    /\ IF Usable(w) /\ FreshKey(e)
       THEN /\ Execute(w, [tables EXCEPT !.events = @ \cup {e}])
            /\ UNCHANGED dropped
       ELSE dropped' = dropped \cup {e} /\ UNCHANGED <<tables, disk>>
    /\ IF e.kind = "plain"
       THEN Finish(w)
       ELSE WGoto(w, IF e.kind = "copy" THEN "file" ELSE "detail") /\ UNCHANGED wev
    /\ UNCHANGED <<state, queue, thread, stmts, txn, files, dtor, crashed, calls, before, missed, draining>>

(* insert_memcpy of a copy from the host: its data goes to a file first.   *)
WriteHostData(w) ==
    /\ wpc[w] = "file"
    /\ Write(wev[w])
    /\ WGoto(w, "detail")
    /\ UNCHANGED <<state, queue, thread, wev, stmts, txn, tables, disk, dtor, crashed, history>>

(* insert_malloc, insert_memcpy, insert_free, insert_launch *)
InsertDetail(w) ==
    LET e == wev[w] IN
    /\ wpc[w] = "detail"
    /\ IF Usable(w) /\ \A r \in tables.details : r.id # e.id
       THEN Execute(w, [tables EXCEPT !.details = @ \cup {e}])
       ELSE UNCHANGED <<tables, disk>>
    /\ Finish(w)
    /\ UNCHANGED <<state, queue, thread, stmts, txn, files, dtor, crashed, history>>

(* insert_code: its file is written (without ./code it cannot be opened,   *)
(* which is left out); without a statement SQLITE_CHECK asserts, which     *)
(* brings the process down.                                                *)
InsertCode(w) ==
    LET e == wev[w] IN
    /\ wpc[w] = "insert"
    /\ e.kind = "code"
    /\ Write(e)
    /\ IF Usable(w)
       THEN /\ Execute(w, [tables EXCEPT !.codes = @ \cup {e}])
            /\ UNCHANGED <<crashed, dropped>>
       ELSE /\ crashed' = TRUE
            /\ dropped' = dropped \cup {e}
            /\ UNCHANGED <<tables, disk>>
    /\ Finish(w)
    /\ UNCHANGED <<state, queue, thread, stmts, txn, dtor, calls, before, missed, draining>>

(* Slip: the queue is not looked at again. *)
CheckNot(w) ==
    /\ wpc[w] = "check"
    /\ WGoto(w, "loaded")
    /\ UNCHANGED <<state, queue, thread, wev, stmts, database, dtor, crashed, history>>

(* if (was_empty() ... *)
CheckEmpty(w) ==
    /\ wpc[w] = "check"
    /\ WGoto(w, IF was_empty THEN "loaded" ELSE "outer")
    /\ UNCHANGED <<state, queue, thread, wev, stmts, database, dtor, crashed, history>>

(* ... && get_library_loaded()) *)
CheckLoaded(w) ==
    /\ wpc[w] = "loaded"
    /\ WGoto(w, IF library_loaded THEN "enter" ELSE "outer")
    /\ missed' = IF library_loaded THEN missed ELSE missed \ {w}
    /\ UNCHANGED <<state, queue, thread, wev, stmts, database, dtor, crashed, calls, before, dropped, draining>>

(* wait_for_events(): lock mx and wait, with no condition to wait for. *)
Enter(w) ==
    /\ wpc[w] = "enter"
    /\ WGoto(w, "waiting")
    /\ UNCHANGED <<state, queue, thread, wev, stmts, database, dtor, crashed, history>>

(* A condition variable may wake by itself. *)
SpuriousWake(w) ==
    /\ wpc[w] = "waiting"
    /\ WGoto(w, "outer")
    /\ missed' = missed \ {w}
    /\ UNCHANGED <<state, queue, thread, wev, stmts, database, dtor, crashed, calls, before, dropped, draining>>

(* END TRANSACTION, and all statements but codeStmt are finalized. *)
End(w) ==
    /\ wpc[w] = "end"
    /\ txn' = FALSE
    /\ disk' = IF event_db = "open" THEN tables ELSE disk
    /\ WGoto(w, "done")
    /\ UNCHANGED <<state, queue, thread, wev, stmts, tables, files, dtor, crashed, history>>

-----------------------------------------------------------------------------
(* ~hiptracer_state *)

(* The program has joined its threads and exits: library_loaded = false.   *)
Exit ==
    /\ started # "no" /\ dtor = "run"
    /\ \A t \in Threads : At(t, "idle")
    /\ IF mode = "binint"
       THEN dtor' = "destroyed" /\ UNCHANGED library_loaded
       ELSE dtor' = "notify" /\ library_loaded' = FALSE
    /\ draining' = (was_empty \/ \E w \in Writers : wpc[w] \in DrainPcs)
    /\ UNCHANGED <<mode, curr_event, event_db, db_writer_thread, prepared, handled, queue, thread,
                   writer, database, crashed, calls, before, dropped, missed>>

(* Slip: the writer is not notified. *)
ExitNotifyNot ==
    /\ dtor = "notify"
    /\ dtor' = "close"
    /\ UNCHANGED <<state, queue, thread, writer, database, crashed, history>>

ExitNotify ==
    /\ dtor = "notify"
    /\ WakeAll
    /\ dtor' = "close"
    /\ UNCHANGED <<state, queue, thread, wev, stmts, database, crashed, calls, before, dropped, draining>>

(* sqlite3_close refuses while there are statements, and nobody looks. *)
ExitClose ==
    /\ dtor = "close"
    /\ event_db' = IF event_db = "open" /\ stmts = {} THEN "closed" ELSE event_db
    /\ dtor' = "join"
    /\ UNCHANGED <<mode, library_loaded, curr_event, db_writer_thread, prepared, handled, queue,
                   thread, writer, database, crashed, history>>

ExitJoin ==
    /\ dtor = "join"
    /\ db_writer_thread # None => wpc[db_writer_thread] = "done"
    /\ dtor' = "destroyed"
    /\ UNCHANGED <<state, queue, thread, writer, database, crashed, history>>

-----------------------------------------------------------------------------
PushStep(t) ==
    \/ AssignId(t) \/ Bundle(t) \/ Registered(t)
    \/ Pushback(t) \/ (\E w \in Writers : Spawn(t, w)) \/ Mark(t)
    \/ Reserve(t) \/ Store(t) \/ Notify(t)

WriterStep(w) ==
    \/ Prepare(w) \/ Begin(w) \/ Outer(w) \/ Inner(w)
    \/ PopClaim(w) \/ PopTake(w) \/ PopNothing(w)
    \/ InsertEvent(w) \/ WriteHostData(w) \/ InsertDetail(w) \/ InsertCode(w)
    \/ CheckEmpty(w) \/ CheckLoaded(w) \/ Enter(w) \/ End(w)

ExitStep == ExitNotify \/ ExitClose \/ ExitJoin

Program ==
    \/ Start \/ Exit \/ ExitStep
    \/ \E t \in Threads :
        \/ \E k \in CallKinds : Call(t, k)
        \/ \E f \in FatBins : Register(t, f)
        \/ PushStep(t)

(* The process lives. *)
Alive == ~crashed /\ dtor # "destroyed"

Next ==
    /\ Alive
    /\ Program \/ \E w \in Writers : WriterStep(w) \/ SpuriousWake(w)

Spec == Init /\ [][Next]_vars

(* Every thread inside the library is scheduled.  Nobody must call, the    *)
(* program need not exit, and a wait need not end by itself.               *)
Fairness ==
    /\ \A t \in Threads : WF_vars(Alive /\ PushStep(t))
    /\ \A w \in Writers : WF_vars(Alive /\ WriterStep(w))
    /\ WF_vars(Alive /\ ExitStep)

FairSpec == Spec /\ Fairness

-----------------------------------------------------------------------------
(* Where event n is. *)
Building(n) == {t \in Threads : ev[t] # None /\ ev[t].fx = n}
Pushing(n) == {t \in Threads : hand[t] # None /\ hand[t].item.fx = n}
Queued(n) == {k \in 0 .. Size - 1 : slot[k] # None /\ slot[k].item.fx = n}
Inserting(n) == {w \in Writers : wev[w] # None /\ wev[w].fx = n}
Written(n) == {r \in tables.events \cup tables.codes : r.fx = n}
Dropped(n) == {r \in dropped : r.fx = n}

(* From the call to its row every event is in one place: being built by    *)
(* one thread, being pushed, in one slot, in the hands of one writer, or   *)
(* done with, as one row or one failed insertion.  This holds even when    *)
(* two writers have been started.                                          *)
OncePerEvent ==
    mode # "binint" =>
    \A n \in 0 .. calls - 1 :
        LET done == Cardinality(Written(n)) + Cardinality(Dropped(n)) IN
        /\ Cardinality(Building(n)) + Cardinality(Pushing(n)) + Cardinality(Queued(n))
             + (IF Inserting(n) = {} THEN done ELSE Cardinality(Inserting(n))) = 1
        /\ done <= 1

(* Every event the writer takes from the queue gets its row, and only      *)
(* events do: the key of an event is never taken, the writer's statements  *)
(* are usable whenever it inserts, and it never inserts an uninitialized   *)
(* event because try_pop cannot fail after was_empty() was false.          *)
NothingDropped == dropped = {}
AllTakenAreRecorded ==
    (mode = "capture" /\ started # "bare") =>
        /\ NothingDropped
        /\ \A r \in tables.events \cup tables.codes : r.fx >= 0

(* What is on disk is consistent at every moment the process may be        *)
(* killed: a malloc, memcpy, free or launch is in Events exactly when its  *)
(* own row is there too.  The writer's one transaction gives this.         *)
DiskConsistent ==
    started # "bare" => disk.details = {r \in disk.events : r.kind # "plain"}

(* The file a row leads to holds the data of that row's event, whoever     *)
(* moved curr_event, from which the names are made, in the meantime; so    *)
(* copies and bundles are complete on disk whenever their rows are.        *)
FilesHoldTheirRows ==
    \A r \in {d \in tables.details : d.kind = "copy"} \cup tables.codes :
        FileOf(r) \in DOMAIN files /\ files[FileOf(r)] = r.fx

(* One writer, so one transaction and the order of the queue: who records  *)
(* code in a static constructor sets `prepared' before there is a race.    *)
OneWriter == Cardinality({w \in Writers : wpc[w] # "unborn"}) <= 1
SingleWriter == started # "bare" => OneWriter

Recorded(n) == \E r \in disk.events \cup disk.codes : r.fx = n

(* A capture may end early, but not with a gap: with a call it has every   *)
(* call whose event was queued before that one began, also when the ring   *)
(* was lapped and a push overtook another, and their ids are in that       *)
(* order.  (The ids of calls made at the same time may be in the opposite  *)
(* order of the calls' effects.)                                           *)
CausallyClosed ==
    (mode = "capture" /\ started # "bare") =>
        \A p \in before : Recorded(p[2]) =>
            /\ Recorded(p[1])
            /\ \A a, b \in disk.events : <<a.fx, b.fx>> = p => a.id < b.id

(* If the program exits while the writer is inside its inner loop, or with *)
(* nothing left in the queue, the capture is complete: everything is       *)
(* drained, committed, and the writer joined before the state goes away.   *)
CompleteWhenDraining ==
    (dtor = "destroyed" /\ draining /\ mode = "capture" /\ started # "bare") =>
        /\ \A n \in 0 .. calls - 1 : Recorded(n)
        /\ \A w \in Writers : wpc[w] \in {"unborn", "done"}
        /\ disk = tables

(* A writer sleeps on a queue with something in it only if it missed the   *)
(* notify: it had found the queue empty and did not wait yet.              *)
AsleepOnlyIfMissed ==
    \A w \in Writers :
        (wpc[w] = "waiting" /\ ~was_empty /\ \A t \in Threads : pc[t] \notin {"store", "notify"})
            => w \in missed

(* A push into a full ring spins until the writer makes room: the recorded *)
(* program goes on, unless a writer missed a notify.                       *)
PushReturns ==
    \A t \in Threads : At(t, "store") ~> (~At(t, "store") \/ missed # {} \/ crashed)

(* The program that exits ends: the destructor joins the writer, unless a  *)
(* writer missed its notify.                                               *)
ExitEnds == (dtor = "notify") ~> (dtor = "destroyed" \/ missed # {} \/ crashed)

-----------------------------------------------------------------------------
(* Recording implements Recorder: a program that is killed leaves nothing, *)
(* one that exits at most one commit, which is closed under what its calls *)
(* can depend on.  A record counts when all that belongs to it can be      *)
(* read.  Nothing is promised to a program whose threads raced for the     *)
(* first event.                                                            *)
Sole == mode = "capture" /\ started # "bare"
Readable(r) ==
    /\ r.kind \in {"detail", "copy"} => r \in disk.details
    /\ r.kind \in {"copy", "code"} => FileOf(r) \in DOMAIN files /\ files[FileOf(r)] = r.fx
Record(r) == [call |-> r.fx, id |-> IF r.kind = "code" THEN -1 ELSE r.id]
KeptView ==
    IF Sole THEN {Record(r) : r \in {e \in disk.events \cup disk.codes : Readable(e)}} ELSE {}
StageView ==
    IF dtor = "run" THEN "recording" ELSE IF dtor = "destroyed" THEN "ended" ELSE "ending"
Promise == INSTANCE Recorder WITH
    kept <- KeptView, stage <- StageView, sure <- draining /\ Sole
ImplementsRecorder == Promise!Spec

-----------------------------------------------------------------------------
(* What the documentation says and the code does not do.                   *)

(* The program that exits ends.                                            *)
ExitAlwaysEnds == (dtor = "notify") ~> (dtor = "destroyed" \/ crashed)
=============================================================================
