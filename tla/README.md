# Verification of hiptracer

TLA+ models, TLC runs and TLAPS proofs of `libhipcapture.so` (`hip/`, `include/trace.h`,
`include/atomic_queue/`) and of the replay tool (`replay/`). Paths are relative to `src/`.

## 1. The system

A program runs with `libhipcapture.so` preloaded. The library interposes HIP calls; each makes the
real call, draws an id from `curr_event`, builds a `gputrace_event` and hands it to `pushback_event`,
which puts it into a lock-free ring, `events_queue`. The first event starts a writer thread,
`prepare_events`, which takes events from the ring and inserts rows into a SQLite database, all in one
transaction. When the program exits, the destructor of `hiptracer_state` clears `library_loaded`,
wakes the writer, closes the database and joins the writer. `replay` reads the tables back.
With `HIPTRACER_MODE=binint` nothing is recorded; instead every code object is rewritten when it is
registered, and launches use the rewritten kernels.

| Component | State | Operations | Talks to |
|---|---|---|---|
| event queue, `atomic_queue.h` | `head_`, `tail_`, `states_`, `elements_` | `push`, `try_pop`, `was_empty`, `was_full`, `was_size` (and `pop`, `try_push`) | the pushing threads and the writer, by shared memory |
| interposed calls, `hip/hip.cpp:364-665` | none of their own; `curr_event` | one function per HIP call | the HIP runtime; `pushback_event` |
| `pushback_event`, `hip.cpp:86` | static `prepared`, `notified` | start the writer, push, notify | queue, writer |
| writer, `prepare_events`, `hip.cpp:250` | its statements, its local event | pop, insert, wait | queue, database, `library_loaded`, condition variable |
| `hiptracer_state`, `trace.h:152` | mode, database handles, `library_loaded`, `db_writer_thread` | constructor, `init_capture`, `wait_for_events`, destructor | all of the above |
| fat binaries, `hip-fatbin.cpp:527` | `handled_fatbins`, `kernel_arg_sizes`, `filenames` | `__hipRegisterFatBinary`, `captureFatBin`, `binintSetupForFatBin` | `curr_event`, `pushback_event`, `./code` |
| kernel launches, `hip-fatbin.cpp:607`, `elf.h` | the argument table | pack the arguments | `pushback_event` |
| instrumentation, `hip-fatbin.cpp:65-508`, `InsnFactory.h` | the rewritten code object | trampolines, branch offsets, kernel descriptor | `filenames`, launches |
| replay, `replay/replay.cpp` | `allocations`, `host_buffers`, `stream_mappings`, `timers`, `events` | commands r, n, s, l; `step_event` | the recorded tables, the HIP runtime |
| command line, `cli.cpp` | none | sets the environment, starts the program | `hiptracer_state` through the environment |

Not the program's own: SQLite, ELFIO, msgpuck, xxhash, flat_hash_map, subprocess, cmdline, and the
queues and locks of atomic_queue the program does not instantiate.

### What is hard

* Threads of the program push while the writer pops: a slot of the ring is a plain object, guarded only
  by a state byte; the counters wrap; `try_pop` tests one counter and moves the other.
* `push` does not ask whether the ring is full, so tickets lap and threads wait for slots.
* The writer waits on a condition variable without a condition, and is notified without the mutex.
* The program exits at any moment of the writer: before it has begun, inside its inner loop, before its wait.
* `prepared`, `library_loaded` and `event_db` are plain variables shared by threads.
* A call takes effect in the HIP runtime before its id is drawn.
* A process may be killed with a transaction open; host data and code go to files outside it.
* The table of kernel arguments is keyed by the hash of a name with a number behind it, overwritten by every
  code object that has a kernel of that name, and read by launches while it is written.
* New code entered in the middle of a kernel must not be seen by it: registers in flight, registers it was
  not granted, flags, the distance a branch reaches.
* Replay knows memory only by the addresses the recorded program had, which are handed out again; a step
  that fails, a second run command or a step command must not confuse events, blocks and times.

What makes each component correct: the queue delivers every element exactly once, whole, from the slot
of its ticket, and in order while it is not over-full; every event that is taken has its row and
no other row exists; what is on disk is consistent at any moment; the program is not held up for
ever, neither in a push nor in its exit; there is one writer; and after every replayed event memory holds what
it held after the recorded call; a replayed kernel is given the arguments the program passed; and a
rewritten kernel does what it did and counts right. The complete list, by source line, is
`hazards` in `PROJECT.json`.

## 2. Modules

| Module | Models | Composes |
|---|---|---|
| `RingQueue` | what AtomicQueue2 promises: tickets and slots, two steps per call | |
| `RingQueueOrder` | when that is first in, first out (history variable `lapped`) | extends `RingQueue` |
| `AtomicQueue` | AtomicQueue2, one action per atomic access, wrapping counters, shuffled slots | refines `RingQueue` (`Ring`) |
| `IndexRemap` | the ring's size and `remap_index` on machine integers | |
| `Recorder` | what recording promises: nothing before the exit, then one commit, closed under what a call depends on | |
| `Capture` | program threads, fat binary registration, writer, database, constructor and destructor | instantiates `RingQueue` as `Queue`; refines `Recorder` (`Promise`) |
| `Replay` | the recorded program's memory, what a capture may have of it, the replay tool's commands and `step_event` | starts from what `Capture` guarantees (`CausallyClosed`) |
| `KernelArgs` | the table of kernel arguments, `hipLaunchKernel`'s packing, what `step_event` makes of the buffer | |
| `Wave` | a wavefront of the GPU: external to the repository | |
| `Instrument` | rewriting a code object, and a wavefront on the result | extends `Wave`; refines `Wave` on the old text (`Orig`) |
| `RingQueueProofs`, `AtomicQueueProofs`, `IndexRemapProofs`, `CaptureProofs`, `ReplayProofs`, `KernelArgsProofs`, `InstrumentProofs` | theorems about the module of that name (`RingQueueProofs` also about `RingQueueOrder`) | extend it |
| `ModArithmetic` | induction over numbers, lemmas about `%`, the exchange of two digits | `IndexRemap` and the proofs extend it |
| `MC*` | instances for TLC | |

**RingQueue.** `Reserve` is `head_.fetch_add(1)` (or a won compare-exchange), `Store` the moment the
element is in its slot, `Claim` and `Take` the same for popping. The element carries the ticket of its
push, and `out` records every delivery, so that properties can speak of which push a pop was served by.

**AtomicQueue.** `pc`, `loc`, `arg` are a thread's place in its call and its locals. Each of `push`,
`try_push`, `pop`, `try_pop` is a chain of actions, one per access to `head_`, `tail_`, a state byte
or an element. `head` and `tail` count without bound; the code only ever sees `U(head)`, `U(tail)`, modulo
`Wrap`, and every comparison is made on these. `ticket` and `out` are history. A spinning
compare-exchange is an action that is enabled when it would succeed: its failures change nothing. The
interleaving is sequentially consistent. `compare_exchange_strong` takes a slot with acquire order and
`store` gives it back with release order, and these are the only accesses to `elements_`; the counters
are read relaxed, which the model does not weaken.

**IndexRemap** walks over the tickets of rings of several sizes and checks that the bit operations
permute the slots, which `AtomicQueue` assumes of `Remap`. An unsigned is a number below `PowerOf2[Width]`; `Bit` is one of its
places and C's operations are defined place by place (`Word` puts the places together), without recursive operators, so that they can be
proved about. `Exchanged` (in `ModArithmetic`) says in arithmetic what the
comment above `remap_index` says of them, and `SwapsDigits` that they are the same.

**Capture.** An event is `[fx, kind, id, part]`: `fx` is its place in the order in which calls took effect
(history), `id` what it drew from `curr_event`, `part` tells the bundles of a fat binary apart, and `kind`
where its rows and files go. For a bundle `id` is the number in the name of its file (`hip-fatbin.cpp:588`); `captureFatBin` reads
`curr_event` once more (`:377`) for the event's own id, which nothing reads, as code has no row in `Events`. Thread
actions follow `pushback_event` statement by statement: `Call`, `AssignId`, `Pushback` (reads `prepared`),
`Spawn`, `Mark`, `Reserve`, `Store`, `Notify`. The writer's follow `prepare_events`: `Prepare`, `Begin`,
`Outer`, `Inner`, `PopClaim`/`PopTake`/`PopNothing`, `InsertEvent`, `WriteHostData`, `InsertDetail`, `InsertCode`,
`CheckEmpty`, `CheckLoaded`, `Enter`, `SpuriousWake`, `End`. The destructor's: `Exit`, `ExitNotify`,
`ExitClose`, `ExitJoin`. The database is `tables` (what a query would see), `disk` (what a killed
process leaves) and `txn`; a statement outside a transaction commits at once. `files` has the event each file under
`./code` and `./hostdata` was written for: files are not part of the transaction. Choices that stand for
something the source leaves open: an uninitialized event is any plain or detail event and may make
`std::get` throw; using a closed connection may or may not crash; `draining` remembers where the writer was when
the program exited. With `TOOL_BININT` some functions return without drawing an id: a stutter. `before` is history:
the pairs of calls of which one began when the event of the other was in the queue.

**Recorder** is `Capture` without threads, queue and database: `calls`, `before`, the records `kept`, and the program's `stage`. `Commit`
happens once, while the program ends, and is `Faithful`: one record of a call, none without those that came before it, ids in that order;
if the program ended while the queue was being drained (`sure`), `End` finds all calls kept. In the mapping a record is a row on disk whose
details and file can be read (`Readable`); a capture of a program whose threads raced for the first event counts as none. `Commit` only
at the end says two things of the code: a program that is killed leaves no half of a capture, and no capture at all. The row of a code object has no id
of its own (`NoId`), as it draws none. `Replay` starts from captures with this property.

**Replay.** First a correct program runs (`Malloc`, `Free`, `MemcpyIn`, ...) and each call is appended to
`recorded`; `truth` is history, its memory after every call. Then `Open` chooses what the capture has of it:
any arrangement of some of these calls in which none is missing that a later one depends on, and none comes before
it. This is what `CausallyClosed` says of `Capture`, provided the program makes a call that depends on another only
when that has returned, which a correct one does (`Conflict`): a capture may end early, and calls of several
threads may have changed places. Then the tool: `Run` (command `r`) loads the rows behind
`events`, the `Step` actions are the branches of `step_event` applied to `events[curr_event]`, `Report` makes
the results, `StepCommand` is `n`. `s` and `l` only print. `memory` is what the replaying process's blocks
(named by the event that allocated them) and `host_buffers` hold. A pointer that misses the table, or
hits an entry for a freed block, leads to nothing, to any other live block, or brings the process down, as the source's
branch allows. Sizes are bound as `Bound` says, 32 bits with a sign, in a word of `Word` values. A copy is of
the whole block, a kernel works on one block.

**KernelArgs.** A code object is a sequence of kernels, each a name and the kinds of its arguments; names are
sequences, so that `Key` can be the concatenation the code makes, of a name and the decimal digits of a number (`to_string`), and two kernels can
collide, also by numbers of several digits that run together (`k` and 10, `k1` and 0). A kernel may have any number of arguments, those of the runtime among
them. `Register` starts a code
object, `Insert` is one assignment to `kernel_arg_sizes`, in `getArgInfo`'s order, and launches may come between them.
`Launch` packs: `total_size` as the loop leaves it, then each `memcpy` as a function from offsets to bytes
(`Copied`), those that land behind the buffer kept in `beyond`. `LaunchFails` and `LaunchRaces` are the ways out by an
exception or by a table that is being moved. `ReplayLaunch` finds pointers by the metadata of the last code object
(`DescribedBy`) and launches the kernel of the first (`Function`). `sizeof` and `Offset` are the compiler's layout, with sizes of four and eight bytes.
`hipLaunchKernel` also takes the hidden case for an element of the program's array that is null (`hip-fatbin.cpp:656`); a program that launches the kernel at all
passes none, and the model's does not.

**Wave** and **Instrument.** `Wave` is what the rewriting relies on and the repository does not contain: registers, instructions of
four or eight bytes, relative branches, memory operations that write their registers later. `Instrument` starts with a
kernel at the beginning of `.text` and `Gap` bytes of other code behind it. `EditDescriptors` is the loop over the `.kd`
symbols, `PatchText` the loop over `.text`: the branch into the place of the instruction, the new code behind
`.text`, the instruction, the branch back. The new code is given instruction by instruction, each by its size and the registers
it reads and writes. Then the wavefront is launched and `Run` is any of its steps. `Orig` is the
refinement mapping: the wavefront it would have been, in which the whole detour is one place of the
old text, and a register that has been saved is read from where it was saved to.

Definitions commented `Slip` are plausible mistakes in the definition that follows them; no
specification uses them, and substituting one must make a property fail (`mutants` in `PROJECT.json`).

Assumed of the program: it joins its threads before it exits; objects are loaded one at a time (the
loader's lock); a plain `bool` read or written by two threads is read old or new.

## 3. Runs

| Run | Instance | Shows |
|---|---|---|
| `ring` | 3 producers, 1 consumer, 3 slots, 6 tickets | `ExactlyOnce`, `NoInvention`, `SizeCounts`; `Fifo`, and that lapping needs a nearly full ring |
| `remap` | 15 sizes, 5 line sizes, 8-bit unsigned, 2 laps | ring size, permutation, neighbours apart |
| `queue` | 2 + 2 threads, 2 slots, 5 tickets, all calls | `SlotOwned`, `WholeElements`, `TryRespectsBounds`, refinement of `RingQueue` |
| `queue_wrap` | 2 + 1 threads, 4 shuffled slots, 4-bit counters, 18 tickets, the program's calls (`push`, `try_pop`) | `SizeReadRight` and `BalancedFinish` across the wrap |
| `capture` | 2 threads, 2 fat binaries, 4 events, 2 slots, 2 writers, every mode; also threads whose first calls race (`Bare = TRUE`, then 2 calls) | the safety properties of recording, refinement of `Recorder`; `OncePerEvent`, `FilesHoldTheirRows`, `AsleepOnlyIfMissed` also with two writers |
| `capture_live` | 2 threads, ring of one slot | `PushReturns`, `ExitEnds` |
| `replay` | all programs of up to 4 calls (at most one not simple), 2 addresses, every capture of them, 6 events loaded, 2 runs, 1 step command | `SimpleReplays`, `PromptAtEnd`, `ResultsPaired` |
| `kernel_args` | 4 code objects that share names, 2 launches, 2 pointers of which replay knows one | `ArgumentsArrive`, `WithinBuffer`, `LaunchGoesOn` |
| `instrument` | 161 kernels, both tools, 5 allotments, 2 gaps | `Transparent` (refinement of `Wave`), `CountExact` |

Bounds and why they are enough. Two slots and five tickets make a slot be used for a third time (three slots and six
tickets every slot a second time, with all three producers at once on the lap); two producers contend for a
counter, a slot and a compare-exchange; a ring of
four and counters of four bits wrap after 16 tickets of 18. In `Capture` four events, copies or code, over-fill two slots with the writer holding one; two writers are all two racing threads can
start (`FewWhenBare` bounds that case to two calls). Four recorded calls allocate, fill, compute on and read back one block, or confuse two; six loaded events
are a capture of three run twice; 1 is a size an `int` of `Word = 4` values holds and 3 one it does not. The code objects of `MCKernelArgs` have padding before an argument and none,
hidden arguments and none, a kernel of thirteen arguments, so that their numbers have one digit and two, one name in two objects with equal and with different
arguments, a name that is the key of another, and a key that two kernels make of different numbers.
The kernels of `MCInstrument` have four or five instructions: what the second one is (a load, a store,
arithmetic of eight bytes, of scalar registers, a wait, the end, a branch) with loads in flight into registers that are saved, and
a loop that comes by twice; the allotments are one that fits 40, two that do not agree, one of the
largest that is granted enough and one that is not; with `SimmWrap = 256` the longer gap is out of a branch's reach. `MaxPush`, `MaxPop`,
`MaxCalls`, `MaxBundles`, `Laps`, `MaxEvents`, `MaxOdd`, `MaxRuns`, `MaxLoaded`, `MaxStrays`, `MaxLaunches`, `MaxCount`, `Values` are the bounds; at a bound a model stops,
and so does a program that has exited, hence `CHECK_DEADLOCK FALSE`: a thread that waits for ever
would be found by the liveness properties instead.

Fairness. A thread inside a call, the writer, and the destructor are each weakly fair: the operating
system schedules them, and no step of theirs can be disabled by another for ever except a wait for a
slot. Nobody is obliged to call, to exit, or to be woken spuriously. `Take` and `Store` need no strong
fairness for the properties stated, since tickets are finite in number.

### Disagreements with the documentation

Three runs state what `README.md` says and are expected to fail; `findings` quotes the lines.

| Run | What happens |
|---|---|
| `capture_hang` | a lost notify: the destructor joins a writer that waits for ever |
| `replay_reuse` | malloc, free, malloc, free at one address: the second block is never found, nor freed |
| `kernel_args_hidden` | a hidden argument at the end: eight bytes are copied behind the buffer |

More are modelled and not kept as runs. `Capture` has behaviours in which events queued between the
writer's last look and `library_loaded = false` have no row (`hip.cpp:284`), and in which a short program closes the
connection before its writer has prepared its statements and the writer uses it afterwards (`trace.h:302`); that
is why `CompleteWhenDraining` and `CausallyClosed` are stated and not that every call is recorded. Without `HIPTRACER_MODE` the
tool is `TOOL_CAPTURE` but the database is not opened (`trace.h:261`): everything is taken from the queue and nothing
recorded, so `AllTakenAreRecorded` and `CompleteWhenDraining` are stated for mode `capture`. Two threads may draw ids in the
opposite of the order their calls took effect in, since an id is drawn after the real call has returned; `Replay`
takes such captures into account. Two kernels whose names differ by a number at the end share
an entry of the table (`Orderly` excludes them), kernels that use more than 48 vector registers (granted 8, also when no instruction of
theirs is instrumented: `StillGranted`), branches, and code that is far from the end of `.text` are rewritten wrongly (`Sound` excludes them); the instances contain all of these, without the assumption
`ArgumentsArrive`, `LaunchGoesOn` and `Transparent` fail.

The positive counterparts hold: `SimpleReplays` (memory is right while no address is handed
out twice), `CompleteWhenDraining` (complete if the writer was in its inner loop, or the queue
empty, at exit), `AsleepOnlyIfMissed` and `ExitEnds` (only a missed notify makes the exit hang), `SingleWriter`.
The last, and what rests on there being one writer, is stated for programs that recorded something while they
had one thread; `started = "bare"` marks the others, whose racing first calls can start two writers
(`OneWriter` would fail there, though `OncePerEvent` does not: `prepared` is read and set without a lock, `hip.cpp:90-96`).

## 4. Proofs

All for every value of the constants that meets the named assumptions. In each module the theorems rest on
one inductive invariant, or on layers of which each uses the ones before it; what follows says which and why.

* `RingQueueProofs`: `TypeCorrect`; `DisciplineHolds` (tickets in flight were drawn and sit in their
  slot), from it `NoInventionHolds` and `SameSlotHolds`; `ExactlyOnceHolds` and `SizeCountsHolds`. The last two are
  counts. Their inductive forms are `NeverTwice` and `Somewhere` (a ticket is in one place at most, and in
  one at least), where a push needs that nothing carries a ticket that was not drawn, and `Counted`, the same balance of
  `head`, `tail`, hands, slots and deliveries written as sums of cardinalities.
  Of `RingQueueOrder`: `FifoHolds`, by `InOrder`: what is delivered has the ticket of its pop as long as nothing is
  `lapped`. A pop takes what is in its slot, so that must be of this lap (`PushLatest`, `PopLatest`), and no earlier
  lap's pop may be missing (`PopsCounted`). `LapsOnlyNearFullHolds` adds that the only popping thread waits for the last ticket drawn.
* `AtomicQueueProofs`: `InvHolds` is the inductive invariant `Inv`: types, `Tickets` (a thread with a
  ticket computes with its wrapped value), `Args` (a pushing thread keeps its item), `Ownership` (state byte
  and winner agree, and the winner is unique) and `Contents` (what a slot holds in each state).
  `SlotOwned` and `WholeElements` alone are not inductive: they say nothing of a thread about to
  acquire. `SlotOwnedHolds`, `WholeElementsHolds` follow. `Implements` maps each step to a step
  of `RingQueue` or a stutter: winning a counter is `Reserve`/`Claim`, publishing is `Store`, winning
  a stored slot is `Take`, the rest is invisible. `PromisesKept` carries the invariants of `RingQueue` over;
  `SizeReadRightHolds` needs `SizeCounts` among them, for how far apart the two counters can be.
  `TryRespectsBoundsHolds` needs `TriesFresh`: if the counter a thread is about to move has not moved since it was loaded,
  what the thread tested is still so.
* `IndexRemapProofs`: `SizeIsLeastPowerHolds`, `SwapsDigitsHolds`, `EachPlaceOnceHolds`, `NeighboursApartHolds`, and `PlacesPermute`: the
  places of a lap are what `AtomicQueue` assumes of `Remap`. An unsigned is told by its bits (`WordIs`, `UnsignedBits`, `SameBits`),
  whence what each operation of C does to them (`AndIs` to `ShiftLeftIs`). Rounding up: `Covers` says that a place is one if one of the `n` places from
  it upwards was, each `or_equal` doubles `n` (`Smear`), and after five the number is all ones below the highest one of what it was
  (`RoundedUp`). The shuffle: `RemapIs` compares `remap_index` with `Exchanged` bit by bit, in the lowest digit, the next, and above; the
  facts about `Exchanged` in `ModArithmetic` do the rest. The inductive invariant of the walk is `Walked`: `used` is the places of the lap so far.
* `CaptureProofs`: `TypeCorrect`, `UsesRing` (the queue moves only by steps of `RingQueue`, so the theorems about that hold of
  `events_queue`) and the eight invariants of recording, in layers: `Shape` (types, where a thread with an event is, numbers
  of calls not made yet are nowhere), `Alone` (one writer), `Awake` (whoever makes the queue longer has its notify
  before it), `Once` (an event in two places), `Filed` (file before row, and no two rows of one file), `Recording` (the
  sole writer inserts all it takes, in its transaction), `Emptied` (at exit), `Closed` (outside of the
  inner loop what has been taken is closed under "came before": `StoredFirst` says that what came before is in the queue by then or gone
  from it, and the loop is left only when the queue is empty; `InOrder` is about the ids). `RecordsAsPromised` is the refinement of `Recorder`: no step
  is seen but calls, `Exit`, the writer's `End`, which is `Commit`, and `ExitJoin`. That rows are on disk only when the writer is done
  (`DiskOnce`) and that it is not before the program exits (`Late`) make it one commit, `KeptFaithful` and `AllKept` what is in it.
* `ReplayProofs`: `TypeCorrect`, `PromptAtEndHolds`, `ResultsPairedHolds`, `SimpleReplaysHolds`. For the last, the program first:
  `Story` says what each recorded call did to its memory, `Quiet` that a block is the same at two times if no call between
  is about it. Then its capture, `RowsTrue`: rows are calls, and of two that conflict the earlier has the earlier row. `CaughtUp`
  follows: when a row's turn comes, the last replayed call about its block left the block as the row's call found it, although others
  may have changed places. `Follows` is what replay then keeps, row by row.
* `KernelArgsProofs`: `TypeCorrect`, `ArgumentsArriveHolds`, `WithinBufferHolds`, `LaunchGoesOnHolds`, from `IInv`. It
  has the origin of every entry of the table (`Entered`), and that the number of a kernel's arguments is found only where these
  are, at any point between two insertions. `Offset`, `Insertions` and `to_string` are recursive functions: `AfterIs`, `UptoIs`, `ToStringIs` show
  that they exist and what they return, by induction (`NatSet` in `ModArithmetic`: a set of numbers with 0 and every successor is `Nat`).
  `DigitsDiffer`: two numbers have different digits, so one name's keys differ however many arguments it has (`KeysDiffer`); the keys of two names
  may not, and there the proof rests on `KeysDistinct`.
* `InstrumentProofs`: `TypeCorrect`, by `Shape`, and `CountExactHolds`, by `Counted`. First where instructions begin (`StartNext`,
  `StartApart`), what a kernel's layout is (`KernelLaid`), the new code instruction by instruction (`InjectedIs`), and what is where in the
  rewritten .text (`PatchedIs`): old and new code do not meet and `s_nop` covers what an eight-byte instruction leaves. `BranchReaches` shows that a
  distance within reach survives being cut to `simm16`, in both directions. Then `Counted`: the wavefront is in the kernel, on the
  `s_nop`, in the new code or at the copy (`Place`), and from behind the atomic to the copy the count is one ahead (`Past`). `CountExact`
  says nothing of the places inside, so alone it is not inductive.
  `TransparentHolds` and `Implements` (if `Sound`, the rewritten kernel is a `Wave` on the old text) rest on `Kept`. `At(r, i)` says where
  register `r` of the program is before the i-th new instruction, itself or its home; `Carried` that this instruction leaves it there or
  moves it to `At(r, i + 1)`, or, in MEMTRACE, restores again what it had restored already (`Twice`). Memory operations need as much: a load in flight
  may write its register until the first wait, whence that wait comes before the saves; after it only the answer of the atomic is due,
  in registers that hold nothing of the program by then, and the work waits for it (`Answers`). `OwnStep`, `NewStep` and `OnlyMove` map the steps.
* `ModArithmetic`: `ModMod`, why a ring whose size divides the range of its counters is indexed
  consistently across their wrap; what a remainder says of a difference (`ModApart`, `NearDifference`). `ExchangePermutes`:
  `Exchanged` is a permutation of the slots (it undoes itself, `ExchangedTwice`, and leaves no block of `base * base`, `ExchangedWithin`), and
  `NeighboursPart`: it puts consecutive tickets into different lines, for every base and ring that has room for both digits.

The assumptions, each named in the module that declares the constant: `Size` divides half of `Wrap` (`size_` is a power of two
below 2^32, `SizeIsLeastPowerHolds`), `Remap` is a permutation (`PlacesPermute`), an unsigned has up to 32 bits, as the five shifts of
`round_up_to_power_of_2` suffice for (`RemapBounds`), and SIZE is at most its highest power of two, producers and consumers are distinct and
finitely many (`FiniteThreads`), `None` is not an element, an event, a thread or a pointer; numbers are no addresses (a
value that is one by chance would be replaced in replay), hidden arguments come last. A kernel is what a
compiler emits (`ProgramAssumption`: instructions with their operands, none but the registers its descriptor asks for, branches to instructions
of it, `s_endpgm` last), code is
aligned to four bytes, and registers come in fours. The threads of the program only push and the
writer only pops, so that producers are distinct from consumers costs nothing. Some theorems have a hypothesis of their own: `OnePopper` (one writer), `WrapRoom` (the
range of the counters has room for the ring and the threads), `NoWrap` (fewer tickets than a counter has values: `try_push` compares one counter with
what it was, and would not see it come by again after 2^32 calls).

Model-checked only: liveness (`BalancedFinish`, `PushReturns`, `ExitEnds`), which is out of the prover's reach as is ENABLED.

## 5. Not modelled, and the plan

Not modelled:

* the vendored libraries (SQLite, ELFIO, msgpuck, xxhash, flat_hash_map, subprocess, cmdline) beyond what their callers see: they are nine tenths
  and more of the lines under `src/`, and not this program's own; the queues and locks of atomic_queue it does not instantiate;
* output (`progressbar.h`, `printf`) and the command line beyond the mode it sets: no state that outlives a call;
* `hipModuleLaunchKernel`, which records nothing, and the HIP functions that are only passed on;
* the parsing of fat binaries, ELF notes and msgpack, and the decoding of instructions (Dyninst): pure, and what they return is what the
  models start from; a file that cannot be opened;
* several rewritten code objects, which share nothing but the address the destructor reads the count from (the last one's), and that read;
  lanes, EXEC, and what the trace buffer of MEMTRACE holds;
* streams in `Replay` (the tool reads them from no column and uses the default one) and event names, whose pointers dangle when
  `event_names` grows: what they are compared for changes no state the model has;
* weak memory order on the counters of the queue.

Every safety and action property of the runs that pass is a theorem. Left to be done: several rewritten code objects and the count that is read back
at exit, of which `Instrument` has one; event names and streams in `Replay`; and the counters of the queue under the memory model of C++ instead of a
sequentially consistent one.
