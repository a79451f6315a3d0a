------------------------------ MODULE Instrument ------------------------------
(***************************************************************************)
(* HIPTRACER_MODE=binint: a code object is rewritten before it is used, so *)
(* that one instruction of its .text counts how often it is executed, or   *)
(* records an address (binintSetupForFatBin in hip/hip-fatbin.cpp).  In    *)
(* the place of the instruction a branch is put to new code behind .text,  *)
(* which saves registers, does its work, restores the registers, executes  *)
(* the instruction and branches back.  All kernels are granted more        *)
(* registers, the ones the new code saves to.                              *)
(*                                                                         *)
(* A wavefront then runs the new text; Orig is the wavefront it would have *)
(* been.                                                                   *)
(***************************************************************************)
EXTENDS Wave, FiniteSets

CONSTANTS
    Programs,      \* kernels to consider: sequences of instructions
    Allotments,    \* the vector registers of the kernel the instruction is in,
                   \* and of the one whose descriptor comes last
    Gaps,          \* bytes of other kernels' code behind it in .text
    Apps,          \* HIPT_CURRENT_APP: "instrcount", "memtrace"
    Instrumented,  \* HIPT_INSTRUMENTED_INSTR: the number of the instruction, from 0
    AddressWrap,   \* values of an offset in a section (2^32)
    MaxCount       \* bound: how often the instruction is executed

ASSUME InstrumentAssumption ==
    /\ Instrumented \in Nat /\ MaxCount \in Nat
    /\ Apps \subseteq {"instrcount", "memtrace"}
    /\ \E m \in 1 .. AddressWrap : AddressWrap = m * (4 * SimmWrap)
    (* granulated by four *)
    /\ \A a \in Allotments : \A n \in {a.own, a.last} : n \in Nat \ {0} /\ n % 4 = 0
    (* code is aligned *)
    /\ \A g \in Gaps : g \in Nat /\ g % 4 = 0

VARIABLES
    original,              \* the kernel in .text: instructions by offset
    allotment, gap, app,   \* its registers, the code behind it, the tool
    host,       \* "loaded", "descriptors", "patched", "aborted"
    regsUsed,   \* of the last descriptor, from which the new code counts
    granted,    \* vector registers of the instruction's kernel, by its descriptor
    count,      \* *atomics
    executed    \* history: how often the instruction was executed

input == <<original, allotment, gap, app>>
vars == <<wave, input, host, regsUsed, granted, count, executed>>

-----------------------------------------------------------------------------
(* Code in sequence *)

(* Where the i-th of a sequence of instructions begins.  All have four or *)
(* eight bytes.                                                            *)
StartOf(code, i) == 4 * (i - 1 + Cardinality({j \in 1 .. i - 1 : code[j].size = 8}))
Bytes(code) == StartOf(code, Len(code) + 1)
Layout(code) ==
    [a \in {StartOf(code, i) : i \in DOMAIN code} |->
        code[CHOOSE i \in DOMAIN code : StartOf(code, i) = a]]
Move(layout, by) == [a \in {by + b : b \in DOMAIN layout} |-> layout[a - by]]
(* f over g *)
Over(f, g) == [a \in DOMAIN f \cup DOMAIN g |-> IF a \in DOMAIN f THEN f[a] ELSE g[a]]

(* psec->get_size() before anything is appended *)
section_size ==
    LET last == CHOOSE a \in DOMAIN original : \A b \in DOMAIN original : b <= a
    IN  last + original[last].size + gap
(* get_instructions: number Instrumented, and its offset. *)
Exists == Instrumented < Cardinality(DOMAIN original)
offset == CHOOSE a \in DOMAIN original : Cardinality({b \in DOMAIN original : b < a}) = Instrumented
instr == original[offset]

-----------------------------------------------------------------------------
(* What a compiler emits: instructions with their operands, branches to    *)
(* instructions of the kernel, s_endpgm at the end.                        *)

IsInstruction(i) ==
    /\ i = Instruction(i.op, i.size, i.dst, i.src, i.arg)
    /\ i.op \in {"alu", "load", "store", "wait", "nop", "branch", "end"}
    /\ i.size \in {4, 8}
    /\ i.op \in {"alu", "load", "store"} => i.src # {}
    /\ i.op = "load" => i.arg \in Counters
    /\ i.op = "branch" => i.arg \in Nat
IsKernel(code) ==
    /\ code \in Seq({code[i] : i \in DOMAIN code}) /\ code # << >>
    /\ code[Len(code)].op = "end"
    /\ \A i \in DOMAIN code :
        /\ IsInstruction(code[i])
        /\ code[i].op = "branch" =>
              \E j \in DOMAIN code : StartOf(code, j) = StartOf(code, i) + Relative(code[i].arg)

(* The registers an instruction has; a kernel has none but those its       *)
(* descriptor asks for.                                                    *)
Has(i) == i.dst \cup i.src
ASSUME ProgramAssumption ==
    \A code \in Programs :
        /\ IsKernel(code)
        /\ \A a \in Allotments, i \in DOMAIN code : Has(code[i]) \subseteq Registers(a.own)

-----------------------------------------------------------------------------
(* get_injected_instructions *)

to_save == 6
saves(used) ==
    [i \in 1 .. to_save |-> Instruction("move", 4, {v(used + i - 1)}, {v(i - 1)}, 0)] \o
    [i \in 1 .. to_save |-> Instruction("move", 8, {v(used + to_save + i - 1)}, {s(i - 1)}, 0)]
loads(used) ==
    [i \in 1 .. to_save |-> Instruction("move", 4, {v(i - 1)}, {v(used + i - 1)}, 0)] \o
    [i \in 1 .. to_save |-> Instruction("move", 8, {s(i - 1)}, {v(used + to_save + i - 1)}, 0)]

literal(size, r) == Instruction("literal", size, r, {}, 0)

(* s_mov of the address of atomics, v0:1 = 1, v2 = 0, wait, atomic add that *)
(* returns to v0:1, wait.                                                  *)
instrcount_code ==
    << literal(8, {s(2)}), literal(8, {s(3)}),
       literal(4, {v(0)}), literal(4, {v(1)}), literal(4, {v(2)}),
       s_waitcnt({"lgkmcnt"}),
       Instruction("atomic", 8, {v(0), v(1)}, {v(2), s(2), s(3)}, "vmcnt"),
       s_waitcnt({"vmcnt"}) >>

(* v0:1 = the address of atomics, v2 = 1, atomic add that returns to v2;   *)
(* v2:3 = the address in the buffer, with carry; v0:1 = the saved address; *)
(* store it there.                                                         *)
memtrace_code(used) ==
    << literal(8, {v(0)}), literal(8, {v(1)}), literal(4, {v(2)}),
       Instruction("atomic", 8, {v(2)}, {v(0), v(1)}, "vmcnt"),
       literal(4, {v(3)}), literal(8, {v(1)}),
       s_waitcnt(Counters),
       literal(8, {v(2), v(3)}), literal(8, {v(2), vcc}), literal(4, {v(3), vcc}),
       Instruction("move", 4, {v(0)}, {v(used)}, 0),
       Instruction("move", 4, {v(1)}, {v(used + 1)}, 0),
       Instruction("record", 8, {}, {v(0), v(1), v(2), v(3)}, 0) >>

(* Slip: the code begins without a wait. *)
injected_unwaited(a, used) ==
    saves(used) \o <<s_waitcnt(Counters), s_waitcnt(Counters)>>
    \o (IF a = "instrcount" THEN instrcount_code ELSE memtrace_code(used))
    \o loads(used) \o <<s_waitcnt(Counters)>>

injected(a, used) ==
    <<s_waitcnt(Counters)>> \o saves(used) \o <<s_waitcnt(Counters), s_waitcnt(Counters)>>
    \o (IF a = "instrcount" THEN instrcount_code ELSE memtrace_code(used))
    \o loads(used) \o <<s_waitcnt(Counters)>>

-----------------------------------------------------------------------------
(* editKernelDescriptor *)

(* The vector registers granted to a kernel that uses so many; 16 more are *)
(* needed.                                                                 *)
vgprs(used) ==
    IF used + 16 <= 16 THEN 16
    ELSE IF used + 16 <= 40 THEN 40
    ELSE IF used + 16 <= 64 THEN 64
    ELSE 8

(* Every symbol *.kd has its descriptor changed; regsUsed is left as the   *)
(* last of them had it.                                                    *)
EditDescriptors ==
    /\ host = "loaded"
    /\ granted' = vgprs(allotment.own)
    /\ regsUsed' = allotment.last
    /\ host' = "descriptors"
    /\ UNCHANGED <<wave, input, count, executed>>

-----------------------------------------------------------------------------
(* addInstrumentation *)

(* Slip: the branch is taken to count from itself. *)
s_branch_from(branch_addr, target_addr) ==
    Instruction("jump", 4, {}, {},
        (((target_addr - branch_addr) % AddressWrap) \div 4) % SimmWrap)

(* create_s_branch: unsigned arithmetic, cut to the width of simm16. *)
s_branch(branch_addr, target_addr) ==
    Instruction("jump", 4, {}, {},
        (((target_addr - branch_addr - 4) % AddressWrap) \div 4) % SimmWrap)

(* The branch in the place of the instruction, s_nop in its second word. *)
jumpto ==
    LET j == [a \in {offset} |-> s_branch(offset, section_size)]
    IN  IF instr.size = 8 THEN Over([a \in {offset + 4} |-> s_nop], j) ELSE j

(* The new code, in each case, as text and its size. *)
used_registers == {a.last : a \in Allotments}
new_text == [a \in Apps |-> [used \in used_registers |-> Layout(injected(a, used))]]
new_size == [a \in Apps |-> Bytes(injected(a, 0))]
(* Where the instruction is then. *)
copy_at == section_size + new_size[app]

jumpback == s_branch(copy_at + instr.size, offset + 4)

(* Slip: the instruction is taken for one word. *)
appended_word ==
    Over(Move(new_text[app][regsUsed], section_size),
         [a \in {copy_at, copy_at + 4} |-> IF a = copy_at THEN instr ELSE jumpback])

(* Behind .text: the new code, the instruction, and back. *)
appended ==
    Over(Move(new_text[app][regsUsed], section_size),
         [a \in {copy_at, copy_at + instr.size} |-> IF a = copy_at THEN instr ELSE jumpback])

(* Slip: text, the copy that has the branch, is not copied back. *)
Patched_appended == Over(appended, original)

Patched == Over(jumpto, Over(appended, original))

(* The instruction, if there are so many, is instrumented; only a load or  *)
(* a store is for MEMTRACE, by an assertion.  Then the file is saved.      *)
PatchText ==
    /\ host = "descriptors"
    /\ IF ~Exists
       THEN host' = "patched" /\ UNCHANGED text
       ELSE IF app = "memtrace" /\ instr.op \notin {"load", "store"}
       THEN host' = "aborted" /\ UNCHANGED text
       ELSE host' = "patched" /\ text' = Patched
    /\ UNCHANGED <<status, pc, regs, pending, stored, input, regsUsed, granted, count, executed>>

(* hipLaunchKernel: the kernel of the instrumented file is launched, with   *)
(* the registers of its descriptor.                                        *)
Contents(r) == (r[2] + (IF r[1] = "s" THEN 1 ELSE 0)) % Values
Launch ==
    /\ host = "patched"
    /\ status = "host"
    /\ status' = "run"
    /\ regs' = [r \in Registers(granted) |->
                   IF r \in Registers(allotment.own) THEN Contents(r) ELSE Foreign]
    /\ UNCHANGED <<text, pc, pending, stored, input, host, regsUsed, granted, count, executed>>

-----------------------------------------------------------------------------
(* Instructions of the new code *)

Literal ==
    /\ Executes("literal")
    /\ Assign(I.dst, Foreign)
    /\ Onwards
    /\ UNCHANGED <<text, status, pending, stored, count>>

(* global_atomic_add of 1, which returns what was there. *)
Atomic ==
    /\ Executes("atomic")
    /\ count' = count + 1
    /\ pending' = pending \cup {[dst |-> r, value |-> Foreign, counter |-> I.arg] : r \in I.dst}
    /\ Onwards
    /\ UNCHANGED <<text, status, regs, stored>>

(* The store to the buffer. *)
Record ==
    /\ Executes("record")
    /\ Onwards
    /\ UNCHANGED <<text, status, regs, pending, stored, count>>

-----------------------------------------------------------------------------
(* The instruction is executed: where it is now, or still where it was. *)
Tick ==
    IF /\ Exists /\ pc \in {offset, copy_at} /\ pc \in DOMAIN text /\ text[pc] = instr
       /\ pc' # pc \/ status' = "done"
    THEN executed < MaxCount /\ executed' = executed + 1
    ELSE UNCHANGED executed

Run ==
    /\ \/ /\ Compute \/ Copy \/ Load \/ Complete \/ Store \/ Wait \/ Nop \/ Jump \/ Branch \/ End \/ Fault
          /\ UNCHANGED count
       \/ Literal \/ Atomic \/ Record
    /\ Tick
    /\ UNCHANGED <<input, host, regsUsed, granted>>

Init ==
    /\ original \in {Layout(code) : code \in Programs}
    /\ allotment \in Allotments
    /\ gap \in Gaps
    /\ app \in Apps
    /\ host = "loaded"
    /\ regsUsed = 0
    /\ granted = 0
    /\ count = 0
    /\ executed = 0
    /\ text = original
    /\ regs = << >>
    /\ Ready

Next == EditDescriptors \/ PatchText \/ Launch \/ Run

Spec == Init /\ [][Next]_vars

-----------------------------------------------------------------------------
(* The wavefront as it would have been.  In the new code the instruction   *)
(* has not been executed yet, and a register is in the one it was saved    *)
(* to; a result of the atomic is none of the program's.  Registers it does *)
(* not use are left out.                                                   *)

InNewCode == pc >= section_size
OrigPc ==
    IF ~Exists THEN pc
    ELSE IF InNewCode THEN IF pc <= copy_at THEN offset ELSE offset + instr.size
    ELSE IF host = "patched" /\ pc = offset + 4 /\ instr.size = 8 THEN offset + 8
    ELSE pc

savedTo(r, used) == v(used + r[2] + IF r[1] = "s" THEN to_save ELSE 0)
(* The registers that are in another one, so far into the new code. *)
SavedAt(code, used, at) ==
    LET done(dst, src) == \E a \in DOMAIN code : /\ a < at
                                                /\ code[a].op = "move"
                                                /\ code[a].dst = {dst} /\ code[a].src = {src}
    IN  {r \in {v(i) : i \in 0 .. to_save - 1} \cup {s(i) : i \in 0 .. to_save - 1} :
            done(savedTo(r, used), r) /\ ~done(r, savedTo(r, used))}
saved_at ==
    [a \in Apps |-> [used \in used_registers |->
        [at \in 0 .. new_size[a] |-> SavedAt(new_text[a][used], used, at)]]]
Saved ==
    IF pc \in section_size .. copy_at THEN saved_at[app][regsUsed][pc - section_size] ELSE {}
OrigRegs ==
    LET saved == Saved
    IN  [r \in UNION {Has(original[a]) : a \in DOMAIN original} |->
            IF status = "host" THEN Contents(r)
            ELSE LET q == IF r \in saved THEN savedTo(r, regsUsed) ELSE r
                 IN  IF q \in DOMAIN regs THEN regs[q] ELSE Foreign]

Orig == INSTANCE Wave WITH
    text <- original, pc <- OrigPc, regs <- OrigRegs,
    pending <- {p \in pending : p.value # Foreign}

-----------------------------------------------------------------------------
TypeOK ==
    /\ host \in {"loaded", "descriptors", "patched", "aborted"}
    /\ status \in {"host", "run", "done", "fault"}
    /\ host # "patched" => status = "host"
    /\ \A a \in DOMAIN text : /\ text[a].size \in {4, 8}
                             /\ text[a].size = 8 => a + 4 \notin DOMAIN text
    /\ DOMAIN regs \subseteq Registers(granted)
    /\ \A r \in DOMAIN regs : regs[r] \in 0 .. Values - 1 \cup {Foreign}
    /\ \A p \in pending : p.counter \in Counters
    /\ granted \in Nat /\ regsUsed \in Nat
    /\ count \in Nat /\ executed \in 0 .. MaxCount

(* What the rewriting counts on without looking. *)

(* The instruction is not itself relative to where it is. *)
Relocatable == instr.op # "branch"
(* Its kernel does not use the registers behind those of the last one, and *)
(* is granted those that are saved to.  (A kernel of more than 48 is       *)
(* granted 8, see vgprs.)                                                  *)
RegistersFit ==
    /\ allotment.own <= allotment.last
    /\ allotment.last + 2 * to_save <= vgprs(allotment.own)
(* The new code can be reached, and reach back. *)
InReach ==
    LET far == copy_at + instr.size - offset
    IN  far <= 2 * SimmWrap
(* The new code of MEMTRACE adds with carry. *)
FlagsFree ==
    app = "memtrace" => \A a \in DOMAIN original : vcc \notin Has(original[a])
(* What it is granted is enough for itself, also where no instruction is   *)
(* instrumented.                                                           *)
StillGranted == allotment.own <= vgprs(allotment.own)
Sound == StillGranted /\ (Exists => Relocatable /\ RegistersFit /\ InReach /\ FlagsFree)

(* Instrumenting does not change what a kernel does: the wavefront on the  *)
(* new text takes the steps of the one on the old text, with the same      *)
(* registers, also those a load writes while the new code is entered, and  *)
(* the same branches, and otherwise none that could be seen.               *)
Transparent ==
    [][Sound => (UNCHANGED Orig!wave \/ Orig!Execute)]_vars

(* Every execution of the instruction is counted once: outside of the new  *)
(* code, and when the wavefront is done, *atomics is right.                *)
CountExact ==
    (Sound /\ (~InNewCode \/ status = "done")) => count = executed
=============================================================================
