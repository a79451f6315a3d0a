--------------------------------- MODULE Wave ---------------------------------
(***************************************************************************)
(* A wavefront of the GPU that runs a kernel, as far as instrumentation    *)
(* can tell: registers, instructions of four or eight bytes, branches      *)
(* relative to the instruction behind them, and memory operations that     *)
(* write their registers some time after they were issued, before an       *)
(* s_waitcnt on their counter ends.  Lanes, EXEC and memory itself are     *)
(* left out: an instruction does the same to every active lane.            *)
(*                                                                         *)
(* None of this is code of the repository: hip/hip-fatbin.cpp and          *)
(* include/InsnFactory.h depend on it.                                     *)
(***************************************************************************)
EXTENDS Integers, Sequences

CONSTANTS
    SimmWrap,   \* values of the offset of a branch (2^16)
    Values,     \* bound: what registers hold, 0 .. Values - 1
    Foreign     \* the value of whatever the program did not compute

ASSUME WaveAssumption ==
    /\ SimmWrap \in Nat \ {0} /\ SimmWrap % 2 = 0
    /\ Values \in Nat \ {0} /\ Foreign \notin Nat

VARIABLES
    text,      \* instructions by the offset of their first byte
    status,    \* "host": not launched yet; "run", "done", "fault"
    pc, regs,
    pending,   \* registers that memory operations will write, with what, and their counter
    stored     \* the last value stored

wave == <<text, status, pc, regs, pending, stored>>

v(i) == <<"v", i>>
s(i) == <<"s", i>>
vcc == <<"vcc", 0>>
Counters == {"vmcnt", "lgkmcnt"}

(* dst, src: sets of registers; arg: the counter of a memory operation,    *)
(* those a wait waits for, the offset of a branch.                         *)
Instruction(op, size, dst, src, arg) ==
    [op |-> op, size |-> size, dst |-> dst, src |-> src, arg |-> arg]
s_waitcnt(counters) == Instruction("wait", 4, {}, {}, counters)
s_nop == Instruction("nop", 4, {}, {}, 0)
s_endpgm == Instruction("end", 4, {}, {}, 0)

(* What an instruction computes from its operand. *)
Successor(x) == IF x = Foreign THEN Foreign ELSE (x + 1) % Values
Loaded(x) == IF x = Foreign THEN Foreign ELSE (x + 2) % Values

(* The registers of a kernel that was granted n vector registers. *)
Registers(n) == {v(i) : i \in 0 .. n - 1} \cup {s(i) : i \in 0 .. 7} \cup {vcc}

-----------------------------------------------------------------------------
(* The instruction at pc has this operation and may be executed. *)
Executes(op) ==
    /\ status = "run"
    /\ pc \in DOMAIN text
    /\ text[pc].op = op
    /\ text[pc].dst \cup text[pc].src \subseteq DOMAIN regs
I == text[pc]
Operand == regs[CHOOSE r \in I.src : TRUE]
Assign(rs, x) == regs' = [r \in DOMAIN regs |-> IF r \in rs THEN x ELSE regs[r]]
Onwards == pc' = pc + I.size

Compute ==
    /\ Executes("alu")
    /\ Assign(I.dst, Successor(Operand))
    /\ Onwards
    /\ UNCHANGED <<text, status, pending, stored>>

Copy ==
    /\ Executes("move")
    /\ Assign(I.dst, Operand)
    /\ Onwards
    /\ UNCHANGED <<text, status, pending, stored>>

Load ==
    /\ Executes("load")
    /\ pending' = pending \cup {[dst |-> r, value |-> Loaded(Operand), counter |-> I.arg] : r \in I.dst}
    /\ Onwards
    /\ UNCHANGED <<text, status, regs, stored>>

(* A memory operation completes: in any order, at any time. *)
Complete ==
    /\ status = "run"
    /\ \E p \in pending :
        /\ Assign({p.dst}, p.value)
        /\ pending' = pending \ {p}
    /\ UNCHANGED <<text, status, pc, stored>>

Store ==
    /\ Executes("store")
    /\ stored' = Operand
    /\ Onwards
    /\ UNCHANGED <<text, status, regs, pending>>

Wait ==
    /\ Executes("wait")
    /\ \A p \in pending : p.counter \notin I.arg
    /\ Onwards
    /\ UNCHANGED <<text, status, regs, pending, stored>>

Nop ==
    /\ Executes("nop")
    /\ Onwards
    /\ UNCHANGED <<text, status, regs, pending, stored>>

(* simm16 counts words, with a sign, from the next instruction. *)
Relative(arg) == 4 + 4 * (IF arg < SimmWrap \div 2 THEN arg ELSE arg - SimmWrap)
Target == pc + Relative(I.arg)

Jump ==
    /\ Executes("jump")
    /\ pc' = Target
    /\ UNCHANGED <<text, status, regs, pending, stored>>

(* A conditional branch goes either way. *)
Branch ==
    /\ Executes("branch")
    /\ pc' = Target \/ Onwards
    /\ UNCHANGED <<text, status, regs, pending, stored>>

End ==
    /\ Executes("end")
    /\ status' = "done"
    /\ UNCHANGED <<text, pc, regs, pending, stored>>

(* There is no instruction at pc, or it has a register the wave has not.   *)
Fault ==
    /\ status = "run"
    /\ pc \in DOMAIN text => ~(I.dst \cup I.src \subseteq DOMAIN regs)
    /\ status' = "fault"
    /\ UNCHANGED <<text, pc, regs, pending, stored>>

(* The kernel is launched. *)
Start ==
    /\ status = "host"
    /\ status' = "run"
    /\ UNCHANGED <<text, pc, regs, pending, stored>>

(* Before its first instruction. *)
Ready ==
    /\ status = "host"
    /\ pc = 0
    /\ pending = {}
    /\ stored = 0

Execute ==
    \/ Start \/ Compute \/ Copy \/ Load \/ Complete \/ Store
    \/ Wait \/ Nop \/ Jump \/ Branch \/ End \/ Fault

Runs == Ready /\ [][Execute]_wave
=============================================================================
