---------------------------- MODULE MCInstrument ----------------------------
EXTENDS Instrument

(* A kernel of four instructions, of which the second is instrumented.     *)
(* n: the last vector register of the kernel.                              *)
alu(size, d, r) == Instruction("alu", size, {d}, {r}, 0)
vload(d, r) == Instruction("load", 8, {d}, {r}, "vmcnt")
sload(d, r) == Instruction("load", 8, {d}, {r}, "lgkmcnt")
store(r) == Instruction("store", 8, {}, {r}, 0)
(* From offset `at' to offset `to'. *)
branch(at, to) == Instruction("branch", 4, {}, {}, ((to - at - 4) \div 4) % SimmWrap)

First(n) == {vload(v(0), v(n)), sload(s(2), s(1)), alu(4, v(n), v(1)), alu(4, vcc, s(2))}
Second(n) == {vload(v(1), v(0)), store(v(n)), alu(8, v(0), v(n)), alu(4, s(2), s(3)),
              s_waitcnt(Counters), s_endpgm, branch(8, 16)}
Third(n) == {alu(4, v(n), v(0)), alu(4, s(1), vcc), store(v(1))}
Fourth(at) == {s_endpgm, branch(at, 0)}

(* One is too short to be instrumented.  The branch to 16 must find an     *)
(* instruction there.                                                      *)
MCPrograms == {<<s_endpgm>>} \cup {code \in UNION {
    {<<a, b, c, d, s_endpgm>> : d \in Fourth(a.size + b.size + c.size)} :
        <<a, b, c>> \in First(3) \X Second(3) \X Third(3)} : IsKernel(code)}
MCAllotments == {[own |-> 4, last |-> 4], [own |-> 4, last |-> 20], [own |-> 48, last |-> 48],
                 [own |-> 8, last |-> 4], [own |-> 52, last |-> 52]}
=============================================================================
