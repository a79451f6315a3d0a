--------------------------- MODULE InstrumentProofs ---------------------------
(***************************************************************************)
(* Proofs about Instrument, for any kernels, gaps, registers, widths of    *)
(* branches and any instruction that is instrumented: the types, that the  *)
(* rewritten .text is one, that every execution of the instruction is      *)
(* counted once, and that the kernel otherwise does what it did.           *)
(*                                                                         *)
(* The first part is about code in sequence: where instructions begin, by  *)
(* counting the long ones before them (Longer), and that they do not       *)
(* overlap.  PatchedIs then says what is where in the rewritten .text, and *)
(* JumpsReach that both its branches lead where they were meant to, cut to *)
(* the width of simm16 as their distances are.  Shape is the inductive     *)
(* invariant of the types.  Counted is the one of the count: the wavefront *)
(* is at one of the places of the kernel, of the new code, or of the copy, *)
(* and between the atomic and the copy the count is one ahead.             *)
(*                                                                         *)
(* Then what cannot be seen.  At(r, i) is where register r of the program  *)
(* is before the i-th instruction of the new code; Carried says that this  *)
(* instruction either leaves it there or moves it to At(r, i + 1).  Kept   *)
(* is the invariant: the program's registers have its values, and outside  *)
(* of the new code there are no memory operations but its own.  From it    *)
(* every step is one of the original wavefront, or none (OwnStep in the    *)
(* kernel and at the copy, NewStep in the new code, OnlyMove at branches). *)
(***************************************************************************)
EXTENDS Instrument, ModArithmetic, FiniteSetTheorems, TLAPS

-----------------------------------------------------------------------------
(* Code in sequence *)

Sized(code) ==
    /\ code \in Seq({code[i] : i \in DOMAIN code})
    /\ \A i \in 1 .. Len(code) : code[i].size \in {4, 8}

(* The instructions of eight bytes among the first so many. *)
Longer(code, n) == {j \in 1 .. n : code[j].size = 8}

(* They are finitely many.                                                 *)
LEMMA LongerCounted ==
  ASSUME NEW code, NEW n \in Nat
  PROVE  IsFiniteSet(Longer(code, n)) /\ Cardinality(Longer(code, n)) \in Nat
<1>1. IsFiniteSet(1 .. n)
  BY FS_Interval
<1>2. Longer(code, n) \subseteq 1 .. n
  BY DEF Longer
<1> QED
  BY <1>1, <1>2, FS_Subset, FS_CardinalityType

(* StartOf by Longer.                                                      *)
LEMMA StartIs ==
  ASSUME NEW code, NEW n \in Nat
  PROVE  /\ StartOf(code, n + 1) = 4 * n + 4 * Cardinality(Longer(code, n))
         /\ StartOf(code, n + 1) \in Nat
<1>1. (n + 1) - 1 = n
  OBVIOUS
<1>2. StartOf(code, n + 1) = 4 * (n + Cardinality(Longer(code, n)))
  BY <1>1 DEF StartOf, Longer
<1> QED
  BY <1>2, LongerCounted

(* An instruction begins where the one before it ends.                     *)
LEMMA StartNext ==
  ASSUME NEW code, NEW i \in Nat \ {0}, code[i].size \in {4, 8}
  PROVE  /\ StartOf(code, i) \in Nat
         /\ StartOf(code, i + 1) = StartOf(code, i) + code[i].size
<1>1. PICK n \in Nat : i = n + 1
  <2>1. i - 1 \in Nat /\ i = (i - 1) + 1
    OBVIOUS
  <2> QED
    BY <2>1
<1>2. CASE code[i].size = 4
  <2>1. Longer(code, i) = Longer(code, n)
    BY <1>1, <1>2 DEF Longer
  <2> QED
    BY <1>1, <1>2, <2>1, StartIs, LongerCounted
<1>3. CASE code[i].size = 8
  <2>1. Longer(code, i) = Longer(code, n) \cup {i} /\ i \notin Longer(code, n)
    BY <1>1, <1>3 DEF Longer
  <2>2. Cardinality(Longer(code, i)) = Cardinality(Longer(code, n)) + 1
    BY <2>1, LongerCounted, FS_AddElement
  <2> QED
    BY <1>1, <1>3, <2>2, StartIs, LongerCounted
<1> QED
  BY <1>2, <1>3

(* The first one begins at 0.                                              *)
LEMMA StartFirst == ASSUME NEW code PROVE StartOf(code, 1) = 0
<1>1. Longer(code, 0) = {}
  BY DEF Longer
<1>2. 0 + 1 = 1 /\ 0 \in Nat
  OBVIOUS
<1>3. StartOf(code, 1) = 4 * 0 + 4 * Cardinality(Longer(code, 0))
  BY <1>2, StartIs
<1> QED
  BY <1>1, <1>3, FS_EmptySet

(* Later ones begin later.                                                 *)
LEMMA StartRises ==
  ASSUME NEW code, NEW i \in Nat \ {0}, NEW j \in Nat \ {0}, i <= j
  PROVE  StartOf(code, i) <= StartOf(code, j)
<1>1. PICK m \in Nat : i = m + 1
  <2>1. i - 1 \in Nat /\ i = (i - 1) + 1
    OBVIOUS
  <2> QED
    BY <2>1
<1>2. PICK n \in Nat : j = n + 1
  <2>1. j - 1 \in Nat /\ j = (j - 1) + 1
    OBVIOUS
  <2> QED
    BY <2>1
<1>3. Longer(code, m) \subseteq Longer(code, n)
  BY <1>1, <1>2 DEF Longer
<1>4. Cardinality(Longer(code, m)) <= Cardinality(Longer(code, n))
  BY <1>3, LongerCounted, FS_Subset
<1> QED
  BY <1>1, <1>2, <1>4, StartIs, LongerCounted

(* An instruction ends before a later one begins.                          *)
LEMMA StartApart ==
  ASSUME NEW code, NEW i \in Nat \ {0}, NEW j \in Nat \ {0}, i < j, code[i].size \in {4, 8}
  PROVE  StartOf(code, i) + code[i].size <= StartOf(code, j)
  BY StartNext, StartRises

(* Instructions are aligned.                                               *)
LEMMA StartAligned ==
  ASSUME NEW code, NEW i \in Nat \ {0}
  PROVE  \E q \in Nat : StartOf(code, i) = 4 * q
<1>1. PICK n \in Nat : i = n + 1
  <2>1. i - 1 \in Nat /\ i = (i - 1) + 1
    OBVIOUS
  <2> QED
    BY <2>1
<1>2. PICK c \in Nat : c = Cardinality(Longer(code, n))
  BY LongerCounted
<1>3. StartOf(code, i) = 4 * (n + c)
  BY <1>1, <1>2, StartIs
<1> QED
  BY <1>3

(* A layout has each instruction where it begins, and nothing else.        *)
LEMMA LayoutIs ==
  ASSUME NEW code, Sized(code)
  PROVE  /\ DOMAIN Layout(code) = {StartOf(code, i) : i \in 1 .. Len(code)}
         /\ \A i \in 1 .. Len(code) : Layout(code)[StartOf(code, i)] = code[i]
         /\ Len(code) \in Nat /\ DOMAIN code = 1 .. Len(code)
<1>1. Len(code) \in Nat /\ DOMAIN code = 1 .. Len(code)
  BY DEF Sized
<1>2. DOMAIN Layout(code) = {StartOf(code, i) : i \in 1 .. Len(code)}
  BY <1>1 DEF Layout
<1>3. ASSUME NEW i \in 1 .. Len(code) PROVE Layout(code)[StartOf(code, i)] = code[i]
  <2>1. \A j \in 1 .. Len(code) : StartOf(code, j) = StartOf(code, i) => j = i
    <3>1. ASSUME NEW j \in 1 .. Len(code), NEW k \in 1 .. Len(code), j < k
          PROVE  StartOf(code, j) # StartOf(code, k)
      <4>1. /\ j \in Nat \ {0} /\ k \in Nat \ {0} /\ code[j].size \in {4, 8}
            /\ code[k].size \in {4, 8}
        BY <1>1 DEF Sized
      <4>2. StartOf(code, j) + code[j].size <= StartOf(code, k)
        BY <3>1, <4>1, StartApart
      <4>3. StartOf(code, j) \in Nat /\ StartOf(code, k) \in Nat
        BY <4>1, StartNext
      <4> QED
        BY <4>1, <4>2, <4>3
    <3> QED
      BY <1>1, <3>1
  <2>2. (CHOOSE k \in DOMAIN code : StartOf(code, k) = StartOf(code, i)) = i
    BY <1>1, <2>1
  <2>3. StartOf(code, i) \in {StartOf(code, k) : k \in DOMAIN code}
    BY <1>1
  <2> QED
    BY <2>2, <2>3 DEF Layout
<1> QED
  BY <1>1, <1>2, <1>3

-----------------------------------------------------------------------------
(* The kernel in .text *)

(* A kernel laid out: instructions that do not overlap, from each of which *)
(* another one is reached, except from s_endpgm.                           *)
Laid(t) ==
    /\ 0 \in DOMAIN t
    /\ \A a \in DOMAIN t :
        /\ \E q \in Nat : a = 4 * q
        /\ IsInstruction(t[a])
        /\ t[a].op # "end" => a + t[a].size \in DOMAIN t
        /\ t[a].op = "branch" => a + Relative(t[a].arg) \in DOMAIN t
    /\ \A a, b \in DOMAIN t : a < b => a + t[a].size <= b
    /\ \E last \in DOMAIN t : \A b \in DOMAIN t : b <= last

(* A kernel is code.                                                       *)
LEMMA KernelSized ==
  ASSUME NEW code, IsKernel(code)
  PROVE  Sized(code) /\ Len(code) \in Nat \ {0}
<1>1. Len(code) \in Nat /\ DOMAIN code = 1 .. Len(code)
  BY DEF IsKernel
<1>2. Len(code) # 0
  BY <1>1 DEF IsKernel
<1> QED
  BY <1>1, <1>2 DEF IsKernel, Sized, IsInstruction

(* Its layout.                                                             *)
LEMMA KernelLaid ==
  ASSUME NEW code, IsKernel(code)
  PROVE  Laid(Layout(code))
<1> DEFINE t == Layout(code)
           n == Len(code)
<1>1. /\ Sized(code) /\ n \in Nat \ {0} /\ DOMAIN code = 1 .. n
      /\ DOMAIN t = {StartOf(code, i) : i \in 1 .. n}
      /\ \A i \in 1 .. n : t[StartOf(code, i)] = code[i]
  BY KernelSized, LayoutIs
<1>2. \A i \in 1 .. n : /\ IsInstruction(code[i]) /\ code[i].size \in {4, 8}
                        /\ StartOf(code, i) \in Nat
                        /\ StartOf(code, i + 1) = StartOf(code, i) + code[i].size
  <2>1. \A i \in 1 .. n : IsInstruction(code[i]) /\ code[i].size \in {4, 8} /\ i \in Nat \ {0}
    BY <1>1 DEF IsKernel, Sized
  <2> QED
    BY <2>1, StartNext
<1> HIDE DEF t, n
<1>3. 0 \in DOMAIN t
  BY <1>1, StartFirst
<1>4. ASSUME NEW a \in DOMAIN t
      PROVE  /\ \E q \in Nat : a = 4 * q
             /\ IsInstruction(t[a])
             /\ t[a].op # "end" => a + t[a].size \in DOMAIN t
             /\ t[a].op = "branch" => a + Relative(t[a].arg) \in DOMAIN t
  <2>1. PICK i \in 1 .. n : a = StartOf(code, i) /\ t[a] = code[i]
    BY <1>1
  <2>2. i \in Nat \ {0}
    BY <1>1
  <2>3. \E q \in Nat : a = 4 * q
    BY <2>1, <2>2, StartAligned
  <2>4. ASSUME t[a].op # "end" PROVE a + t[a].size \in DOMAIN t
    <3>1. i # n
      BY <2>1, <2>4 DEF IsKernel, n
    <3>2. i + 1 \in 1 .. n
      BY <1>1, <3>1
    <3> QED
      BY <1>1, <1>2, <2>1, <3>2
  <2>5. ASSUME t[a].op = "branch" PROVE a + Relative(t[a].arg) \in DOMAIN t
    <3>1. \E j \in DOMAIN code : StartOf(code, j) = StartOf(code, i) + Relative(code[i].arg)
      BY <1>1, <2>1, <2>5 DEF IsKernel
    <3> QED
      BY <1>1, <2>1, <3>1
  <2> QED
    BY <1>2, <2>1, <2>3, <2>4, <2>5
<1>5. ASSUME NEW a \in DOMAIN t, NEW b \in DOMAIN t, a < b PROVE a + t[a].size <= b
  <2>1. PICK i \in 1 .. n : a = StartOf(code, i) /\ t[a] = code[i]
    BY <1>1
  <2>2. PICK j \in 1 .. n : b = StartOf(code, j)
    BY <1>1
  <2>3. i \in Nat \ {0} /\ j \in Nat \ {0} /\ a \in Nat /\ b \in Nat
    BY <1>1, <1>2, <2>1, <2>2
  <2>4. ~ (j <= i)
    BY <1>5, <2>1, <2>2, <2>3, StartRises
  <2>5. i < j
    BY <2>3, <2>4
  <2> QED
    BY <1>2, <2>1, <2>2, <2>3, <2>5, StartApart
<1>6. \E last \in DOMAIN t : \A b \in DOMAIN t : b <= last
  <2>1. n \in 1 .. n /\ \A i \in 1 .. n : i \in Nat \ {0} /\ i <= n
    BY <1>1
  <2>2. \A i \in 1 .. n : StartOf(code, i) <= StartOf(code, n)
    BY <2>1, StartRises
  <2> QED
    BY <1>1, <2>1, <2>2
<1> QED
  BY <1>3, <1>4, <1>5, <1>6 DEF Laid, t

(* The instruction number n is there if there are more than n.             *)
LEMMA NumberExists ==
  ASSUME NEW code, IsKernel(code), NEW n \in Nat, n < Cardinality(DOMAIN Layout(code))
  PROVE  \E a \in DOMAIN Layout(code) : Cardinality({b \in DOMAIN Layout(code) : b < a}) = n
<1> DEFINE D == DOMAIN Layout(code)
           Starts(m) == {StartOf(code, i) : i \in 1 .. m}
           F(m) == [i \in 1 .. m |-> StartOf(code, i)]
<1>1. /\ Sized(code) /\ Len(code) \in Nat \ {0}
      /\ D = Starts(Len(code))
  BY KernelSized, LayoutIs
<1>2. \A i \in 1 .. Len(code) : i \in Nat \ {0} /\ StartOf(code, i) \in Nat /\ code[i].size \in {4, 8}
  <2>1. \A i \in 1 .. Len(code) : i \in Nat \ {0} /\ code[i].size \in {4, 8}
    BY <1>1 DEF Sized
  <2> QED
    BY <2>1, StartNext
<1>3. \A i, j \in 1 .. Len(code) : i < j => StartOf(code, i) < StartOf(code, j)
  <2>1. \A i, j \in 1 .. Len(code) : i < j => StartOf(code, i) + code[i].size <= StartOf(code, j)
    BY <1>2, StartApart
  <2> SUFFICES ASSUME NEW i \in 1 .. Len(code), NEW j \in 1 .. Len(code), i < j
               PROVE  StartOf(code, i) < StartOf(code, j)
    OBVIOUS
  <2>2. PICK near \in Nat, far \in Nat, size \in {4, 8} :
            near = StartOf(code, i) /\ far = StartOf(code, j) /\ size = code[i].size
    BY <1>2
  <2>3. near + size <= far
    BY <2>1, <2>2
  <2>4. near < far
    BY <2>2, <2>3
  <2> QED
    BY <2>2, <2>4
<1>4. \A m \in 0 .. Len(code) : Cardinality(Starts(m)) = m
  <2> TAKE m \in 0 .. Len(code)
  <2>1. m \in Nat /\ \A i \in 1 .. m : i \in 1 .. Len(code)
    BY <1>1
  <2>2. IsFiniteSet(1 .. m) /\ Cardinality(1 .. m) = m
    BY <2>1, FS_Interval
  <2>3. F(m) \in Bijection(1 .. m, Starts(m))
    <3>1. \A i, j \in 1 .. m : StartOf(code, i) = StartOf(code, j) => i = j
      BY <1>2, <1>3, <2>1
    <3> QED
      BY <3>1 DEF Bijection, Injection, Surjection, IsInjective
  <2> QED
    BY <2>2, <2>3, FS_Bijection DEF ExistsBijection
<1>5. n + 1 \in 1 .. Len(code)
  BY <1>1, <1>4
<1>6. {b \in D : b < StartOf(code, n + 1)} = Starts(n)
  <2>1. \A i \in 1 .. Len(code) : StartOf(code, i) < StartOf(code, n + 1) <=> i < n + 1
    BY <1>2, <1>3, <1>5
  <2> QED
    BY <1>1, <1>5, <2>1
<1>7. n \in 0 .. Len(code)
  BY <1>1, <1>5
<1> QED
  BY <1>1, <1>4, <1>5, <1>6, <1>7

(* What the rewriting starts from. *)
Inputs ==
    /\ \E code \in Programs : original = Layout(code)
    /\ allotment \in Allotments /\ gap \in Gaps /\ app \in Apps

LEMMA InputsLaid == ASSUME Inputs PROVE Laid(original)
  BY ProgramAssumption, KernelLaid DEF Inputs

(* An offset in the kernel, and the instruction there.                     *)
LEMMA InKernel ==
  ASSUME Inputs, NEW a \in DOMAIN original
  PROVE  /\ a \in Nat /\ \E q \in Nat : a = 4 * q
         /\ IsInstruction(original[a])
         /\ original[a].size \in {4, 8}
         /\ original[a].op # "end" => a + original[a].size \in DOMAIN original
         /\ original[a].op = "branch" => a + Relative(original[a].arg) \in DOMAIN original
         /\ original[a].size = 8 => a + 4 \notin DOMAIN original
         /\ \A b \in DOMAIN original : a < b => a + original[a].size <= b
<1>1. /\ \E q \in Nat : a = 4 * q
      /\ IsInstruction(original[a])
      /\ original[a].op # "end" => a + original[a].size \in DOMAIN original
      /\ original[a].op = "branch" => a + Relative(original[a].arg) \in DOMAIN original
      /\ \A b \in DOMAIN original : a < b => a + original[a].size <= b
  <2>1. Laid(original)
    BY InputsLaid
  <2> QED
    BY <2>1 DEF Laid
<1>2. original[a].size \in {4, 8}
  BY <1>1 DEF IsInstruction
<1>3. a \in Nat
  BY <1>1
<1>4. ASSUME original[a].size = 8 PROVE a + 4 \notin DOMAIN original
  BY <1>1, <1>3, <1>4
<1> QED
  BY <1>1, <1>2, <1>3, <1>4

(* The instruction that is instrumented is one of the kernel.              *)
LEMMA OffsetIn ==
  ASSUME Inputs, Exists
  PROVE  offset \in DOMAIN original
<1>1. PICK code \in Programs : original = Layout(code)
  BY DEF Inputs
<1>2. \E a \in DOMAIN original : Cardinality({b \in DOMAIN original : b < a}) = Instrumented
  BY <1>1, ProgramAssumption, InstrumentAssumption, NumberExists DEF Exists
<1> QED
  BY <1>2 DEF offset

(* Everything of the kernel is in .text.                                   *)
LEMMA SectionBehind ==
  ASSUME Inputs
  PROVE  /\ section_size \in Nat /\ \E q \in Nat : section_size = 4 * q
         /\ \A a \in DOMAIN original : a + original[a].size <= section_size
<1> DEFINE last == CHOOSE a \in DOMAIN original : \A b \in DOMAIN original : b <= a
<1>1. last \in DOMAIN original /\ \A b \in DOMAIN original : b <= last
  <2>1. \E a \in DOMAIN original : \A b \in DOMAIN original : b <= a
    <3>1. Laid(original)
      BY InputsLaid
    <3> QED
      BY <3>1, Zenon DEF Laid
  <2> QED
    BY <2>1
<1>2. section_size = last + original[last].size + gap
  BY DEF section_size
<1> HIDE DEF last
<1>3. \A a \in DOMAIN original :
        /\ a \in Nat /\ original[a].size \in {4, 8}
        /\ \A b \in DOMAIN original : a < b => a + original[a].size <= b
  BY InKernel
<1>4. gap \in Nat /\ \E q \in Nat : gap = 4 * q
  <2>1. gap \in Nat /\ gap % 4 = 0
    BY InstrumentAssumption DEF Inputs
  <2> QED
    BY <2>1
<1>5. \E q \in Nat : last = 4 * q
  BY <1>1, InKernel
<1>6. \E q \in Nat : section_size = 4 * q
  <2>1. PICK p \in Nat : last = 4 * p
    BY <1>5
  <2>2. PICK q \in Nat : gap = 4 * q
    BY <1>4
  <2>3. \E r \in Nat : original[last].size = 4 * r
    <3>1. 4 = 4 * 1 /\ 8 = 4 * 2
      OBVIOUS
    <3> QED
      BY <1>1, <1>3, <3>1
  <2>4. PICK r \in Nat : original[last].size = 4 * r
    BY <2>3
  <2>5. section_size = 4 * (p + r + q)
    BY <1>2, <2>1, <2>2, <2>4
  <2> QED
    BY <2>5
<1>7. ASSUME NEW a \in DOMAIN original PROVE a + original[a].size <= section_size
  <2>1. a <= last
    BY <1>1
  <2>2. a = last \/ a < last
    BY <1>1, <1>3, <2>1
  <2> QED
    BY <1>1, <1>2, <1>3, <1>4, <2>2
<1> QED
  BY <1>1, <1>2, <1>3, <1>4, <1>6, <1>7

-----------------------------------------------------------------------------
(* The new code *)

Register == {"v", "s", "vcc"} \X Nat
NewInstruction ==
    [op : {"wait", "move", "literal", "atomic", "record"}, size : {4, 8},
     dst : SUBSET Register, src : SUBSET Register, arg : {0} \cup Counters \cup SUBSET Counters]
middle(a, used) == IF a = "instrcount" THEN instrcount_code ELSE memtrace_code(used)

(* Registers are registers.                                                *)
LEMMA RegisterType ==
  ASSUME NEW n \in Nat PROVE v(n) \in Register /\ s(n) \in Register /\ vcc \in Register
  BY DEF v, s, vcc, Register

(* What an instruction of the new code is.                                 *)
LEMMA NewInstructionType ==
  ASSUME NEW op \in {"wait", "move", "literal", "atomic", "record"}, NEW size \in {4, 8},
         NEW dst \in SUBSET Register, NEW src \in SUBSET Register,
         NEW arg \in {0} \cup Counters \cup SUBSET Counters
  PROVE  Instruction(op, size, dst, src, arg) \in NewInstruction
  BY DEF Instruction, NewInstruction
(* Its parts.                                                              *)
LEMMA InstructionIs ==
  ASSUME NEW op, NEW size, NEW dst, NEW src, NEW arg
  PROVE  /\ Instruction(op, size, dst, src, arg).op = op
         /\ Instruction(op, size, dst, src, arg).size = size
         /\ Instruction(op, size, dst, src, arg).dst = dst
         /\ Instruction(op, size, dst, src, arg).src = src
         /\ Instruction(op, size, dst, src, arg).arg = arg
  BY DEF Instruction

(* One sequence after another.                                             *)
LEMMA Joined ==
  ASSUME NEW A, NEW f \in Seq(A), NEW g \in Seq(A)
  PROVE  /\ f \o g \in Seq(A)
         /\ Len(f) \in Nat /\ Len(g) \in Nat /\ Len(f \o g) = Len(f) + Len(g)
         /\ \A i \in 1 .. Len(f) + Len(g) :
                (f \o g)[i] = IF i <= Len(f) THEN f[i] ELSE g[i - Len(f)]
  OBVIOUS

(* The saving part, instruction by instruction.                            *)
LEMMA SavesAre ==
  ASSUME NEW used \in Nat
  PROVE  /\ saves(used) \in Seq(NewInstruction) /\ Len(saves(used)) = 12
         /\ \A k \in 1 .. 12 : saves(used)[k] =
                IF k <= 6 THEN Instruction("move", 4, {v(used + k - 1)}, {v(k - 1)}, 0)
                ELSE Instruction("move", 8, {v(used + k - 1)}, {s(k - 7)}, 0)
<1> DEFINE f == [i \in 1 .. 6 |-> Instruction("move", 4, {v(used + i - 1)}, {v(i - 1)}, 0)]
           g == [i \in 1 .. 6 |-> Instruction("move", 8, {v(used + 6 + i - 1)}, {s(i - 1)}, 0)]
<1>1. saves(used) = f \o g
  BY DEF saves, to_save
<1>2. f \in Seq(NewInstruction) /\ Len(f) = 6
  <2>1. ASSUME NEW i \in 1 .. 6 PROVE f[i] \in NewInstruction
    <3>1. v(used + i - 1) \in Register /\ v(i - 1) \in Register
      BY RegisterType
    <3> QED
      BY <3>1, NewInstructionType
  <2> QED
    BY <2>1
<1>3. g \in Seq(NewInstruction) /\ Len(g) = 6
  <2>1. ASSUME NEW i \in 1 .. 6 PROVE g[i] \in NewInstruction
    <3>1. v(used + 6 + i - 1) \in Register /\ s(i - 1) \in Register
      BY RegisterType
    <3> QED
      BY <3>1, NewInstructionType
  <2> QED
    BY <2>1
<1>4. \A k \in 1 .. 6 : f[k] = Instruction("move", 4, {v(used + k - 1)}, {v(k - 1)}, 0)
  OBVIOUS
<1>5. \A k \in 7 .. 12 : g[k - 6] = Instruction("move", 8, {v(used + k - 1)}, {s(k - 7)}, 0)
  <2>1. ASSUME NEW k \in 7 .. 12
        PROVE  g[k - 6] = Instruction("move", 8, {v(used + k - 1)}, {s(k - 7)}, 0)
    <3>1. k - 6 \in 1 .. 6 /\ used + 6 + (k - 6) - 1 = used + k - 1 /\ (k - 6) - 1 = k - 7
      OBVIOUS
    <3>2. g[k - 6] = Instruction("move", 8, {v(used + 6 + (k - 6) - 1)}, {s((k - 6) - 1)}, 0)
      BY <3>1
    <3> QED
      BY <3>1, <3>2
  <2> QED
    BY <2>1
<1> HIDE DEF f, g
<1>6. /\ f \o g \in Seq(NewInstruction) /\ Len(f \o g) = 12
      /\ \A k \in 1 .. 12 : (f \o g)[k] = IF k <= 6 THEN f[k] ELSE g[k - 6]
  <2>1. Len(f) + Len(g) = 12 /\ f \in Seq(NewInstruction) /\ g \in Seq(NewInstruction)
    BY <1>2, <1>3
  <2>2. /\ f \o g \in Seq(NewInstruction)
        /\ Len(f \o g) = Len(f) + Len(g)
        /\ \A i \in 1 .. Len(f) + Len(g) : (f \o g)[i] = IF i <= Len(f) THEN f[i] ELSE g[i - Len(f)]
    BY <2>1, Joined
  <2> QED
    BY <1>2, <2>1, <2>2
<1>7. \A k \in 1 .. 12 : (k <= 6 => k \in 1 .. 6) /\ (~ (k <= 6) => k \in 7 .. 12)
  OBVIOUS
<1> QED
  BY <1>1, <1>4, <1>5, <1>6, <1>7

(* The restoring part.                                                     *)
LEMMA LoadsAre ==
  ASSUME NEW used \in Nat
  PROVE  /\ loads(used) \in Seq(NewInstruction) /\ Len(loads(used)) = 12
         /\ \A k \in 1 .. 12 : loads(used)[k] =
                IF k <= 6 THEN Instruction("move", 4, {v(k - 1)}, {v(used + k - 1)}, 0)
                ELSE Instruction("move", 8, {s(k - 7)}, {v(used + k - 1)}, 0)
<1> DEFINE f == [i \in 1 .. 6 |-> Instruction("move", 4, {v(i - 1)}, {v(used + i - 1)}, 0)]
           g == [i \in 1 .. 6 |-> Instruction("move", 8, {s(i - 1)}, {v(used + 6 + i - 1)}, 0)]
<1>1. loads(used) = f \o g
  BY DEF loads, to_save
<1>2. f \in Seq(NewInstruction) /\ Len(f) = 6
  <2>1. ASSUME NEW i \in 1 .. 6 PROVE f[i] \in NewInstruction
    <3>1. v(used + i - 1) \in Register /\ v(i - 1) \in Register
      BY RegisterType
    <3> QED
      BY <3>1, NewInstructionType
  <2> QED
    BY <2>1
<1>3. g \in Seq(NewInstruction) /\ Len(g) = 6
  <2>1. ASSUME NEW i \in 1 .. 6 PROVE g[i] \in NewInstruction
    <3>1. v(used + 6 + i - 1) \in Register /\ s(i - 1) \in Register
      BY RegisterType
    <3> QED
      BY <3>1, NewInstructionType
  <2> QED
    BY <2>1
<1>4. \A k \in 1 .. 6 : f[k] = Instruction("move", 4, {v(k - 1)}, {v(used + k - 1)}, 0)
  OBVIOUS
<1>5. \A k \in 7 .. 12 : g[k - 6] = Instruction("move", 8, {s(k - 7)}, {v(used + k - 1)}, 0)
  <2>1. ASSUME NEW k \in 7 .. 12
        PROVE  g[k - 6] = Instruction("move", 8, {s(k - 7)}, {v(used + k - 1)}, 0)
    <3>1. k - 6 \in 1 .. 6 /\ used + 6 + (k - 6) - 1 = used + k - 1 /\ (k - 6) - 1 = k - 7
      OBVIOUS
    <3>2. g[k - 6] = Instruction("move", 8, {s((k - 6) - 1)}, {v(used + 6 + (k - 6) - 1)}, 0)
      BY <3>1
    <3> QED
      BY <3>1, <3>2
  <2> QED
    BY <2>1
<1> HIDE DEF f, g
<1>6. /\ f \o g \in Seq(NewInstruction) /\ Len(f \o g) = 12
      /\ \A k \in 1 .. 12 : (f \o g)[k] = IF k <= 6 THEN f[k] ELSE g[k - 6]
  <2>1. Len(f) + Len(g) = 12 /\ f \in Seq(NewInstruction) /\ g \in Seq(NewInstruction)
    BY <1>2, <1>3
  <2>2. /\ f \o g \in Seq(NewInstruction)
        /\ Len(f \o g) = Len(f) + Len(g)
        /\ \A i \in 1 .. Len(f) + Len(g) : (f \o g)[i] = IF i <= Len(f) THEN f[i] ELSE g[i - Len(f)]
    BY <2>1, Joined
  <2> QED
    BY <1>2, <2>1, <2>2
<1>7. \A k \in 1 .. 12 : (k <= 6 => k \in 1 .. 6) /\ (~ (k <= 6) => k \in 7 .. 12)
  OBVIOUS
<1> QED
  BY <1>1, <1>4, <1>5, <1>6, <1>7

(* Sequences of given members.                                             *)
LEMMA EightOf ==
  ASSUME NEW A, NEW a \in A, NEW b \in A, NEW c \in A, NEW d \in A, NEW e \in A, NEW f \in A,
         NEW g \in A, NEW h \in A
  PROVE  <<a, b, c, d, e, f, g, h>> \in Seq(A)
  OBVIOUS
LEMMA ThirteenOf ==
  ASSUME NEW A, NEW a \in A, NEW b \in A, NEW c \in A, NEW d \in A, NEW e \in A, NEW f \in A,
         NEW g \in A, NEW h \in A, NEW i \in A, NEW j \in A, NEW k \in A, NEW l \in A, NEW m \in A
  PROVE  <<a, b, c, d, e, f, g, h, i, j, k, l, m>> \in Seq(A)
  OBVIOUS

(* Literals and waits.                                                     *)
LEMMA LiteralType ==
  ASSUME NEW size \in {4, 8}, NEW r \in SUBSET Register
  PROVE  literal(size, r) \in NewInstruction
  BY NewInstructionType DEF literal
LEMMA WaitType ==
  ASSUME NEW c \in SUBSET Counters PROVE s_waitcnt(c) \in NewInstruction
  BY NewInstructionType DEF s_waitcnt

(* The work, between saving and restoring: the places of the atomic.       *)
LEMMA MiddleIs ==
  ASSUME NEW a, NEW used \in Nat
  PROVE  /\ middle(a, used) \in Seq(NewInstruction)
         /\ Len(middle(a, used)) = IF a = "instrcount" THEN 8 ELSE 13
         /\ \A i \in 1 .. Len(middle(a, used)) :
                /\ middle(a, used)[i].op = "atomic" <=> i = IF a = "instrcount" THEN 7 ELSE 4
                /\ middle(a, used)[i].op = "atomic" => middle(a, used)[i].arg = "vmcnt"
                /\ middle(a, used)[i].op = "move" => middle(a, used)[i].src # {}
                /\ middle(a, used)[i].size = middle(a, 0)[i].size
<1>1. /\ \A n \in 0 .. 3 : v(n) \in Register /\ s(n) \in Register
      /\ v(used) \in Register /\ v(used + 1) \in Register /\ vcc \in Register
  BY RegisterType
<1>2. /\ v(0) \in Register /\ v(1) \in Register /\ v(2) \in Register /\ v(3) \in Register
      /\ s(2) \in Register /\ s(3) \in Register
  BY <1>1
<1>3. "lgkmcnt" \in Counters /\ "vmcnt" \in Counters /\ Counters \in SUBSET Counters
  BY DEF Counters
<1>4. CASE a = "instrcount"
  <2>1. instrcount_code \in Seq(NewInstruction)
    <3>1. /\ literal(8, {s(2)}) \in NewInstruction /\ literal(8, {s(3)}) \in NewInstruction
          /\ literal(4, {v(0)}) \in NewInstruction /\ literal(4, {v(1)}) \in NewInstruction
          /\ literal(4, {v(2)}) \in NewInstruction
      BY <1>2, LiteralType
    <3>2. s_waitcnt({"lgkmcnt"}) \in NewInstruction /\ s_waitcnt({"vmcnt"}) \in NewInstruction
      BY <1>3, WaitType
    <3>3. Instruction("atomic", 8, {v(0), v(1)}, {v(2), s(2), s(3)}, "vmcnt") \in NewInstruction
      BY <1>2, <1>3, NewInstructionType
    <3> QED
      BY <3>1, <3>2, <3>3, EightOf DEF instrcount_code
  <2>2. Len(instrcount_code) = 8
    BY DEF instrcount_code
  <2>3. /\ instrcount_code[1].op = "literal" /\ instrcount_code[2].op = "literal"
        /\ instrcount_code[3].op = "literal" /\ instrcount_code[4].op = "literal"
        /\ instrcount_code[5].op = "literal" /\ instrcount_code[6].op = "wait"
        /\ instrcount_code[7].op = "atomic" /\ instrcount_code[7].arg = "vmcnt"
        /\ instrcount_code[8].op = "wait"
    BY DEF instrcount_code, literal, s_waitcnt, Instruction
  <2>4. \A i \in 1 .. 8 : /\ instrcount_code[i].op = "atomic" <=> i = 7
                          /\ instrcount_code[i].op = "atomic" => instrcount_code[i].arg = "vmcnt"
                          /\ instrcount_code[i].op # "move"
    BY <2>3
  <2> QED
    BY <1>4, <2>1, <2>2, <2>4 DEF middle
<1>5. CASE a # "instrcount"
  <2> DEFINE code(u) == memtrace_code(u)
  <2>1. code(used) \in Seq(NewInstruction)
    <3>1. /\ literal(8, {v(0)}) \in NewInstruction /\ literal(8, {v(1)}) \in NewInstruction
          /\ literal(4, {v(2)}) \in NewInstruction /\ literal(4, {v(3)}) \in NewInstruction
          /\ literal(8, {v(2), v(3)}) \in NewInstruction /\ literal(8, {v(2), vcc}) \in NewInstruction
          /\ literal(4, {v(3), vcc}) \in NewInstruction
      BY <1>1, <1>2, LiteralType
    <3>2. s_waitcnt(Counters) \in NewInstruction
      BY <1>3, WaitType
    <3>3. /\ Instruction("atomic", 8, {v(2)}, {v(0), v(1)}, "vmcnt") \in NewInstruction
          /\ Instruction("move", 4, {v(0)}, {v(used)}, 0) \in NewInstruction
          /\ Instruction("move", 4, {v(1)}, {v(used + 1)}, 0) \in NewInstruction
          /\ Instruction("record", 8, {}, {v(0), v(1), v(2), v(3)}, 0) \in NewInstruction
      BY <1>1, <1>2, <1>3, NewInstructionType
    <3> QED
      BY <3>1, <3>2, <3>3, ThirteenOf DEF memtrace_code
  <2>2. \A u : Len(code(u)) = 13
    BY DEF memtrace_code
  <2>3. \A u : /\ code(u)[1].op = "literal" /\ code(u)[2].op = "literal" /\ code(u)[3].op = "literal"
               /\ code(u)[4].op = "atomic" /\ code(u)[4].arg = "vmcnt"
               /\ code(u)[5].op = "literal" /\ code(u)[6].op = "literal" /\ code(u)[7].op = "wait"
               /\ code(u)[8].op = "literal" /\ code(u)[9].op = "literal"
               /\ code(u)[10].op = "literal" /\ code(u)[11].op = "move" /\ code(u)[11].src # {}
               /\ code(u)[12].op = "move" /\ code(u)[12].src # {} /\ code(u)[13].op = "record"
    BY DEF memtrace_code, literal, s_waitcnt, Instruction
  <2>4. \A u : /\ code(u)[1].size = 8 /\ code(u)[2].size = 8 /\ code(u)[3].size = 4
               /\ code(u)[4].size = 8 /\ code(u)[5].size = 4 /\ code(u)[6].size = 8
               /\ code(u)[7].size = 4 /\ code(u)[8].size = 8 /\ code(u)[9].size = 8
               /\ code(u)[10].size = 4 /\ code(u)[11].size = 4 /\ code(u)[12].size = 4
               /\ code(u)[13].size = 8
    BY DEF memtrace_code, literal, s_waitcnt, Instruction
  <2> HIDE DEF code
  <2>5. \A i \in 1 .. 13 : /\ code(used)[i].op = "atomic" <=> i = 4
                           /\ code(used)[i].op = "atomic" => code(used)[i].arg = "vmcnt"
                           /\ code(used)[i].op = "move" => code(used)[i].src # {}
                           /\ code(used)[i].size = code(0)[i].size
    BY <2>3, <2>4
  <2> QED
    BY <1>5, <2>1, <2>2, <2>5 DEF middle, code
<1> QED
  BY <1>4, <1>5

(* The number of instructions of the new code, and which is the atomic.    *)
Work(a) == IF a = "instrcount" THEN 8 ELSE 13
Length(a) == 28 + Work(a)
AtomicAt(a) == IF a = "instrcount" THEN 22 ELSE 19

(* The new code, instruction by instruction.                               *)
LEMMA InjectedIs ==
  ASSUME NEW a, NEW used \in Nat
  PROVE  /\ injected(a, used) \in Seq(NewInstruction) /\ Len(injected(a, used)) = Length(a)
         /\ \A i \in 1 .. Length(a) : injected(a, used)[i] =
                IF i \in {1, 14, 15, Length(a)} THEN s_waitcnt(Counters)
                ELSE IF i <= 13 THEN saves(used)[i - 1]
                ELSE IF i <= 15 + Work(a) THEN middle(a, used)[i - 15]
                ELSE loads(used)[i - 15 - Work(a)]
<1> DEFINE w == s_waitcnt(Counters)
           A == NewInstruction
           c1 == <<w>>
           c2 == c1 \o saves(used)
           c3 == c2 \o <<w, w>>
           c4 == c3 \o middle(a, used)
           c5 == c4 \o loads(used)
           c6 == c5 \o <<w>>
           n == Work(a)
<1>1. injected(a, used) = c6
  BY DEF injected, middle
<1>2. w \in A
  BY WaitType
<1>3. /\ <<w>> \in Seq(A) /\ Len(<<w>>) = 1 /\ <<w>>[1] = w
      /\ <<w, w>> \in Seq(A) /\ Len(<<w, w>>) = 2 /\ <<w, w>>[1] = w /\ <<w, w>>[2] = w
  BY <1>2
<1>4. /\ saves(used) \in Seq(A) /\ Len(saves(used)) = 12
      /\ loads(used) \in Seq(A) /\ Len(loads(used)) = 12
      /\ middle(a, used) \in Seq(A) /\ Len(middle(a, used)) = n /\ n \in Nat
  BY SavesAre, LoadsAre, MiddleIs DEF Work
<1> HIDE DEF w, A, n
<1>5. /\ c2 \in Seq(A) /\ Len(c2) = 13
      /\ \A i \in 1 .. 13 : c2[i] = IF i <= 1 THEN c1[i] ELSE saves(used)[i - 1]
  <2>1. /\ c2 \in Seq(A) /\ Len(c2) = Len(c1) + Len(saves(used))
        /\ \A i \in 1 .. Len(c1) + Len(saves(used)) :
              c2[i] = IF i <= Len(c1) THEN c1[i] ELSE saves(used)[i - Len(c1)]
    BY <1>3, <1>4, Joined
  <2> QED
    BY <1>3, <1>4, <2>1
<1> HIDE DEF c2
<1>6. /\ c3 \in Seq(A) /\ Len(c3) = 15
      /\ \A i \in 1 .. 15 : c3[i] = IF i <= 13 THEN c2[i] ELSE <<w, w>>[i - 13]
  <2>1. /\ c3 \in Seq(A) /\ Len(c3) = Len(c2) + Len(<<w, w>>)
        /\ \A i \in 1 .. Len(c2) + Len(<<w, w>>) :
              c3[i] = IF i <= Len(c2) THEN c2[i] ELSE <<w, w>>[i - Len(c2)]
    BY <1>3, <1>5, Joined
  <2> QED
    BY <1>3, <1>5, <2>1
<1> HIDE DEF c3
<1>7. /\ c4 \in Seq(A) /\ Len(c4) = 15 + n
      /\ \A i \in 1 .. 15 + n : c4[i] = IF i <= 15 THEN c3[i] ELSE middle(a, used)[i - 15]
  <2>1. /\ c4 \in Seq(A) /\ Len(c4) = Len(c3) + Len(middle(a, used))
        /\ \A i \in 1 .. Len(c3) + Len(middle(a, used)) :
              c4[i] = IF i <= Len(c3) THEN c3[i] ELSE middle(a, used)[i - Len(c3)]
    BY <1>4, <1>6, Joined
  <2> QED
    BY <1>4, <1>6, <2>1
<1> HIDE DEF c4
<1>8. /\ c5 \in Seq(A) /\ Len(c5) = 27 + n
      /\ \A i \in 1 .. 27 + n : c5[i] = IF i <= 15 + n THEN c4[i] ELSE loads(used)[i - (15 + n)]
  <2>1. /\ c5 \in Seq(A) /\ Len(c5) = Len(c4) + Len(loads(used))
        /\ \A i \in 1 .. Len(c4) + Len(loads(used)) :
              c5[i] = IF i <= Len(c4) THEN c4[i] ELSE loads(used)[i - Len(c4)]
    BY <1>4, <1>7, Joined
  <2> QED
    BY <1>4, <1>7, <2>1
<1> HIDE DEF c5
<1>9. /\ c6 \in Seq(A) /\ Len(c6) = 28 + n
      /\ \A i \in 1 .. 28 + n : c6[i] = IF i <= 27 + n THEN c5[i] ELSE <<w>>[i - (27 + n)]
  <2>1. /\ c6 \in Seq(A) /\ Len(c6) = Len(c5) + Len(<<w>>)
        /\ \A i \in 1 .. Len(c5) + Len(<<w>>) :
              c6[i] = IF i <= Len(c5) THEN c5[i] ELSE <<w>>[i - Len(c5)]
    BY <1>3, <1>8, Joined
  <2> QED
    BY <1>3, <1>4, <1>8, <2>1
<1> HIDE DEF c6
<1>10. ASSUME NEW i \in 1 .. 28 + n
       PROVE  c6[i] = IF i \in {1, 14, 15, 28 + n} THEN w
                      ELSE IF i <= 13 THEN saves(used)[i - 1]
                      ELSE IF i <= 15 + n THEN middle(a, used)[i - 15]
                      ELSE loads(used)[i - 15 - n]
  <2>1. CASE i <= 13
    <3>1. c6[i] = c4[i]
      BY <1>4, <1>8, <1>9, <2>1
    <3>2. c4[i] = c2[i]
      <4>1. i \in 1 .. 15 /\ i \in 1 .. 15 + n /\ i <= 15
        BY <1>4, <2>1
      <4>2. c4[i] = c3[i]
        BY <1>7, <4>1
      <4>3. c3[i] = c2[i]
        BY <1>6, <2>1, <4>1
      <4> QED
        BY <4>2, <4>3
    <3>3. i # 1 => c2[i] = saves(used)[i - 1]
      BY <1>5, <2>1
    <3>4. i = 1 => c2[i] = w
      BY <1>3, <1>5, <2>1
    <3>5. i # 14 /\ i # 15 /\ i # 28 + n
      BY <1>4, <2>1
    <3> QED
      BY <2>1, <3>1, <3>2, <3>3, <3>4, <3>5
  <2>2. CASE i \in {14, 15}
    <3>1. c6[i] = c3[i]
      BY <1>4, <1>7, <1>8, <1>9, <2>2
    <3>2. c3[i] = w
      BY <1>3, <1>6, <2>2
    <3> QED
      BY <2>2, <3>1, <3>2
  <2>3. CASE i > 15 /\ i <= 15 + n
    <3>1. c6[i] = c4[i]
      BY <1>4, <1>8, <1>9, <2>3
    <3>2. c4[i] = middle(a, used)[i - 15]
      BY <1>4, <1>7, <2>3
    <3> QED
      BY <1>4, <2>3, <3>1, <3>2
  <2>4. CASE i > 15 + n /\ i <= 27 + n
    <3>1. c6[i] = c5[i]
      BY <1>4, <1>9, <2>4
    <3>2. c5[i] = loads(used)[i - (15 + n)] /\ i - (15 + n) = i - 15 - n
      BY <1>4, <1>8, <2>4
    <3> QED
      BY <1>4, <2>4, <3>1, <3>2
  <2>5. CASE i = 28 + n
    <3>1. ~ (i <= 27 + n) /\ i - (27 + n) = 1
      BY <1>4, <2>5
    <3>2. c6[i] = <<w>>[1]
      BY <1>9, <3>1
    <3> QED
      BY <1>3, <2>5, <3>2
  <2> QED
    BY <1>4, <2>1, <2>2, <2>3, <2>4, <2>5
<1> QED
  BY <1>1, <1>9, <1>10 DEF Length, n, w, A

(* Its operations.                                                         *)
LEMMA InjectedOps ==
  ASSUME NEW a, NEW used \in Nat, NEW i \in 1 .. Length(a)
  PROVE  /\ injected(a, used)[i] \in NewInstruction
         /\ injected(a, used)[i].size \in {4, 8}
         /\ injected(a, used)[i].size = injected(a, 0)[i].size
         /\ injected(a, used)[i].op \in {"wait", "move", "literal", "atomic", "record"}
         /\ injected(a, used)[i].op = "atomic" <=> i = AtomicAt(a)
         /\ injected(a, used)[i].op = "atomic" => injected(a, used)[i].arg = "vmcnt"
         /\ injected(a, used)[i].op = "move" => injected(a, used)[i].src # {}
<1> DEFINE ins(u) == injected(a, u)[i]
<1>1. 0 \in Nat /\ Work(a) \in Nat /\ i \in Nat
  BY DEF Work, Length
<1>2. \A u \in Nat : ins(u) \in NewInstruction
  BY InjectedIs
<1>3. \A u \in Nat : ins(u) = IF i \in {1, 14, 15, Length(a)} THEN s_waitcnt(Counters)
                              ELSE IF i <= 13 THEN saves(u)[i - 1]
                              ELSE IF i <= 15 + Work(a) THEN middle(a, u)[i - 15]
                              ELSE loads(u)[i - 15 - Work(a)]
  BY InjectedIs
<1> HIDE DEF ins
<1>4. CASE i \in {1, 14, 15, Length(a)}
  <2>1. \A u \in Nat : ins(u) = s_waitcnt(Counters)
    BY <1>3, <1>4
  <2>2. ins(used).op = "wait" /\ ins(used).size = 4 /\ ins(0).size = 4
    BY <1>1, <2>1 DEF s_waitcnt, Instruction
  <2>3. i # AtomicAt(a)
    BY <1>4 DEF AtomicAt, Length, Work
  <2> QED
    BY <1>2, <2>2, <2>3 DEF ins
<1>5. CASE i <= 13 /\ i # 1
  <2>1. i - 1 \in 1 .. 12 /\ i \notin {1, 14, 15, Length(a)}
    BY <1>1, <1>5 DEF Length, Work
  <2>2. \A u \in Nat : /\ saves(u)[i - 1].op = "move" /\ saves(u)[i - 1].src # {}
                       /\ saves(u)[i - 1].size = IF i - 1 <= 6 THEN 4 ELSE 8
    <3>1. ASSUME NEW u \in Nat
          PROVE  /\ saves(u)[i - 1].op = "move" /\ saves(u)[i - 1].src # {}
                 /\ saves(u)[i - 1].size = IF i - 1 <= 6 THEN 4 ELSE 8
      <4>1. saves(u)[i - 1] = IF i - 1 <= 6
                THEN Instruction("move", 4, {v(u + (i - 1) - 1)}, {v((i - 1) - 1)}, 0)
                ELSE Instruction("move", 8, {v(u + (i - 1) - 1)}, {s((i - 1) - 7)}, 0)
        BY <2>1, SavesAre
      <4> QED
        BY <4>1, InstructionIs
    <3> QED
      BY <3>1
  <2>3. \A u \in Nat : ins(u) = saves(u)[i - 1]
    BY <1>3, <1>5, <2>1
  <2>4. i # AtomicAt(a)
    BY <1>5 DEF AtomicAt
  <2>5. ins(used).op = "move" /\ ins(used).src # {} /\ ins(used).size = ins(0).size
        /\ ins(used).size \in {4, 8}
    BY <1>1, <2>2, <2>3
  <2> QED
    BY <1>2, <2>4, <2>5 DEF ins
<1>6. CASE i > 15 /\ i <= 15 + Work(a)
  <2>1. i - 15 \in 1 .. Work(a) /\ i \notin {1, 14, 15, Length(a)}
    BY <1>1, <1>6 DEF Length
  <2>2. \A u \in Nat :
          /\ middle(a, u)[i - 15].op = "atomic" <=> i - 15 = IF a = "instrcount" THEN 7 ELSE 4
          /\ middle(a, u)[i - 15].op = "atomic" => middle(a, u)[i - 15].arg = "vmcnt"
          /\ middle(a, u)[i - 15].op = "move" => middle(a, u)[i - 15].src # {}
          /\ middle(a, u)[i - 15].size = middle(a, 0)[i - 15].size
    BY <2>1, MiddleIs DEF Work
  <2>3. \A u \in Nat : ins(u) = middle(a, u)[i - 15]
    BY <1>1, <1>3, <1>6, <2>1
  <2>4. (i - 15 = IF a = "instrcount" THEN 7 ELSE 4) <=> i = AtomicAt(a)
    BY <1>1 DEF AtomicAt
  <2>5. /\ ins(used).op = "atomic" <=> i = AtomicAt(a)
        /\ ins(used).op = "atomic" => ins(used).arg = "vmcnt"
        /\ ins(used).op = "move" => ins(used).src # {}
        /\ ins(used).size = ins(0).size
    BY <1>1, <2>2, <2>3, <2>4
  <2>6. ins(used).op \in {"wait", "move", "literal", "atomic", "record"} /\ ins(used).size \in {4, 8}
    BY <1>2 DEF NewInstruction
  <2> QED
    BY <1>2, <2>5, <2>6 DEF ins
<1>7. CASE i > 15 + Work(a) /\ i # Length(a)
  <2>1. i - 15 - Work(a) \in 1 .. 12 /\ i \notin {1, 14, 15, Length(a)}
    BY <1>1, <1>7 DEF Length
  <2>2. \A u \in Nat : /\ loads(u)[i - 15 - Work(a)].op = "move" /\ loads(u)[i - 15 - Work(a)].src # {}
                       /\ loads(u)[i - 15 - Work(a)].size = IF i - 15 - Work(a) <= 6 THEN 4 ELSE 8
    <3>1. ASSUME NEW u \in Nat
          PROVE  /\ loads(u)[i - 15 - Work(a)].op = "move" /\ loads(u)[i - 15 - Work(a)].src # {}
                 /\ loads(u)[i - 15 - Work(a)].size = IF i - 15 - Work(a) <= 6 THEN 4 ELSE 8
      <4>1. loads(u)[i - 15 - Work(a)] = IF i - 15 - Work(a) <= 6
                THEN Instruction("move", 4, {v((i - 15 - Work(a)) - 1)}, {v(u + (i - 15 - Work(a)) - 1)}, 0)
                ELSE Instruction("move", 8, {s((i - 15 - Work(a)) - 7)}, {v(u + (i - 15 - Work(a)) - 1)}, 0)
        BY <2>1, LoadsAre
      <4> QED
        BY <4>1, InstructionIs
    <3> QED
      BY <3>1
  <2>3. \A u \in Nat : ins(u) = loads(u)[i - 15 - Work(a)]
    BY <1>1, <1>3, <1>7, <2>1
  <2>4. i # AtomicAt(a)
    BY <1>1, <1>7 DEF AtomicAt, Work
  <2>5. ins(used).op = "move" /\ ins(used).src # {} /\ ins(used).size = ins(0).size
        /\ ins(used).size \in {4, 8}
    BY <1>1, <2>2, <2>3
  <2> QED
    BY <1>2, <2>4, <2>5 DEF ins
<1> QED
  BY <1>1, <1>4, <1>5, <1>6, <1>7

(* Where they begin does not depend on the registers.                      *)
LEMMA SameStarts ==
  ASSUME NEW a, NEW used \in Nat, NEW i \in 1 .. Length(a) + 1
  PROVE  StartOf(injected(a, used), i) = StartOf(injected(a, 0), i)
<1>1. Length(a) \in Nat
  BY DEF Length, Work
<1>2. \A j \in 1 .. i - 1 : injected(a, used)[j].size = injected(a, 0)[j].size
  BY <1>1, InjectedOps
<1>3. {j \in 1 .. i - 1 : injected(a, used)[j].size = 8} = {j \in 1 .. i - 1 : injected(a, 0)[j].size = 8}
  BY <1>2
<1> QED
  BY <1>3 DEF StartOf

-----------------------------------------------------------------------------
(* .text, rewritten *)

New == injected(app, allotment.last)
Here(i) == section_size + StartOf(New, i)

LEMMA UsedIs ==
  ASSUME Inputs
  PROVE  /\ allotment.last \in Nat /\ allotment.last \in used_registers
         /\ Length(app) \in Nat
  BY InstrumentAssumption DEF Inputs, used_registers, Length, Work

(* The new code is laid out behind .text, and the copy behind it.          *)
LEMMA NewText ==
  ASSUME Inputs
  PROVE  /\ new_text[app][allotment.last] = Layout(New)
         /\ DOMAIN Layout(New) = {StartOf(New, i) : i \in 1 .. Length(app)}
         /\ \A i \in 1 .. Length(app) : Layout(New)[StartOf(New, i)] = New[i]
         /\ Here(1) = section_size /\ Here(Length(app) + 1) = copy_at
         /\ \A i \in 1 .. Length(app) : /\ Here(i) \in Nat /\ New[i].size \in {4, 8}
                                        /\ Here(i + 1) = Here(i) + New[i].size
<1>1. /\ New \in Seq(NewInstruction) /\ Len(New) = Length(app)
      /\ \A i \in 1 .. Length(app) : New[i].size \in {4, 8}
  BY UsedIs, InjectedIs, InjectedOps DEF New
<1>2. Sized(New)
  BY <1>1 DEF Sized
<1>3. new_text[app][allotment.last] = Layout(New)
  BY UsedIs DEF new_text, New, Inputs
<1>4. new_size[app] = StartOf(New, Length(app) + 1)
  <2>1. new_size[app] = Bytes(injected(app, 0))
    BY DEF new_size, Inputs
  <2>2. Len(injected(app, 0)) = Length(app)
    BY InjectedIs
  <2>3. Length(app) + 1 \in 1 .. Length(app) + 1
    BY UsedIs
  <2> QED
    BY <2>1, <2>2, <2>3, UsedIs, SameStarts DEF Bytes, New
<1>5. copy_at = Here(Length(app) + 1)
  BY <1>4 DEF copy_at, Here
<1>6. Here(1) = section_size
  BY StartFirst, SectionBehind DEF Here
<1>7. \A i \in 1 .. Length(app) : /\ Here(i) \in Nat
                                  /\ Here(i + 1) = Here(i) + New[i].size
  <2>1. \A i \in 1 .. Length(app) : /\ StartOf(New, i) \in Nat
                                    /\ StartOf(New, i + 1) = StartOf(New, i) + New[i].size
    BY <1>1, StartNext
  <2>2. section_size \in Nat
    BY SectionBehind
  <2> HIDE DEF New
  <2>3. ASSUME NEW x \in Nat, NEW i, NEW z \in {4, 8},
               StartOf(New, i) = x, StartOf(New, i + 1) = x + z
        PROVE  Here(i) \in Nat /\ Here(i + 1) = Here(i) + z
    BY <2>2, <2>3 DEF Here
  <2> QED
    BY <1>1, <2>1, <2>3
<1> QED
  BY <1>1, <1>2, <1>3, <1>5, <1>6, <1>7, LayoutIs

(* The places of the new code, in order.                                   *)
LEMMA HereApart ==
  ASSUME Inputs, NEW i \in 1 .. Length(app)
  PROVE  /\ section_size <= Here(i) /\ Here(i) < copy_at /\ copy_at \in Nat
         /\ \A j \in 1 .. Length(app) + 1 : i < j => Here(i) + New[i].size <= Here(j)
         /\ \A j \in 1 .. Length(app) : Here(i) = Here(j) => i = j
<1>0. /\ Length(app) \in Nat
      /\ \A j \in 1 .. Length(app) : j \in Nat \ {0} /\ New[j].size \in {4, 8}
      /\ section_size \in Nat
      /\ Here(Length(app) + 1) = copy_at
  BY UsedIs, NewText, SectionBehind
<1>1. \A j \in 1 .. Length(app) : StartOf(New, j) \in Nat
  BY <1>0, StartNext
<1>2. ASSUME NEW m \in 1 .. Length(app), NEW j \in 1 .. Length(app) + 1, m < j
      PROVE  /\ Here(m) + New[m].size <= Here(j) /\ Here(j) \in Nat
  <2>1. StartOf(New, m) + New[m].size <= StartOf(New, j)
    BY <1>0, <1>2, StartApart
  <2>2. j = Length(app) + 1 => StartOf(New, j) \in Nat
    BY <1>0, StartIs
  <2>3. StartOf(New, j) \in Nat /\ StartOf(New, m) \in Nat
    BY <1>0, <1>1, <2>2
  <2>4. ASSUME NEW x \in Nat, NEW y \in Nat, NEW z \in {4, 8}, x + z <= y
        PROVE  section_size + x + z <= section_size + y /\ section_size + y \in Nat
    BY <1>0, <2>4
  <2> QED
    BY <1>0, <2>1, <2>3, <2>4 DEF Here
<1>3. section_size <= Here(i) /\ Here(i) \in Nat
  <2>1. ASSUME NEW x \in Nat PROVE section_size <= section_size + x /\ section_size + x \in Nat
    BY <1>0, <2>1
  <2> QED
    BY <1>1, <2>1 DEF Here
<1>4. Here(i) < copy_at /\ copy_at \in Nat
  <2>1. Here(i) + New[i].size <= copy_at /\ copy_at \in Nat
    BY <1>0, <1>2
  <2> QED
    BY <1>0, <1>3, <2>1
<1>5. ASSUME NEW j \in 1 .. Length(app), Here(i) = Here(j) PROVE i = j
  <2>1. \A m, n \in 1 .. Length(app) : m < n => Here(m) # Here(n)
    <3>1. ASSUME NEW m \in 1 .. Length(app), NEW n \in 1 .. Length(app), m < n
          PROVE  Here(m) # Here(n)
      <4>1. Here(m) + New[m].size <= Here(n) /\ Here(n) \in Nat
        BY <1>0, <1>2, <3>1
      <4>2. Here(m) \in Nat
        BY NewText
      <4> QED
        BY <1>0, <4>1, <4>2
    <3> QED
      BY <3>1
  <2> QED
    BY <1>0, <1>5, <2>1
<1> QED
  BY <1>2, <1>3, <1>4, <1>5

(* One function over another, and one moved.                               *)
LEMMA OverIs ==
  ASSUME NEW f, NEW g
  PROVE  /\ DOMAIN Over(f, g) = DOMAIN f \cup DOMAIN g
         /\ \A a \in DOMAIN f : Over(f, g)[a] = f[a]
         /\ \A a \in DOMAIN g : a \notin DOMAIN f => Over(f, g)[a] = g[a]
  BY DEF Over
LEMMA MoveIs ==
  ASSUME NEW f, NEW by \in Nat, DOMAIN f \subseteq Nat
  PROVE  /\ DOMAIN Move(f, by) = {by + b : b \in DOMAIN f}
         /\ \A b \in DOMAIN f : Move(f, by)[by + b] = f[b]
<1>1. \A b \in DOMAIN f : (by + b) - by = b
  OBVIOUS
<1> QED
  BY <1>1 DEF Move

(* What is where in the rewritten .text.                                   *)
LEMMA PatchedIs ==
  ASSUME Inputs, Exists, regsUsed = allotment.last
  PROVE  /\ DOMAIN Patched = DOMAIN original \cup {offset + 4 : x \in {y \in {1} : instr.size = 8}}
                             \cup {Here(i) : i \in 1 .. Length(app)}
                             \cup {copy_at, copy_at + instr.size}
         /\ Patched[offset] = s_branch(offset, section_size)
         /\ instr.size = 8 => Patched[offset + 4] = s_nop
         /\ \A i \in 1 .. Length(app) : Patched[Here(i)] = New[i]
         /\ Patched[copy_at] = instr
         /\ Patched[copy_at + instr.size] = jumpback
         /\ \A a \in DOMAIN original \ {offset} : Patched[a] = original[a]
<1> DEFINE moved == Move(new_text[app][regsUsed], section_size)
           back == [a \in {copy_at, copy_at + instr.size} |-> IF a = copy_at THEN instr ELSE jumpback]
<1>1. /\ offset \in DOMAIN original /\ offset \in Nat /\ instr.size \in {4, 8}
      /\ instr.size = 8 => offset + 4 \notin DOMAIN original
      /\ section_size \in Nat
      /\ \A a \in DOMAIN original : a \in Nat /\ a < section_size
      /\ offset + instr.size <= section_size
  <2>1. offset \in DOMAIN original
    BY OffsetIn
  <2>2. \A a \in DOMAIN original : /\ a \in Nat /\ original[a].size \in {4, 8}
                                   /\ original[a].size = 8 => a + 4 \notin DOMAIN original
    BY InKernel
  <2>3. section_size \in Nat /\ \A a \in DOMAIN original : a + original[a].size <= section_size
    BY SectionBehind
  <2>4. \A a \in DOMAIN original : a < section_size
    BY <2>2, <2>3
  <2> QED
    BY <2>1, <2>2, <2>3, <2>4 DEF instr
<1>2. /\ DOMAIN moved = {Here(i) : i \in 1 .. Length(app)}
      /\ \A i \in 1 .. Length(app) : moved[Here(i)] = New[i]
  <2>1. /\ DOMAIN Layout(New) = {StartOf(New, i) : i \in 1 .. Length(app)}
        /\ \A i \in 1 .. Length(app) : Layout(New)[StartOf(New, i)] = New[i]
        /\ moved = Move(Layout(New), section_size)
    BY NewText
  <2>2. \A i \in 1 .. Length(app) : StartOf(New, i) \in Nat
    <3>1. \A i \in 1 .. Length(app) : i \in Nat \ {0} /\ New[i].size \in {4, 8}
      BY NewText, UsedIs
    <3> QED
      BY <3>1, StartNext
  <2>3. DOMAIN Layout(New) \subseteq Nat
    BY <2>1, <2>2
  <2> HIDE DEF moved
  <2>4. /\ DOMAIN moved = {section_size + b : b \in DOMAIN Layout(New)}
        /\ \A b \in DOMAIN Layout(New) : moved[section_size + b] = Layout(New)[b]
    BY <1>1, <2>1, <2>3, MoveIs
  <2> QED
    BY <2>1, <2>4 DEF Here
<1>3. /\ DOMAIN back = {copy_at, copy_at + instr.size}
      /\ back[copy_at] = instr /\ back[copy_at + instr.size] = jumpback
  <2>1. copy_at \in Nat
    <3>1. 1 \in 1 .. Length(app)
      BY DEF Length, Work
    <3> QED
      BY <3>1, HereApart
  <2>2. copy_at + instr.size # copy_at
    BY <1>1, <2>1
  <2> QED
    BY <2>2
<1>4. /\ DOMAIN jumpto = {offset} \cup {offset + 4 : x \in {y \in {1} : instr.size = 8}}
      /\ jumpto[offset] = s_branch(offset, section_size)
      /\ instr.size = 8 => jumpto[offset + 4] = s_nop
  <2> DEFINE j == [a \in {offset} |-> s_branch(offset, section_size)]
             n == [a \in {offset + 4} |-> s_nop]
  <2>1. DOMAIN j = {offset} /\ j[offset] = s_branch(offset, section_size)
    OBVIOUS
  <2>2. DOMAIN n = {offset + 4} /\ n[offset + 4] = s_nop
    OBVIOUS
  <2>3. jumpto = IF instr.size = 8 THEN Over(n, j) ELSE j
    BY DEF jumpto
  <2>4. offset # offset + 4
    BY <1>1
  <2> HIDE DEF j, n
  <2>5. CASE instr.size = 8
    <3>1. /\ DOMAIN Over(n, j) = DOMAIN n \cup DOMAIN j
          /\ Over(n, j)[offset + 4] = n[offset + 4]
          /\ Over(n, j)[offset] = j[offset]
      <4>1. /\ DOMAIN Over(n, j) = DOMAIN n \cup DOMAIN j
            /\ \A a \in DOMAIN n : Over(n, j)[a] = n[a]
            /\ \A a \in DOMAIN j : a \notin DOMAIN n => Over(n, j)[a] = j[a]
        BY OverIs
      <4> QED
        BY <2>1, <2>2, <2>4, <4>1
    <3> QED
      BY <2>1, <2>2, <2>3, <2>5, <3>1
  <2>6. CASE instr.size # 8
    BY <2>1, <2>3, <2>6
  <2> QED
    BY <2>5, <2>6
<1>5. \A i \in 1 .. Length(app) : section_size <= Here(i) /\ Here(i) < copy_at /\ copy_at \in Nat
                                  /\ Here(i) \in Nat
  BY HereApart, NewText
<1>6. section_size <= copy_at /\ copy_at \in Nat
  <2>1. 1 \in 1 .. Length(app)
    BY DEF Length, Work
  <2> QED
    BY <1>1, <1>5, <2>1
<1> HIDE DEF moved, back
<1>7. /\ appended = Over(moved, back)
      /\ DOMAIN appended = DOMAIN moved \cup DOMAIN back
      /\ \A i \in 1 .. Length(app) : appended[Here(i)] = New[i]
      /\ appended[copy_at] = instr /\ appended[copy_at + instr.size] = jumpback
  <2>1. appended = Over(moved, back)
    BY DEF appended, moved, back
  <2>2. copy_at \notin DOMAIN moved /\ copy_at + instr.size \notin DOMAIN moved
    BY <1>1, <1>2, <1>5, <1>6
  <2> QED
    <3>1. /\ DOMAIN Over(moved, back) = DOMAIN moved \cup DOMAIN back
          /\ \A a \in DOMAIN moved : Over(moved, back)[a] = moved[a]
          /\ \A a \in DOMAIN back : a \notin DOMAIN moved => Over(moved, back)[a] = back[a]
      BY OverIs
    <3> QED
      BY <1>2, <1>3, <2>1, <2>2, <3>1
<1>8. \A a \in DOMAIN appended : a \in Nat /\ section_size <= a
  BY <1>1, <1>2, <1>3, <1>5, <1>6, <1>7
<1>9. \A a \in DOMAIN jumpto : a \in Nat /\ a < section_size
  BY <1>1, <1>4
<1>10. /\ Patched = Over(jumpto, Over(appended, original))
       /\ DOMAIN Patched = DOMAIN jumpto \cup DOMAIN appended \cup DOMAIN original
       /\ \A a \in DOMAIN jumpto : Patched[a] = jumpto[a]
       /\ \A a \in DOMAIN appended : Patched[a] = appended[a]
       /\ \A a \in DOMAIN original : a \notin DOMAIN jumpto => Patched[a] = original[a]
  <2>1. Patched = Over(jumpto, Over(appended, original))
    BY DEF Patched
  <2>2. \A a \in DOMAIN appended : a \notin DOMAIN jumpto
    BY <1>1, <1>8, <1>9
  <2>3. \A a \in DOMAIN original : a \notin DOMAIN appended
    BY <1>1, <1>8
  <2>4. PICK g : g = Over(appended, original)
    OBVIOUS
  <2>5. /\ DOMAIN g = DOMAIN appended \cup DOMAIN original
        /\ \A a \in DOMAIN appended : g[a] = appended[a]
        /\ \A a \in DOMAIN original : a \notin DOMAIN appended => g[a] = original[a]
    <3>1. /\ DOMAIN Over(appended, original) = DOMAIN appended \cup DOMAIN original
          /\ \A a \in DOMAIN appended : Over(appended, original)[a] = appended[a]
          /\ \A a \in DOMAIN original : a \notin DOMAIN appended => Over(appended, original)[a] = original[a]
      BY OverIs
    <3> QED
      BY <2>4, <3>1
  <2>6. /\ Patched = Over(jumpto, g)
        /\ DOMAIN Over(jumpto, g) = DOMAIN jumpto \cup DOMAIN g
        /\ \A a \in DOMAIN jumpto : Over(jumpto, g)[a] = jumpto[a]
        /\ \A a \in DOMAIN g : a \notin DOMAIN jumpto => Over(jumpto, g)[a] = g[a]
    <3>1. Patched = Over(jumpto, g)
      BY <2>1, <2>4
    <3>2. /\ DOMAIN Over(jumpto, g) = DOMAIN jumpto \cup DOMAIN g
          /\ \A a \in DOMAIN jumpto : Over(jumpto, g)[a] = jumpto[a]
          /\ \A a \in DOMAIN g : a \notin DOMAIN jumpto => Over(jumpto, g)[a] = g[a]
      BY OverIs
    <3> QED
      BY <3>1, <3>2
  <2> QED
    BY <2>1, <2>2, <2>3, <2>5, <2>6
<1>11. \A a \in DOMAIN original \ {offset} : a \notin DOMAIN jumpto
  BY <1>1, <1>4
<1> QED
  BY <1>1, <1>2, <1>3, <1>4, <1>7, <1>10, <1>11

-----------------------------------------------------------------------------
(* Branches *)

(* A branch that is near enough leads where it was meant to, in either     *)
(* direction, although its distance is cut to the width of simm16.         *)
LEMMA BranchReaches ==
  ASSUME NEW b \in Nat, NEW t \in Nat, NEW q \in Int, t - b - 4 = 4 * q,
         - SimmWrap <= 2 * q, 2 * q < SimmWrap
  PROVE  b + Relative(s_branch(b, t).arg) = t
<1>1. PICK h \in Nat \ {0} : SimmWrap = 2 * h /\ SimmWrap \div 2 = h
  <2>1. SimmWrap \in Nat \ {0} /\ SimmWrap % 2 = 0
    BY WaveAssumption
  <2>2. SimmWrap \div 2 \in Int /\ SimmWrap = 2 * (SimmWrap \div 2) + (SimmWrap % 2)
    BY <2>1, DivMod
  <2>3. PICK h \in Int : h = SimmWrap \div 2
    BY <2>2
  <2>4. SimmWrap = 2 * h /\ h \in Nat \ {0}
    BY <2>1, <2>2, <2>3
  <2> QED
    BY <2>3, <2>4
<1>2. PICK m \in Nat \ {0} : AddressWrap = m * (4 * SimmWrap)
  <2>1. PICK k \in 1 .. AddressWrap : AddressWrap = k * (4 * SimmWrap)
    BY InstrumentAssumption
  <2>2. AddressWrap \in Int
    BY <1>1, <2>1
  <2> QED
    BY <2>1, <2>2
<1>3. PICK W \in Nat \ {0} : W = SimmWrap * m /\ AddressWrap = 4 * W /\ SimmWrap <= W
  <2>1. SimmWrap * m \in Nat \ {0}
    BY <1>1, PosProd
  <2>2. SimmWrap <= SimmWrap * m
    BY <1>1
  <2>3. m * (4 * SimmWrap) = 4 * (SimmWrap * m)
    BY <1>1
  <2> QED
    BY <1>2, <2>1, <2>2, <2>3
<1>4. PICK arg : arg = s_branch(b, t).arg /\ arg = (((4 * q) % (4 * W)) \div 4) % SimmWrap
  BY <1>3 DEF s_branch, Instruction
<1>5. CASE q >= 0
  <2>1. (4 * q) % (4 * W) = 4 * q
    <3>1. /\ 4 * W \in Nat \ {0} /\ 4 * q \in 0 .. 4 * W - 1 /\ 4 * q \in Int
          /\ 4 * q = (4 * W) * 0 + 4 * q /\ 0 \in Int
      BY <1>1, <1>3, <1>5
    <3> QED
      BY <3>1, DivUnique
  <2>2. (4 * q) \div 4 = q
    BY <1>5
  <2>3. q % SimmWrap = q
    <3>1. /\ SimmWrap \in Nat \ {0} /\ q \in 0 .. SimmWrap - 1
          /\ q = SimmWrap * 0 + q /\ 0 \in Int
      BY <1>1, <1>5
    <3> QED
      BY <3>1, DivUnique
  <2>4. arg = q /\ q < h
    BY <1>1, <1>4, <2>1, <2>2, <2>3
  <2>5. Relative(arg) = 4 + 4 * q
    BY <1>1, <2>4 DEF Relative
  <2> QED
    BY <1>4, <2>5
<1>6. CASE q < 0
  <2>1. (4 * q) % (4 * W) = 4 * (W + q)
    <3>1. /\ 4 * W \in Nat \ {0} /\ 4 * (W + q) \in 0 .. 4 * W - 1 /\ 4 * q \in Int
          /\ 4 * q = (4 * W) * (-1) + 4 * (W + q) /\ -1 \in Int
      BY <1>1, <1>3, <1>6
    <3> QED
      BY <3>1, DivUnique
  <2>2. (4 * (W + q)) \div 4 = W + q
    BY <1>1, <1>3, <1>6
  <2>3. (W + q) % SimmWrap = SimmWrap + q
    <3>1. m - 1 \in Int /\ SimmWrap + q \in 0 .. SimmWrap - 1 /\ W + q \in Int /\ SimmWrap \in Nat \ {0}
      BY <1>1, <1>3, <1>6
    <3>2. SimmWrap * (m - 1) + SimmWrap = SimmWrap * m
      <4>1. SimmWrap * (m - 1) + SimmWrap * 1 = SimmWrap * ((m - 1) + 1)
        BY <1>1, Distr
      <4> QED
        BY <1>1, <4>1
    <3>3. W + q = SimmWrap * (m - 1) + (SimmWrap + q)
      BY <1>1, <1>3, <3>1, <3>2
    <3>4. PICK S \in Nat \ {0}, r \in Int, u \in Int, x \in Int :
              S = SimmWrap /\ u = m - 1 /\ r = SimmWrap + q /\ x = W + q
      BY <1>1, <3>1
    <3>5. x = S * u + r /\ r \in 0 .. S - 1
      BY <3>1, <3>3, <3>4
    <3>6. x % S = r
      BY <3>5, DivUnique
    <3> QED
      BY <3>4, <3>6
  <2>4. arg = SimmWrap + q /\ ~ (SimmWrap + q < h)
    BY <1>1, <1>4, <2>1, <2>2, <2>3
  <2>5. Relative(arg) = 4 + 4 * q
    BY <1>1, <2>4 DEF Relative
  <2> QED
    BY <1>4, <2>5
<1> QED
  BY <1>5, <1>6

(* Both branches of the rewritten .text are near enough in InReach.        *)
LEMMA JumpsReach ==
  ASSUME Inputs, Exists, InReach
  PROVE  /\ offset + Relative(s_branch(offset, section_size).arg) = section_size
         /\ (copy_at + instr.size) + Relative(jumpback.arg) = offset + 4
<1>1. /\ offset \in Nat /\ instr.size \in {4, 8} /\ offset + instr.size <= section_size
      /\ section_size \in Nat /\ section_size <= copy_at /\ copy_at \in Nat
      /\ \E y \in Nat : offset = 4 * y
      /\ \E x \in Nat : section_size = 4 * x
  <2>1. 1 \in 1 .. Length(app)
    BY DEF Length, Work
  <2>2. section_size <= copy_at /\ copy_at \in Nat
    <3>1. section_size <= Here(1) /\ Here(1) < copy_at /\ copy_at \in Nat
      BY <2>1, HereApart
    <3>2. Here(1) \in Nat /\ section_size \in Nat
      BY <2>1, NewText, SectionBehind
    <3> QED
      BY <3>1, <3>2
  <2> QED
    BY <2>2, OffsetIn, InKernel, SectionBehind DEF instr
<1>2. \E z \in Nat : copy_at = 4 * z
  <2>1. copy_at = section_size + StartOf(New, Length(app) + 1)
    BY NewText DEF Here
  <2>2. Length(app) + 1 \in Nat \ {0}
    BY UsedIs
  <2>3. PICK u \in Nat : StartOf(New, Length(app) + 1) = 4 * u
    BY <2>2, StartAligned
  <2>4. PICK x \in Nat : section_size = 4 * x
    BY <1>1
  <2>5. copy_at = 4 * (x + u)
    BY <2>1, <2>3, <2>4
  <2> QED
    BY <2>5
<1>3. PICK x \in Nat, y \in Nat, z \in Nat : section_size = 4 * x /\ offset = 4 * y /\ copy_at = 4 * z
  BY <1>1, <1>2
<1>4. PICK n \in {1, 2} : instr.size = 4 * n
  <2>1. 4 = 4 * 1 /\ 8 = 4 * 2
    OBVIOUS
  <2> QED
    BY <1>1, <2>1
<1>5. SimmWrap \in Nat \ {0}
  BY WaveAssumption
<1>6. 4 * z + 4 * n - 4 * y <= 2 * SimmWrap
  BY <1>3, <1>4 DEF InReach
<1>7. offset + Relative(s_branch(offset, section_size).arg) = section_size
  <2>1. /\ section_size - offset - 4 = 4 * (x - y - 1) /\ x - y - 1 \in Int
        /\ - SimmWrap <= 2 * (x - y - 1) /\ 2 * (x - y - 1) < SimmWrap
    BY <1>1, <1>3, <1>4, <1>5, <1>6
  <2> QED
    BY <1>1, <2>1, BranchReaches
<1>8. (copy_at + instr.size) + Relative(jumpback.arg) = offset + 4
  <2>1. PICK b \in Nat, t \in Nat : b = copy_at + instr.size /\ t = offset + 4
    BY <1>1
  <2>2. /\ t - b - 4 = 4 * (y - z - n) /\ y - z - n \in Int
        /\ - SimmWrap <= 2 * (y - z - n) /\ 2 * (y - z - n) < SimmWrap
    BY <1>1, <1>3, <1>4, <1>5, <1>6, <2>1
  <2>3. b + Relative(s_branch(b, t).arg) = t
    BY <2>2, BranchReaches
  <2> QED
    BY <2>1, <2>3 DEF jumpback
<1> QED
  BY <1>7, <1>8

-----------------------------------------------------------------------------
(* Types *)

Value == 0 .. Values - 1 \cup {Foreign}

(* .text is as it was until it is rewritten. *)
TextIs == text = IF host = "patched" /\ Exists THEN Patched ELSE original
Described ==
    IF host = "loaded" THEN regsUsed = 0 /\ granted = 0
    ELSE regsUsed = allotment.last /\ granted = vgprs(allotment.own)
Shape ==
    /\ Inputs
    /\ host \in {"loaded", "descriptors", "patched", "aborted"}
    /\ status \in {"host", "run", "done", "fault"}
    /\ host # "patched" => status = "host"
    /\ status = "host" => pc = 0
    /\ Described
    /\ TextIs
    /\ DOMAIN regs \subseteq Registers(granted)
    /\ \A r \in DOMAIN regs : regs[r] \in Value
    /\ \A p \in pending : p.counter \in Counters /\ p.value \in Value
    /\ count \in Nat /\ executed \in 0 .. MaxCount

(* An instruction has the operands its operation needs.                    *)
Proper(i) ==
    /\ i.size \in {4, 8}
    /\ i.op \in {"alu", "move", "load", "store"} => i.src # {}
    /\ i.op \in {"load", "atomic"} => i.arg \in Counters

(* All of .text is proper, and no instruction is inside another.           *)
LEMMA TextProper ==
  ASSUME Shape, NEW a \in DOMAIN text
  PROVE  Proper(text[a]) /\ (text[a].size = 8 => a + 4 \notin DOMAIN text)
<1>1. \A b \in DOMAIN original : /\ Proper(original[b]) /\ b \in Nat
                                 /\ original[b].size = 8 => b + 4 \notin DOMAIN original
                                 /\ b + original[b].size <= section_size
  <2>1. \A b \in DOMAIN original : /\ IsInstruction(original[b]) /\ b \in Nat
                                   /\ original[b].size = 8 => b + 4 \notin DOMAIN original
    BY InKernel DEF Shape
  <2>2. \A b \in DOMAIN original : Proper(original[b])
    BY <2>1 DEF IsInstruction, Proper
  <2> QED
    BY <2>1, <2>2, SectionBehind DEF Shape
<1>2. CASE ~ (host = "patched" /\ Exists)
  BY <1>1, <1>2 DEF Shape, TextIs
<1>3. CASE host = "patched" /\ Exists
  <2>1. text = Patched /\ regsUsed = allotment.last /\ Inputs
    BY <1>3 DEF Shape, TextIs, Described
  <2>2. /\ DOMAIN text = DOMAIN original \cup {offset + 4 : x \in {y \in {1} : instr.size = 8}}
                         \cup {Here(i) : i \in 1 .. Length(app)} \cup {copy_at, copy_at + instr.size}
        /\ text[offset] = s_branch(offset, section_size)
        /\ instr.size = 8 => text[offset + 4] = s_nop
        /\ \A i \in 1 .. Length(app) : text[Here(i)] = New[i]
        /\ text[copy_at] = instr
        /\ text[copy_at + instr.size] = jumpback
        /\ \A b \in DOMAIN original \ {offset} : text[b] = original[b]
    BY <1>3, <2>1, PatchedIs
  <2>3. /\ offset \in DOMAIN original /\ instr = original[offset] /\ Proper(instr)
        /\ offset \in Nat /\ offset + instr.size <= section_size
        /\ instr.size = 8 => offset + 4 \notin DOMAIN original
        /\ section_size \in Nat
    BY <1>1, <1>3, <2>1, OffsetIn, SectionBehind DEF instr
  <2>4. \A i \in 1 .. Length(app) :
            /\ section_size <= Here(i) /\ Here(i) < copy_at /\ Here(i) \in Nat
            /\ Proper(New[i]) /\ Here(i) + New[i].size <= copy_at
            /\ \A j \in 1 .. Length(app) : i < j => Here(i) + New[i].size <= Here(j)
    <3>1. Length(app) + 1 \in 1 .. Length(app) + 1 /\ copy_at = Here(Length(app) + 1)
          /\ \A i \in 1 .. Length(app) : i < Length(app) + 1
      BY <2>1, UsedIs, NewText
    <3>2. \A i \in 1 .. Length(app) :
            /\ section_size <= Here(i) /\ Here(i) < copy_at /\ Here(i) \in Nat
            /\ Here(i) + New[i].size <= copy_at
            /\ \A j \in 1 .. Length(app) : i < j => Here(i) + New[i].size <= Here(j)
      BY <2>1, <3>1, HereApart, NewText
    <3>3. \A i \in 1 .. Length(app) : Proper(New[i])
      BY <2>1, UsedIs, InjectedOps DEF Proper, New, Counters
    <3> QED
      BY <3>2, <3>3
  <2>5. copy_at \in Nat /\ section_size < copy_at
    <3>1. 1 \in 1 .. Length(app)
      BY DEF Length, Work
    <3>2. section_size <= Here(1) /\ Here(1) < copy_at /\ Here(1) \in Nat
      BY <2>4, <3>1
    <3>3. copy_at \in Nat
      BY <2>1, <3>1, HereApart
    <3> QED
      BY <2>3, <3>2, <3>3
  <2>6. /\ text[offset].size = 4 /\ Proper(text[offset])
        /\ instr.size = 8 => text[offset + 4].size = 4 /\ Proper(text[offset + 4])
        /\ text[copy_at + instr.size].size = 4 /\ Proper(text[copy_at + instr.size])
    BY <2>2 DEF s_branch, s_nop, jumpback, Instruction, Proper
  <2>7. CASE a = offset
    BY <2>6, <2>7
  <2>8. CASE instr.size = 8 /\ a = offset + 4
    BY <2>6, <2>8
  <2>9. CASE a \in DOMAIN original \ {offset}
    <3>1. text[a] = original[a] /\ Proper(text[a])
      BY <1>1, <2>2, <2>9
    <3>2. ASSUME text[a].size = 8 PROVE a + 4 \notin DOMAIN text
      <4>1. a + 4 \notin DOMAIN original /\ a \in Nat /\ a + 8 <= section_size
        BY <1>1, <2>9, <3>1, <3>2
      <4>2. a + 4 # offset + 4
        BY <2>3, <2>9, <4>1
      <4>3. \A i \in 1 .. Length(app) : a + 4 # Here(i)
        BY <2>3, <2>4, <4>1
      <4>4. a + 4 # copy_at /\ a + 4 # copy_at + instr.size
        BY <2>3, <2>5, <4>1 DEF Proper
      <4> QED
        BY <2>2, <4>1, <4>2, <4>3, <4>4
    <3> QED
      BY <3>1, <3>2
  <2>10. CASE \E i \in 1 .. Length(app) : a = Here(i)
    <3>1. PICK i \in 1 .. Length(app) : a = Here(i)
      BY <2>10
    <3>2. text[a] = New[i] /\ Proper(New[i])
      BY <2>2, <2>4, <3>1
    <3>3. ASSUME text[a].size = 8 PROVE a + 4 \notin DOMAIN text
      <4>1. a \in Nat /\ section_size <= a /\ a + 8 <= copy_at
        BY <2>4, <3>1, <3>2, <3>3
      <4>2. a + 4 \notin DOMAIN original
        <5>1. \A b \in DOMAIN original : b < section_size
          BY <1>1, <2>3 DEF Proper
        <5> QED
          BY <2>3, <4>1, <5>1
      <4>3. ~ (instr.size = 8 /\ a + 4 = offset + 4)
        BY <2>3, <4>1
      <4>4. ASSUME NEW j \in 1 .. Length(app) PROVE a + 4 # Here(j)
        <5>1. i < j => a + 8 <= Here(j)
          BY <2>4, <3>1, <3>2, <3>3
        <5>2. j < i => Here(j) + New[j].size <= a
          BY <2>4, <3>1
        <5>3. New[j].size \in {4, 8} /\ Here(j) \in Nat
          BY <2>4 DEF Proper
        <5>4. i \in Int /\ j \in Int
          BY UsedIs, <2>1
        <5>5. i < j \/ j < i \/ i = j
          BY <5>4
        <5> QED
          BY <3>1, <4>1, <5>1, <5>2, <5>3, <5>5
      <4>5. a + 4 # copy_at /\ a + 4 # copy_at + instr.size
        BY <2>3, <2>5, <4>1 DEF Proper
      <4> QED
        BY <2>2, <4>2, <4>3, <4>4, <4>5
    <3> QED
      BY <3>2, <3>3
  <2>11. CASE a = copy_at
    <3>1. text[a] = instr /\ Proper(instr)
      BY <2>2, <2>3, <2>11
    <3>2. ASSUME instr.size = 8 PROVE a + 4 \notin DOMAIN text
      <4>1. \A b \in DOMAIN original : b < section_size
        BY <1>1, <2>3 DEF Proper
      <4> QED
        BY <2>2, <2>3, <2>4, <2>5, <2>11, <3>2, <4>1
    <3> QED
      BY <3>1, <3>2
  <2>12. CASE a = copy_at + instr.size
    BY <2>6, <2>12
  <2> QED
    BY <2>2, <2>7, <2>8, <2>9, <2>10, <2>11, <2>12
<1> QED
  BY <1>2, <1>3

(* What is computed from the input stays as it is.                         *)
LEMMA SameCode ==
  ASSUME UNCHANGED <<input, regsUsed>>
  PROVE  /\ Inputs' = Inputs /\ Exists' = Exists /\ Patched' = Patched
         /\ offset' = offset /\ instr' = instr /\ section_size' = section_size
         /\ copy_at' = copy_at /\ New' = New /\ Sound' = Sound
         /\ \A i : Here(i)' = Here(i)
<1>1. /\ original' = original /\ allotment' = allotment /\ gap' = gap /\ app' = app
      /\ regsUsed' = regsUsed
  BY DEF input
<1>2. /\ Inputs' = Inputs /\ Exists' = Exists /\ offset' = offset /\ section_size' = section_size
      /\ New' = New
  BY <1>1 DEF Inputs, Exists, offset, section_size, New
<1>3. instr' = instr /\ copy_at' = copy_at
  BY <1>1, <1>2 DEF instr, copy_at
<1>4. jumpback' = jumpback /\ jumpto' = jumpto /\ appended' = appended
  BY <1>1, <1>2, <1>3 DEF jumpback, jumpto, appended
<1>5. Patched' = Patched
  BY <1>1, <1>4 DEF Patched
<1>6. Sound' = Sound
  BY <1>1, <1>2, <1>3 DEF Sound, StillGranted, Relocatable, RegistersFit, InReach, FlagsFree
<1>7. \A i : Here(i)' = Here(i)
  BY <1>2 DEF Here
<1> QED
  BY <1>2, <1>3, <1>5, <1>6, <1>7

(* The types at the start.                                                 *)
LEMMA ShapeInit == ASSUME Init PROVE Shape
<1>1. Inputs /\ text = original /\ host = "loaded" /\ regs = << >> /\ pending = {}
  BY DEF Init, Inputs, Ready
<1>2. DOMAIN regs = {}
  BY <1>1
<1> QED
  BY <1>1, <1>2, InstrumentAssumption DEF Init, Ready, Shape, TextIs, Described

(* The value an instruction works on, and what comes of it.                *)
LEMMA OperandType ==
  ASSUME Shape, NEW op \in {"alu", "move", "load", "store"}, Executes(op)
  PROVE  Operand \in Value /\ Successor(Operand) \in Value /\ Loaded(Operand) \in Value
<1>1. Proper(I) /\ I.op = op /\ I.dst \cup I.src \subseteq DOMAIN regs
  BY TextProper DEF Executes, I
<1>2. (CHOOSE r \in I.src : TRUE) \in DOMAIN regs
  BY <1>1 DEF Proper
<1>3. Operand \in Value
  BY <1>2 DEF Operand, Shape
<1>4. \A x \in Value : Successor(x) \in Value /\ Loaded(x) \in Value
  BY WaveAssumption DEF Value, Successor, Loaded
<1> QED
  BY <1>3, <1>4

(* An assignment to registers keeps their types.                           *)
LEMMA AssignType ==
  ASSUME Shape, NEW rs, NEW x \in Value, Assign(rs, x)
  PROVE  DOMAIN regs' = DOMAIN regs /\ \A r \in DOMAIN regs' : regs'[r] \in Value
  BY DEF Assign, Shape

(* The wavefront moves on.                                                 *)
RunShape ==
    /\ status = "run" /\ status' \in {"run", "done", "fault"}
    /\ UNCHANGED <<text, input, host, regsUsed, granted>>
    /\ DOMAIN regs' = DOMAIN regs /\ \A r \in DOMAIN regs' : regs'[r] \in Value
    /\ \A p \in pending' : p.counter \in Counters /\ p.value \in Value
    /\ count' \in Nat /\ executed' \in 0 .. MaxCount

LEMMA RunShapes == ASSUME Shape, Run PROVE RunShape
<1>1. UNCHANGED <<input, host, regsUsed, granted>> /\ executed' \in 0 .. MaxCount
  BY InstrumentAssumption DEF Run, Tick, Shape
<1> DEFINE Fine == /\ status = "run" /\ status' \in {"run", "done", "fault"} /\ text' = text
                   /\ DOMAIN regs' = DOMAIN regs /\ \A r \in DOMAIN regs' : regs'[r] \in Value
                   /\ \A p \in pending' : p.counter \in Counters /\ p.value \in Value
<1>2. ASSUME UNCHANGED regs PROVE DOMAIN regs' = DOMAIN regs /\ \A r \in DOMAIN regs' : regs'[r] \in Value
  BY <1>2 DEF Shape
<1>3. ASSUME UNCHANGED pending PROVE \A p \in pending' : p.counter \in Counters /\ p.value \in Value
  BY <1>3 DEF Shape
<1>4. ASSUME Compute PROVE Fine
  <2>1. Executes("alu") /\ Assign(I.dst, Successor(Operand)) /\ UNCHANGED <<text, status, pending>>
    BY <1>4 DEF Compute
  <2>2. Successor(Operand) \in Value
    BY <2>1, OperandType
  <2> QED
    BY <1>3, <2>1, <2>2, AssignType DEF Executes
<1>5. ASSUME Copy PROVE Fine
  <2>1. Executes("move") /\ Assign(I.dst, Operand) /\ UNCHANGED <<text, status, pending>>
    BY <1>5 DEF Copy
  <2>2. Operand \in Value
    BY <2>1, OperandType
  <2> QED
    BY <1>3, <2>1, <2>2, AssignType DEF Executes
<1>6. ASSUME Load PROVE Fine
  <2>1. /\ Executes("load") /\ UNCHANGED <<text, status, regs>>
        /\ pending' = pending \cup {[dst |-> r, value |-> Loaded(Operand), counter |-> I.arg] : r \in I.dst}
    BY <1>6 DEF Load
  <2>2. Loaded(Operand) \in Value
    BY <2>1, OperandType
  <2>3. I.arg \in Counters
    BY <2>1, TextProper DEF Executes, I, Proper
  <2>4. \A p \in pending' : p.counter \in Counters /\ p.value \in Value
    BY <2>1, <2>2, <2>3 DEF Shape
  <2> QED
    BY <1>2, <2>1, <2>4 DEF Executes
<1>7. ASSUME Complete PROVE Fine
  <2>1. PICK p \in pending : Assign({p.dst}, p.value) /\ pending' = pending \ {p}
    BY <1>7 DEF Complete
  <2>2. p.value \in Value /\ \A q \in pending' : q.counter \in Counters /\ q.value \in Value
    BY <2>1 DEF Shape
  <2>3. DOMAIN regs' = DOMAIN regs /\ \A r \in DOMAIN regs' : regs'[r] \in Value
    BY <2>1, <2>2, AssignType
  <2> QED
    BY <1>7, <2>2, <2>3 DEF Complete
<1>8. ASSUME Store \/ Wait \/ Nop \/ Jump \/ Branch \/ End \/ Fault PROVE Fine
  BY <1>2, <1>3, <1>8 DEF Store, Wait, Nop, Jump, Branch, End, Fault, Executes
<1>9. ASSUME Literal PROVE Fine
  <2>1. Executes("literal") /\ Assign(I.dst, Foreign) /\ UNCHANGED <<text, status, pending>>
    BY <1>9 DEF Literal
  <2>2. Foreign \in Value
    BY DEF Value
  <2> QED
    BY <1>3, <2>1, <2>2, AssignType DEF Executes
<1>10. ASSUME Atomic PROVE Fine
  <2>1. /\ Executes("atomic") /\ UNCHANGED <<text, status, regs>>
        /\ pending' = pending \cup {[dst |-> r, value |-> Foreign, counter |-> I.arg] : r \in I.dst}
    BY <1>10 DEF Atomic
  <2>2. Foreign \in Value
    BY DEF Value
  <2>3. I.arg \in Counters
    BY <2>1, TextProper DEF Executes, I, Proper
  <2>4. \A p \in pending' : p.counter \in Counters /\ p.value \in Value
    BY <2>1, <2>2, <2>3 DEF Shape
  <2> QED
    BY <1>2, <2>1, <2>4 DEF Executes
<1>11. ASSUME Record PROVE Fine
  BY <1>2, <1>3, <1>11 DEF Record, Executes
<1> HIDE DEF Fine
<1>12. Fine
  BY <1>4, <1>5, <1>6, <1>7, <1>8, <1>9, <1>10, <1>11 DEF Run
<1>13. count' \in Nat
  <2>1. count' = count \/ count' = count + 1
    BY DEF Run, Literal, Atomic, Record
  <2> QED
    BY <2>1 DEF Shape
<1> QED
  BY <1>1, <1>12, <1>13 DEF RunShape, Fine

(* Every step keeps the types.                                             *)
LEMMA ShapeStep == ASSUME Shape, [Next]_vars PROVE Shape'
<1>1. CASE EditDescriptors
  <2>1. UNCHANGED input /\ host = "loaded" /\ host' = "descriptors" /\ UNCHANGED wave
        /\ UNCHANGED <<count, executed>>
        /\ granted' = vgprs(allotment.own) /\ regsUsed' = allotment.last
    BY <1>1 DEF EditDescriptors
  <2>2. /\ original' = original /\ allotment' = allotment /\ gap' = gap /\ app' = app
        /\ text' = text /\ status' = status /\ pc' = pc /\ regs' = regs /\ pending' = pending
    BY <2>1 DEF input, wave
  <2>3. Inputs' /\ Described' /\ TextIs'
    BY <2>1, <2>2 DEF Shape, Inputs, Described, TextIs
  <2>4. DOMAIN regs' \subseteq Registers(granted')
    <3>1. 0 - 1 = -1 /\ 0 .. -1 = {}
      OBVIOUS
    <3>2. granted = 0 /\ granted' \in Nat
      BY <2>1 DEF Shape, Described, vgprs
    <3>3. Registers(granted) \subseteq Registers(granted')
      BY <3>1, <3>2 DEF Registers
    <3> QED
      BY <2>2, <3>3 DEF Shape
  <2> QED
    BY <2>1, <2>2, <2>3, <2>4 DEF Shape
<1>2. CASE PatchText
  <2>1. /\ UNCHANGED <<status, pc, regs, pending, stored, input, regsUsed, granted, count, executed>>
        /\ host = "descriptors" /\ host' \in {"patched", "aborted"}
        /\ text' = IF host' = "patched" /\ Exists THEN Patched ELSE text
    BY <1>2 DEF PatchText
  <2>2. Inputs' = Inputs /\ Exists' = Exists /\ Patched' = Patched
    BY <2>1, SameCode
  <2>3. TextIs'
    BY <2>1, <2>2 DEF Shape, TextIs, input
  <2>4. Described'
    BY <2>1 DEF Shape, Described, input
  <2> QED
    BY <2>1, <2>2, <2>3, <2>4 DEF Shape
<1>3. CASE Launch
  <2>1. /\ UNCHANGED <<text, pc, pending, stored, input, host, regsUsed, granted, count, executed>>
        /\ host = "patched" /\ status' = "run"
        /\ regs' = [r \in Registers(granted) |->
                      IF r \in Registers(allotment.own) THEN Contents(r) ELSE Foreign]
    BY <1>3 DEF Launch
  <2>2. Inputs' = Inputs /\ Exists' = Exists /\ Patched' = Patched
    BY <2>1, SameCode
  <2>3. TextIs' /\ Described'
    BY <2>1, <2>2 DEF Shape, TextIs, Described, input
  <2>4. \A r \in Registers(allotment.own) : Contents(r) \in Value
    <3>1. allotment.own \in Nat
      BY InstrumentAssumption DEF Shape, Inputs
    <3>2. \A r \in Registers(allotment.own) : r[2] \in Nat
      BY <3>1 DEF Registers, v, s, vcc
    <3> QED
      BY <3>2, WaveAssumption DEF Contents, Value
  <2>5. DOMAIN regs' = Registers(granted') /\ \A r \in DOMAIN regs' : regs'[r] \in Value
    BY <2>1, <2>4 DEF Value
  <2> QED
    BY <2>1, <2>2, <2>3, <2>5 DEF Shape
<1>4. CASE Run
  <2>1. RunShape
    BY <1>4, RunShapes
  <2>2. Inputs' = Inputs /\ Exists' = Exists /\ Patched' = Patched
    BY <2>1, SameCode DEF RunShape
  <2>3. TextIs' /\ Described'
    BY <2>1, <2>2 DEF Shape, TextIs, Described, input, RunShape
  <2> QED
    BY <2>1, <2>2, <2>3 DEF Shape, RunShape
<1>5. CASE UNCHANGED vars
  <2>1. UNCHANGED <<input, regsUsed>>
    BY <1>5 DEF vars
  <2>2. Inputs' = Inputs /\ Exists' = Exists /\ Patched' = Patched
    BY <2>1, SameCode
  <2> QED
    BY <1>5, <2>2 DEF Shape, TextIs, Described, vars, wave, input
<1> QED
  BY <1>1, <1>2, <1>3, <1>4, <1>5 DEF Next

LEMMA ShapeHolds == Spec => []Shape
  BY ShapeInit, ShapeStep, PTL DEF Spec

(* The variables of the rewriting and of the wavefront keep their types,   *)
(* and the rewritten .text is one: no instruction is inside another.       *)
THEOREM TypeCorrect == Spec => []TypeOK
<1>1. Shape => TypeOK
  <2> SUFFICES ASSUME Shape PROVE TypeOK
    OBVIOUS
  <2>1. \A a \in DOMAIN text : text[a].size \in {4, 8} /\ (text[a].size = 8 => a + 4 \notin DOMAIN text)
    BY TextProper DEF Proper
  <2>2. granted \in Nat /\ regsUsed \in Nat
    <3>1. allotment.last \in Nat
      BY UsedIs DEF Shape
    <3> QED
      BY <3>1 DEF Shape, Described, vgprs
  <2> QED
    BY <2>1, <2>2 DEF Shape, TypeOK, Value
<1> QED
  BY <1>1, ShapeHolds, PTL

-----------------------------------------------------------------------------
(* The count *)

(* What a step of the wavefront does to pc and the count.                  *)
Stays == pc' = pc /\ status' \in {"run", "fault"} /\ count' = count
Ends == I.op = "end" /\ pc' = pc /\ status' = "done" /\ count' = count
Passes ==
    /\ I.op \in {"alu", "move", "load", "store", "wait", "nop", "branch", "literal", "record"}
    /\ pc' = pc + I.size /\ status' = "run" /\ count' = count
Counts == I.op = "atomic" /\ pc' = pc + I.size /\ status' = "run" /\ count' = count + 1
Jumps == I.op \in {"jump", "branch"} /\ pc' = pc + Relative(I.arg) /\ status' = "run" /\ count' = count

LEMMA RunMoves ==
  ASSUME Run
  PROVE  /\ status = "run"
         /\ Stays \/ Ends \/ Passes \/ Counts \/ Jumps
<1>1. CASE Compute \/ Copy \/ Load \/ Store \/ Wait \/ Nop
  <2>1. count' = count
    BY <1>1 DEF Run, Compute, Copy, Load, Store, Wait, Nop, Literal, Atomic, Record,
       Executes
  <2> QED
    BY <1>1, <2>1 DEF Compute, Copy, Load, Store, Wait, Nop, Executes, Onwards, I, Passes
<1>2. CASE (Complete \/ Fault) /\ UNCHANGED count
  BY <1>2 DEF Complete, Fault, Stays
<1>3. CASE (Jump \/ Branch) /\ UNCHANGED count
  BY <1>3 DEF Jump, Branch, Target, Executes, Onwards, I, Jumps, Passes
<1>4. CASE End /\ UNCHANGED count
  BY <1>4 DEF End, Executes, I, Ends
<1>5. CASE Literal \/ Record
  BY <1>5 DEF Literal, Record, Executes, Onwards, I, Passes
<1>6. CASE Atomic
  BY <1>6 DEF Atomic, Executes, Onwards, I, Counts
<1> QED
  BY <1>1, <1>2, <1>3, <1>4, <1>5, <1>6 DEF Run

(* Where the wavefront can be, and when the instruction has been counted   *)
(* but not executed.                                                       *)
PlaceAt(x) ==
    \/ x \in DOMAIN original
    \/ instr.size = 8 /\ instr.op # "end" /\ x = offset + 4
    \/ \E i \in 1 .. Length(app) : x = Here(i)
    \/ x = copy_at
    \/ instr.op # "end" /\ x = copy_at + instr.size
PastAt(x) == x = copy_at \/ \E i \in AtomicAt(app) + 1 .. Length(app) : x = Here(i)
Place == PlaceAt(pc)
Past == PastAt(pc)
Counted ==
    IF host = "patched" /\ Exists
    THEN Sound => /\ Place
                  /\ count = executed + (IF status # "done" /\ Past THEN 1 ELSE 0)
    ELSE count = 0 /\ executed = 0

(* The places are apart.                                                   *)
LEMMA PlacesApart ==
  ASSUME Inputs, Exists
  PROVE  /\ offset \in DOMAIN original /\ offset \in Nat /\ IsInstruction(instr)
         /\ instr.size \in {4, 8} /\ offset + instr.size <= section_size
         /\ instr.op # "end" => offset + instr.size \in DOMAIN original
         /\ section_size \in Nat /\ copy_at \in Nat /\ section_size < copy_at
         /\ \A a \in DOMAIN original : a \in Nat /\ a < section_size
         /\ \A i \in 1 .. Length(app) : Here(i) \in Nat /\ section_size <= Here(i) /\ Here(i) < copy_at
         /\ Length(app) \in Nat /\ AtomicAt(app) \in 2 .. Length(app) - 1
<1>1. 1 \in 1 .. Length(app) /\ Length(app) \in Nat /\ AtomicAt(app) \in 2 .. Length(app) - 1
  BY DEF Length, Work, AtomicAt
<1>2. \A i \in 1 .. Length(app) : Here(i) \in Nat /\ section_size <= Here(i) /\ Here(i) < copy_at
  BY HereApart, NewText
<1>3. /\ offset \in DOMAIN original /\ offset \in Nat /\ IsInstruction(instr)
      /\ instr.size \in {4, 8}
      /\ instr.op # "end" => offset + instr.size \in DOMAIN original
  BY OffsetIn, InKernel DEF instr
<1>4. section_size \in Nat /\ copy_at \in Nat /\ offset + instr.size <= section_size
  BY <1>1, <1>3, SectionBehind, HereApart DEF instr
<1>5. section_size < copy_at
  BY <1>1, <1>2, <1>4
<1>6. \A a \in DOMAIN original : a \in Nat /\ a < section_size
  <2>1. \A a \in DOMAIN original : a \in Nat /\ original[a].size \in {4, 8}
    BY InKernel
  <2> QED
    BY <1>4, <2>1, SectionBehind
<1> QED
  BY <1>1, <1>2, <1>3, <1>4, <1>5, <1>6

(* A wavefront in front of the new code has nothing counted in advance.    *)
LEMMA NotPast ==
  ASSUME Inputs, Exists, NEW x, PastAt(x)
  PROVE  /\ x \in Nat /\ section_size <= x /\ x \notin DOMAIN original
         /\ x # offset + 4 /\ x # Here(1) /\ x # copy_at + instr.size
<1>1. /\ Length(app) \in Nat /\ AtomicAt(app) \in 2 .. Length(app) - 1
      /\ \A i \in 1 .. Length(app) : Here(i) \in Nat /\ section_size <= Here(i) /\ Here(i) < copy_at
      /\ section_size \in Nat /\ copy_at \in Nat /\ section_size < copy_at
      /\ \A a \in DOMAIN original : a \in Nat /\ a < section_size
      /\ offset \in Nat /\ instr.size \in {4, 8} /\ offset + instr.size <= section_size
  BY PlacesApart
<1>2. x = copy_at \/ \E i \in 2 .. Length(app) : x = Here(i)
  BY <1>1 DEF PastAt
<1>3. \A i \in 2 .. Length(app) : Here(i) # Here(1)
  <2>1. 1 \in 1 .. Length(app) /\ \A i \in 2 .. Length(app) : i \in 1 .. Length(app) /\ i # 1
    BY <1>1
  <2> QED
    BY <2>1, HereApart
<1>4. Here(1) = section_size
  BY NewText
<1>5. x \in Nat /\ section_size <= x /\ x # Here(1) /\ x <= copy_at
  BY <1>1, <1>2, <1>3, <1>4
<1> QED
  BY <1>1, <1>4, <1>5

(* In the new code the instruction is counted from the atomic on.          *)
LEMMA PastHere ==
  ASSUME Inputs, Exists, NEW i \in 1 .. Length(app)
  PROVE  PastAt(Here(i)) <=> i > AtomicAt(app)
<1>1. /\ Length(app) \in Nat /\ AtomicAt(app) \in 2 .. Length(app) - 1
      /\ Here(i) \in Nat /\ Here(i) < copy_at /\ copy_at \in Nat
  BY PlacesApart
<1>2. \A j \in 1 .. Length(app) : Here(i) = Here(j) => i = j
  BY HereApart
<1>3. \A j \in AtomicAt(app) + 1 .. Length(app) : j \in 1 .. Length(app) /\ j > AtomicAt(app)
  BY <1>1
<1>4. i > AtomicAt(app) => i \in AtomicAt(app) + 1 .. Length(app)
  BY <1>1
<1>5. Here(i) # copy_at
  BY <1>1
<1> QED
  BY <1>2, <1>3, <1>4, <1>5 DEF PastAt

(* The places stay where they are.                                         *)
LEMMA SamePlaces ==
  ASSUME UNCHANGED <<input, regsUsed>>
  PROVE  /\ original' = original /\ Exists' = Exists /\ Sound' = Sound
         /\ Place' <=> PlaceAt(pc')
         /\ Past' <=> PastAt(pc')
<1>1. original' = original /\ app' = app
  BY DEF input
<1>2. /\ Exists' = Exists /\ offset' = offset /\ instr' = instr
      /\ copy_at' = copy_at /\ Sound' = Sound /\ \A i : Here(i)' = Here(i)
  BY SameCode
<1> QED
  BY <1>1, <1>2 DEF Place, Past, PlaceAt, PastAt

(* A step of the wavefront in the rewritten .text.                         *)
LEMMA CountedRun ==
  ASSUME Shape, Counted, Run, host = "patched", Exists, Sound
  PROVE  /\ Place' 
         /\ count' = executed' + (IF status' # "done" /\ Past' THEN 1 ELSE 0)
<1>1. Inputs /\ text = Patched /\ regsUsed = allotment.last /\ Place
      /\ count = executed + (IF status # "done" /\ Past THEN 1 ELSE 0)
  BY DEF Shape, TextIs, Described, Counted
<1>2. /\ DOMAIN text = DOMAIN original \cup {offset + 4 : x \in {y \in {1} : instr.size = 8}}
                       \cup {Here(i) : i \in 1 .. Length(app)} \cup {copy_at, copy_at + instr.size}
      /\ text[offset] = s_branch(offset, section_size)
      /\ instr.size = 8 => text[offset + 4] = s_nop
      /\ \A i \in 1 .. Length(app) : text[Here(i)] = New[i]
      /\ text[copy_at] = instr
      /\ text[copy_at + instr.size] = jumpback
      /\ \A b \in DOMAIN original \ {offset} : text[b] = original[b]
  BY <1>1, PatchedIs
<1>3. /\ offset \in DOMAIN original /\ offset \in Nat /\ IsInstruction(instr)
      /\ instr.size \in {4, 8} /\ offset + instr.size <= section_size
      /\ instr.op # "end" => offset + instr.size \in DOMAIN original
      /\ section_size \in Nat /\ copy_at \in Nat /\ section_size < copy_at
      /\ \A a \in DOMAIN original : a \in Nat /\ a < section_size
      /\ \A i \in 1 .. Length(app) : Here(i) \in Nat /\ section_size <= Here(i) /\ Here(i) < copy_at
      /\ Length(app) \in Nat /\ AtomicAt(app) \in 2 .. Length(app) - 1
  BY <1>1, PlacesApart
<1>4. /\ Here(1) = section_size /\ Here(Length(app) + 1) = copy_at
      /\ \A i \in 1 .. Length(app) : New[i].size \in {4, 8} /\ Here(i + 1) = Here(i) + New[i].size
  BY <1>1, NewText
<1>5. /\ offset + Relative(s_branch(offset, section_size).arg) = section_size
      /\ (copy_at + instr.size) + Relative(jumpback.arg) = offset + 4
      /\ instr.op # "branch"
  BY <1>1, JumpsReach DEF Sound, Relocatable
<1>6. RunShape /\ executed \in Nat /\ executed' \in Nat /\ count \in Nat
  BY RunShapes DEF Shape, RunShape
<1>7. UNCHANGED <<input, regsUsed>>
  BY <1>6 DEF RunShape
<1>8. status = "run" /\ (Stays \/ Ends \/ Passes \/ Counts \/ Jumps)
  BY RunMoves
<1>9. executed' = IF /\ pc \in {offset, copy_at} /\ pc \in DOMAIN text /\ text[pc] = instr
                     /\ pc' # pc \/ status' = "done"
                  THEN executed + 1 ELSE executed
  BY DEF Run, Tick
<1>10. /\ Place' <=> PlaceAt(pc')
       /\ Past' <=> PastAt(pc')
  BY <1>7, SamePlaces
<1>11. ASSUME NEW x, PastAt(x)
       PROVE  /\ x \in Nat /\ section_size <= x /\ x \notin DOMAIN original
              /\ x # offset + 4 /\ x # Here(1) /\ x # copy_at + instr.size
  BY <1>1, <1>11, NotPast
<1>12. copy_at # offset /\ \A i \in 1 .. Length(app) : Here(i) \notin {offset, copy_at}
  BY <1>3
<1>13. ASSUME pc \in DOMAIN original, pc # offset
       PROVE  /\ PlaceAt(pc') /\ ~PastAt(pc) /\ ~PastAt(pc')
              /\ count' = count /\ executed' = executed
  <2>1. /\ IsInstruction(original[pc]) /\ I = original[pc]
        /\ original[pc].op # "end" => pc + original[pc].size \in DOMAIN original
        /\ original[pc].op = "branch" => pc + Relative(original[pc].arg) \in DOMAIN original
    BY <1>1, <1>2, <1>13, InKernel DEF I
  <2>2. pc' \in DOMAIN original /\ count' = count
    BY <1>8, <1>13, <2>1 DEF Stays, Ends, Passes, Counts, Jumps, IsInstruction
  <2>3. pc # copy_at
    BY <1>3, <1>13
  <2> QED
    BY <1>9, <1>11, <1>13, <2>2, <2>3 DEF PlaceAt
<1>14. ASSUME pc = offset
       PROVE  /\ PlaceAt(pc') /\ ~PastAt(pc) /\ ~PastAt(pc')
              /\ count' = count /\ executed' = executed
  <2>1. I = s_branch(offset, section_size) /\ I.op = "jump"
    BY <1>2, <1>14 DEF I, s_branch, Instruction
  <2>2. count' = count /\ pc' \in {offset, Here(1)}
    BY <1>4, <1>5, <1>8, <1>14, <2>1 DEF Stays, Ends, Passes, Counts, Jumps
  <2>3. text[pc] # instr
    BY <1>3, <2>1 DEF I, IsInstruction
  <2>4. 1 \in 1 .. Length(app)
    BY <1>3
  <2>5. PlaceAt(offset) /\ PlaceAt(Here(1))
    BY <1>3, <2>4 DEF PlaceAt
  <2> QED
    BY <1>3, <1>9, <1>11, <1>14, <2>2, <2>3, <2>5
<1>15. ASSUME instr.size = 8, instr.op # "end", pc = offset + 4
       PROVE  /\ PlaceAt(pc') /\ ~PastAt(pc) /\ ~PastAt(pc')
              /\ count' = count /\ executed' = executed
  <2>1. I.op = "nop" /\ I.size = 4
    BY <1>2, <1>15 DEF I, s_nop, Instruction
  <2>2. count' = count /\ pc' \in {offset + 4, (offset + 4) + 4}
    BY <1>8, <1>15, <2>1 DEF Stays, Ends, Passes, Counts, Jumps
  <2>3. (offset + 4) + 4 = offset + instr.size /\ offset + 4 \notin {offset, copy_at}
    BY <1>3, <1>15
  <2>4. PlaceAt(pc') /\ ~PastAt(pc')
    BY <1>3, <1>11, <1>15, <2>2, <2>3 DEF PlaceAt
  <2> QED
    BY <1>9, <1>11, <1>15, <2>2, <2>3, <2>4
<1>16. ASSUME NEW i \in 1 .. Length(app), pc = Here(i)
       PROVE  /\ PlaceAt(pc') /\ executed' = executed /\ status' # "done"
              /\ \/ count' = count /\ (PastAt(pc') <=> PastAt(pc))
                 \/ count' = count + 1 /\ PastAt(pc') /\ ~PastAt(pc)
  <2>1. /\ I = New[i] /\ New[i].op \in {"wait", "move", "literal", "atomic", "record"}
        /\ New[i].op = "atomic" <=> i = AtomicAt(app)
    <3>1. allotment.last \in Nat
      BY <1>1, UsedIs
    <3> QED
      BY <1>2, <1>16, <3>1, InjectedOps DEF I, New
  <2>2. executed' = executed
    BY <1>9, <1>12, <1>16
  <2>3. PlaceAt(Here(i)) /\ PlaceAt(Here(i + 1))
    <3>1. i = Length(app) \/ i + 1 \in 1 .. Length(app)
      BY <1>3
    <3> QED
      BY <1>4, <3>1 DEF PlaceAt
  <2>4. PastAt(Here(i)) <=> i > AtomicAt(app)
    BY <1>1, PastHere
  <2>5. PastAt(Here(i + 1)) <=> i + 1 > AtomicAt(app)
    <3>1. CASE i = Length(app)
      <4>1. Here(i + 1) = copy_at /\ i + 1 > AtomicAt(app)
        BY <1>3, <1>4, <3>1
      <4> QED
        BY <4>1 DEF PastAt
    <3>2. CASE i # Length(app)
      <4>1. i + 1 \in 1 .. Length(app)
        BY <1>3, <3>2
      <4> QED
        BY <1>1, <4>1, PastHere
    <3> QED
      BY <3>1, <3>2
  <2>6. Here(i + 1) = pc + I.size
    BY <1>4, <1>16, <2>1
  <2>7. CASE Stays
    BY <1>16, <2>2, <2>3, <2>7 DEF Stays
  <2>8. CASE Passes
    <3>1. i # AtomicAt(app)
      BY <2>1, <2>8 DEF Passes
    <3>2. i + 1 > AtomicAt(app) <=> i > AtomicAt(app)
      BY <1>3, <3>1
    <3> QED
      BY <1>16, <2>2, <2>3, <2>4, <2>5, <2>6, <2>8, <3>2 DEF Passes
  <2>9. CASE Counts
    <3>1. i = AtomicAt(app)
      BY <2>1, <2>9 DEF Counts
    <3>2. i + 1 > AtomicAt(app) /\ ~(i > AtomicAt(app))
      BY <1>3, <3>1
    <3> QED
      BY <1>16, <2>2, <2>3, <2>4, <2>5, <2>6, <2>9, <3>2 DEF Counts
  <2>10. ~Ends /\ ~Jumps
    BY <2>1 DEF Ends, Jumps
  <2> QED
    BY <1>8, <2>7, <2>8, <2>9, <2>10
<1>17. ASSUME pc = copy_at
       PROVE  /\ PlaceAt(pc') /\ PastAt(pc) /\ count' = count
              /\ \/ pc' = pc /\ status' # "done" /\ executed' = executed
                 \/ pc' = pc /\ status' = "done" /\ executed' = executed + 1
                 \/ pc' # pc /\ ~PastAt(pc') /\ executed' = executed + 1
  <2>1. I = instr /\ text[pc] = instr /\ pc \in DOMAIN text
    BY <1>2, <1>17 DEF I
  <2>2. PastAt(pc) /\ PlaceAt(copy_at)
    BY <1>17 DEF PastAt, PlaceAt
  <2>3. executed' = IF pc' # pc \/ status' = "done" THEN executed + 1 ELSE executed
    BY <1>9, <1>17, <2>1
  <2>4. ~Counts /\ ~Jumps
    BY <1>3, <1>5, <2>1 DEF Counts, Jumps, IsInstruction
  <2>5. CASE Stays
    BY <1>17, <2>2, <2>3, <2>5 DEF Stays
  <2>6. CASE Ends
    BY <1>17, <2>2, <2>3, <2>6 DEF Ends
  <2>7. CASE Passes
    <3>1. pc' = copy_at + instr.size /\ instr.op # "end" /\ count' = count
      BY <1>17, <2>1, <2>7 DEF Passes
    <3>2. pc' # pc
      BY <1>3, <1>17, <3>1
    <3>3. PlaceAt(pc') /\ ~PastAt(pc')
      BY <1>11, <3>1 DEF PlaceAt
    <3> QED
      BY <2>2, <2>3, <3>1, <3>2, <3>3
  <2> QED
    BY <1>8, <2>4, <2>5, <2>6, <2>7
<1>18. ASSUME instr.op # "end", pc = copy_at + instr.size
       PROVE  /\ PlaceAt(pc') /\ ~PastAt(pc) /\ ~PastAt(pc')
              /\ count' = count /\ executed' = executed
  <2>1. I = jumpback /\ I.op = "jump"
    BY <1>2, <1>18 DEF I, jumpback, s_branch, Instruction
  <2>2. count' = count /\ pc' \in {copy_at + instr.size, offset + 4}
    BY <1>5, <1>8, <1>18, <2>1 DEF Stays, Ends, Passes, Counts, Jumps
  <2>3. pc \notin {offset, copy_at}
    BY <1>3, <1>18
  <2>4. PlaceAt(copy_at + instr.size) /\ PlaceAt(offset + 4)
    BY <1>3, <1>18 DEF PlaceAt
  <2> QED
    BY <1>9, <1>11, <1>18, <2>2, <2>3, <2>4
<1>19. PlaceAt(pc') /\ count' = executed' + (IF status' # "done" /\ PastAt(pc') THEN 1 ELSE 0)
  <2>1. count = executed + (IF PastAt(pc) THEN 1 ELSE 0)
    BY <1>1, <1>8 DEF Past
  <2>2. CASE /\ PlaceAt(pc') /\ ~PastAt(pc) /\ ~PastAt(pc')
             /\ count' = count /\ executed' = executed
    BY <1>6, <2>1, <2>2
  <2>3. CASE \E i \in 1 .. Length(app) : pc = Here(i)
    <3>1. /\ PlaceAt(pc') /\ executed' = executed /\ status' # "done"
          /\ \/ count' = count /\ (PastAt(pc') <=> PastAt(pc))
             \/ count' = count + 1 /\ PastAt(pc') /\ ~PastAt(pc)
      BY <1>16, <2>3
    <3> QED
      BY <1>6, <2>1, <3>1
  <2>4. CASE pc = copy_at
    <3>1. count = executed + 1 /\ count' = count /\ PlaceAt(pc')
      BY <1>17, <2>1, <2>4
    <3>2. CASE pc' = pc /\ status' # "done" /\ executed' = executed
      BY <1>17, <2>4, <3>1, <3>2
    <3>3. CASE executed' = executed + 1 /\ (status' = "done" \/ ~PastAt(pc'))
      BY <1>6, <3>1, <3>3
    <3> QED
      BY <1>17, <2>4, <3>1, <3>2, <3>3
  <2> QED
    BY <1>1, <1>13, <1>14, <1>15, <1>18, <2>2, <2>3, <2>4 DEF Place, PlaceAt
<1> QED
  BY <1>10, <1>19

(* The first instruction is one of the kernel.                             *)
LEMMA AtFirst ==
  ASSUME Inputs
  PROVE  0 \in DOMAIN original
  BY InputsLaid DEF Laid

(* Counted at the start, and after each step.                              *)
LEMMA CountedInit == ASSUME Init PROVE Counted
  BY DEF Init, Counted

LEMMA CountedStep == ASSUME Shape, Counted, [Next]_vars PROVE Counted'
<1>1. CASE EditDescriptors
  BY <1>1 DEF EditDescriptors, Counted, Shape
<1>2. CASE PatchText
  <2>1. /\ UNCHANGED <<input, regsUsed, pc, status, count, executed>> /\ status = "host" /\ pc = 0
        /\ count = 0 /\ executed = 0 /\ host' \in {"patched", "aborted"} /\ Inputs
    BY <1>2 DEF PatchText, Counted, Shape
  <2>2. /\ Place' <=> PlaceAt(0)
        /\ Past' <=> PastAt(0)
        /\ Exists' = Exists
    <3>1. pc' = 0
      BY <2>1
    <3> QED
      BY <2>1, <3>1, SamePlaces
  <2>3. PlaceAt(0)
    BY <2>1, AtFirst DEF PlaceAt
  <2>4. Exists => ~PastAt(0)
    BY <2>1, AtFirst, NotPast
  <2>5. Place' /\ (Exists' => ~Past')
    BY <2>2, <2>3, <2>4
  <2> QED
    BY <2>1, <2>5 DEF Counted
<1>3. CASE Launch
  <2>1. /\ UNCHANGED <<input, host, regsUsed, pc, count, executed>> /\ status = "host" /\ status' = "run"
    BY <1>3 DEF Launch
  <2>2. /\ Exists' = Exists /\ Sound' = Sound
        /\ Place' <=> PlaceAt(pc')
        /\ Past' <=> PastAt(pc')
    BY <2>1, SamePlaces
  <2> QED
    BY <2>1, <2>2 DEF Counted, Place, Past
<1>4. CASE Run
  <2>1. /\ UNCHANGED <<input, host, regsUsed>> /\ host = "patched" /\ Exists' = Exists /\ Sound' = Sound
    <3>1. UNCHANGED <<text, input, host, regsUsed, granted>> /\ status = "run"
      BY <1>4, RunShapes DEF RunShape
    <3> QED
      BY <3>1, SameCode DEF Shape
  <2>2. CASE Exists
    BY <1>4, <2>1, <2>2, CountedRun DEF Counted
  <2>3. CASE ~Exists
    <3>1. text = original /\ count = 0 /\ executed = 0 /\ Inputs
      BY <2>1, <2>3 DEF Shape, TextIs, Counted
    <3>2. executed' = executed
      BY <1>4, <2>3 DEF Run, Tick
    <3>3. count' = count
      <4>1. CASE Atomic
        <5>1. pc \in DOMAIN original /\ original[pc].op = "atomic"
          BY <3>1, <4>1 DEF Atomic, Executes
        <5> QED
          BY <3>1, <5>1, InKernel DEF IsInstruction
      <4>2. CASE ~Atomic
        BY <1>4, <4>2 DEF Run, Literal, Record
      <4> QED
        BY <4>1, <4>2
    <3> QED
      BY <2>1, <2>3, <3>1, <3>2, <3>3 DEF Counted
  <2> QED
    BY <2>2, <2>3
<1>5. CASE UNCHANGED vars
  <2>1. UNCHANGED <<input, host, regsUsed, pc, status, count, executed>>
    BY <1>5 DEF vars, wave
  <2>2. /\ Exists' = Exists /\ Sound' = Sound
        /\ Place' <=> PlaceAt(pc')
        /\ Past' <=> PastAt(pc')
    BY <2>1, SamePlaces
  <2> QED
    BY <2>1, <2>2 DEF Counted, Place, Past
<1> QED
  BY <1>1, <1>2, <1>3, <1>4, <1>5 DEF Next

LEMMA CountedHolds == Spec => []Counted
<1>1. Init => Counted
  BY CountedInit
<1>2. Shape /\ Counted /\ [Next]_vars => Counted'
  BY CountedStep
<1> QED
  BY <1>1, <1>2, ShapeHolds, PTL DEF Spec

(* Every execution of the instrumented instruction is counted once: while  *)
(* the wavefront is outside of the new code, and when it is done, *atomics *)
(* is the number of times it was executed.                                 *)
THEOREM CountExactHolds == Spec => []CountExact
<1>1. Shape /\ Counted => CountExact
  <2> SUFFICES ASSUME Shape, Counted, Sound, ~InNewCode \/ status = "done"
               PROVE  count = executed
    BY DEF CountExact
  <2>1. CASE host = "patched" /\ Exists
    <3>1. Inputs /\ executed \in Nat
      BY InstrumentAssumption DEF Shape
    <3>2. Past => InNewCode
      BY <2>1, <3>1, NotPast DEF Past, InNewCode
    <3> QED
      BY <2>1, <3>1, <3>2 DEF Counted
  <2>2. CASE ~(host = "patched" /\ Exists)
    BY <2>2 DEF Counted
  <2> QED
    BY <2>1, <2>2
<1> QED
  BY <1>1, ShapeHolds, CountedHolds, PTL

-----------------------------------------------------------------------------
(* Where registers are saved *)

(* The registers that are saved, by number, and where.                     *)
Reg(n) == IF n < 6 THEN v(n) ELSE s(n - 6)
Home(n) == v(allotment.last + n)
(* The instruction of the new code that saves the n-th, the one that       *)
(* restores it at the end, and the first that does.                        *)
LoadAt(a, n) == 16 + Work(a) + n
BackAt(a, n) == IF a = "memtrace" /\ n < 2 THEN 26 + n ELSE LoadAt(a, n)
(* The wait for what the atomic returns.                                   *)
WaitAt(a) == IF a = "instrcount" THEN 23 ELSE 22
Scratch == {v(0), v(1), v(2), v(3), s(2), s(3), vcc}

(* Registers are told apart by their kind and number.                      *)
LEMMA Apart ==
  ASSUME NEW i, NEW j
  PROVE  /\ v(i) = v(j) <=> i = j
         /\ s(i) = s(j) <=> i = j
         /\ v(i) # s(j) /\ v(i) # vcc /\ s(i) # vcc
         /\ v(i)[1] = "v" /\ v(i)[2] = i /\ s(i)[1] = "s" /\ s(i)[2] = i
  BY DEF v, s, vcc

(* Saved registers differ, and so do their homes, in which no register of  *)
(* the work is.                                                            *)
LEMMA HomesApart ==
  ASSUME Inputs, NEW m \in 0 .. 11, NEW n \in 0 .. 11
  PROVE  /\ Reg(m) = Reg(n) <=> m = n
         /\ Home(m) = Home(n) <=> m = n
         /\ Home(m) = Reg(n) => (n \in {4, 5} /\ m < n /\ m < 2)
         /\ Home(m) \notin Scratch
         /\ savedTo(Reg(n), allotment.last) = Home(n)
<1>1. PICK u \in Nat : u = allotment.last /\ u >= 4
  <2>1. PICK u : u = allotment.last
    OBVIOUS
  <2>2. u \in Nat \ {0} /\ u % 4 = 0
    BY <2>1, InstrumentAssumption DEF Inputs
  <2> QED
    BY <2>1, <2>2
<1>2. Reg(m) = Reg(n) <=> m = n
  <2>1. CASE m < 6 /\ n < 6
    BY <2>1, Apart DEF Reg
  <2>2. CASE (m < 6) # (n < 6)
    <3>1. v(m) # s(n - 6) /\ v(n) # s(m - 6) /\ m # n
      BY <2>2, Apart
    <3> QED
      BY <2>2, <3>1 DEF Reg
  <2>3. CASE ~(m < 6) /\ ~(n < 6)
    <3>1. s(m - 6) = s(n - 6) <=> m - 6 = n - 6
      BY Apart
    <3>2. m - 6 = n - 6 <=> m = n
      OBVIOUS
    <3> QED
      BY <2>3, <3>1, <3>2 DEF Reg
  <2> QED
    BY <2>1, <2>2, <2>3
<1>3. Home(m) = v(u + m) /\ Home(n) = v(u + n)
  BY <1>1 DEF Home
<1>4. Home(m) = Home(n) <=> m = n
  <2>1. v(u + m) = v(u + n) <=> u + m = u + n
    BY Apart
  <2> QED
    BY <1>1, <1>3, <2>1
<1>5. Home(m) = Reg(n) => n \in {4, 5} /\ m < n /\ m < 2
  <2>1. CASE n < 6
    <3>1. v(u + m) = v(n) <=> u + m = n
      BY Apart
    <3> QED
      BY <1>1, <1>3, <2>1, <3>1 DEF Reg
  <2>2. CASE ~(n < 6)
    BY <1>3, <2>2, Apart DEF Reg
  <2> QED
    BY <2>1, <2>2
<1>6. Home(m) \notin Scratch
  <2>1. \A k \in {0, 1, 2, 3} : v(u + m) # v(k)
    <3>1. \A k \in {0, 1, 2, 3} : u + m # k
      BY <1>1
    <3> QED
      BY <3>1, Apart
  <2>2. v(u + m) # s(2) /\ v(u + m) # s(3) /\ v(u + m) # vcc
    BY Apart
  <2> QED
    BY <1>3, <2>1, <2>2 DEF Scratch
<1>7. savedTo(Reg(n), allotment.last) = Home(n)
  <2>1. CASE n < 6
    <3>1. Reg(n)[1] = "v" /\ Reg(n)[2] = n
      BY <2>1, Apart DEF Reg
    <3> QED
      BY <1>1, <1>3, <3>1 DEF savedTo
  <2>2. CASE ~(n < 6)
    <3>1. Reg(n)[1] = "s" /\ Reg(n)[2] = n - 6
      BY <2>2, Apart DEF Reg
    <3>2. u + (n - 6) + 6 = u + n
      BY <1>1
    <3> QED
      BY <1>1, <1>3, <3>1, <3>2 DEF savedTo, to_save
  <2> QED
    BY <2>1, <2>2
<1> QED
  BY <1>2, <1>4, <1>5, <1>6, <1>7

(* The instructions that save and restore.                                 *)
LEMMA MovesAre ==
  ASSUME Inputs, NEW n \in 0 .. 11
  PROVE  /\ n + 2 \in 1 .. Length(app) /\ LoadAt(app, n) \in 1 .. Length(app)
         /\ New[n + 2].op = "move" /\ New[n + 2].dst = {Home(n)} /\ New[n + 2].src = {Reg(n)}
         /\ New[LoadAt(app, n)].op = "move"
         /\ New[LoadAt(app, n)].dst = {Reg(n)} /\ New[LoadAt(app, n)].src = {Home(n)}
<1>1. PICK u \in Nat, w \in {8, 13} : u = allotment.last /\ w = Work(app) /\ Length(app) = 28 + w
  BY UsedIs DEF Length, Work
<1>2. n + 2 \in 1 .. Length(app) /\ LoadAt(app, n) \in 1 .. Length(app)
  BY <1>1 DEF LoadAt
<1>3. New[n + 2] = saves(u)[n + 1]
  <2>1. n + 2 \in 2 .. 13 /\ (n + 2) - 1 = n + 1
    OBVIOUS
  <2>2. n + 2 \notin {1, 14, 15, 28 + w}
    BY <1>1
  <2>3. injected(app, u)[n + 2] =
            IF n + 2 \in {1, 14, 15, Length(app)} THEN s_waitcnt(Counters)
            ELSE IF n + 2 <= 13 THEN saves(u)[(n + 2) - 1]
            ELSE IF n + 2 <= 15 + Work(app) THEN middle(app, u)[(n + 2) - 15]
            ELSE loads(u)[(n + 2) - 15 - Work(app)]
    BY <1>1, <1>2, InjectedIs
  <2> QED
    BY <1>1, <2>1, <2>2, <2>3 DEF New
<1>4. New[LoadAt(app, n)] = loads(u)[n + 1]
  <2>1. PICK i \in 1 .. Length(app) : i = LoadAt(app, n) /\ i = 16 + w + n
    BY <1>1, <1>2 DEF LoadAt
  <2>2. i \notin {1, 14, 15, 28 + w} /\ ~(i <= 13) /\ ~(i <= 15 + w) /\ i - 15 - w = n + 1
    BY <1>1, <2>1
  <2>3. injected(app, u)[i] =
            IF i \in {1, 14, 15, Length(app)} THEN s_waitcnt(Counters)
            ELSE IF i <= 13 THEN saves(u)[i - 1]
            ELSE IF i <= 15 + Work(app) THEN middle(app, u)[i - 15]
            ELSE loads(u)[i - 15 - Work(app)]
    BY <1>1, InjectedIs
  <2> QED
    BY <1>1, <2>1, <2>2, <2>3 DEF New
<1>5. n + 1 \in 1 .. 12 /\ u + (n + 1) - 1 = u + n /\ (n + 1) - 1 = n /\ (n + 1) - 7 = n - 6
      /\ (n + 1 <= 6 <=> n < 6)
  BY <1>1
<1>6. saves(u)[n + 1] = IF n + 1 <= 6 THEN Instruction("move", 4, {v(u + n)}, {v(n)}, 0)
                        ELSE Instruction("move", 8, {v(u + n)}, {s(n - 6)}, 0)
  <2>1. saves(u)[n + 1] =
            IF n + 1 <= 6 THEN Instruction("move", 4, {v(u + (n + 1) - 1)}, {v((n + 1) - 1)}, 0)
            ELSE Instruction("move", 8, {v(u + (n + 1) - 1)}, {s((n + 1) - 7)}, 0)
    BY <1>5, SavesAre
  <2> QED
    BY <1>5, <2>1
<1>7. loads(u)[n + 1] = IF n + 1 <= 6 THEN Instruction("move", 4, {v(n)}, {v(u + n)}, 0)
                        ELSE Instruction("move", 8, {s(n - 6)}, {v(u + n)}, 0)
  <2>1. loads(u)[n + 1] =
            IF n + 1 <= 6 THEN Instruction("move", 4, {v((n + 1) - 1)}, {v(u + (n + 1) - 1)}, 0)
            ELSE Instruction("move", 8, {s((n + 1) - 7)}, {v(u + (n + 1) - 1)}, 0)
    BY <1>5, LoadsAre
  <2> QED
    BY <1>5, <2>1
<1>8. Home(n) = v(u + n) /\ Reg(n) = IF n < 6 THEN v(n) ELSE s(n - 6)
  BY <1>1 DEF Home, Reg
<1> QED
  BY <1>2, <1>3, <1>4, <1>5, <1>6, <1>7, <1>8, InstructionIs

(* What the work does to registers, instruction by instruction.            *)
LEMMA WorkIs ==
  ASSUME Inputs, NEW i \in 16 .. 15 + Work(app)
  PROVE  /\ i \in 1 .. Length(app)
         /\ New[i].dst \subseteq Scratch
         /\ Has(New[i]) \subseteq Scratch \cup {Home(0), Home(1)}
         /\ app = "instrcount" => vcc \notin New[i].dst
         /\ New[i].op = "move" => (app = "memtrace" /\ i \in {26, 27})
         /\ New[i].op = "atomic" => New[i].dst \subseteq {v(0), v(1), v(2)}
         /\ (app = "memtrace" /\ i = 26) =>
               (New[i].op = "move" /\ New[i].dst = {Reg(0)} /\ New[i].src = {Home(0)})
         /\ (app = "memtrace" /\ i = 27) =>
               (New[i].op = "move" /\ New[i].dst = {Reg(1)} /\ New[i].src = {Home(1)})
         /\ (app = "memtrace" /\ i = 28) => New[i].dst = {}
         /\ i = WaitAt(app) => (New[i].op = "wait" /\ "vmcnt" \in New[i].arg)
<1>1. PICK u \in Nat, w \in {8, 13} :
          u = allotment.last /\ w = Work(app) /\ Length(app) = 28 + w
          /\ app \in {"instrcount", "memtrace"} /\ w = IF app = "instrcount" THEN 8 ELSE 13
  BY UsedIs, InstrumentAssumption DEF Length, Work, Inputs
<1>2. i \in 1 .. Length(app) /\ i - 15 \in 1 .. w
  BY <1>1
<1>3. New[i] = middle(app, u)[i - 15]
  <2>1. i \notin {1, 14, 15, 28 + w} /\ ~(i <= 13) /\ i <= 15 + w
    BY <1>1
  <2>2. injected(app, u)[i] =
            IF i \in {1, 14, 15, Length(app)} THEN s_waitcnt(Counters)
            ELSE IF i <= 13 THEN saves(u)[i - 1]
            ELSE IF i <= 15 + Work(app) THEN middle(app, u)[i - 15]
            ELSE loads(u)[i - 15 - Work(app)]
    BY <1>1, <1>2, InjectedIs
  <2> QED
    BY <1>1, <2>1, <2>2 DEF New
<1>4. Home(0) = v(u) /\ Home(1) = v(u + 1) /\ Reg(0) = v(0) /\ Reg(1) = v(1)
  BY <1>1 DEF Home, Reg
<1>5. CASE app = "instrcount"
  <2>1. i - 15 \in {1, 2, 3, 4, 5, 6, 7, 8} /\ New[i] = instrcount_code[i - 15]
    BY <1>1, <1>2, <1>3, <1>5 DEF middle
  <2>2. /\ instrcount_code[1] = literal(8, {s(2)}) /\ instrcount_code[2] = literal(8, {s(3)})
        /\ instrcount_code[3] = literal(4, {v(0)}) /\ instrcount_code[4] = literal(4, {v(1)})
        /\ instrcount_code[5] = literal(4, {v(2)})
        /\ instrcount_code[6] = s_waitcnt({"lgkmcnt"})
        /\ instrcount_code[7] = Instruction("atomic", 8, {v(0), v(1)}, {v(2), s(2), s(3)}, "vmcnt")
        /\ instrcount_code[8] = s_waitcnt({"vmcnt"})
    BY DEF instrcount_code
  <2>3. s(2) # vcc /\ s(3) # vcc /\ v(0) # vcc /\ v(1) # vcc /\ v(2) # vcc
    BY Apart
  <2>4. i = 23 => i - 15 = 8
    OBVIOUS
  <2>5. \A j \in {1, 2, 3, 4, 5, 6, 7, 8} :
           /\ Has(instrcount_code[j]) \subseteq Scratch
           /\ instrcount_code[j].dst \subseteq Scratch
           /\ vcc \notin instrcount_code[j].dst
           /\ instrcount_code[j].op # "move"
           /\ instrcount_code[j].op = "atomic" => instrcount_code[j].dst \subseteq {v(0), v(1), v(2)}
    BY <2>2, <2>3, InstructionIs DEF literal, s_waitcnt, Scratch, Has
  <2>6. instrcount_code[8].op = "wait" /\ "vmcnt" \in instrcount_code[8].arg
    BY <2>2, InstructionIs DEF s_waitcnt
  <2> QED
    BY <1>2, <1>5, <2>1, <2>4, <2>5, <2>6 DEF WaitAt
<1>6. CASE app = "memtrace"
  <2> DEFINE code == memtrace_code(u)
  <2>1. i - 15 \in 1 .. 13 /\ New[i] = code[i - 15]
    BY <1>1, <1>2, <1>3, <1>6 DEF middle
  <2>2. /\ code[1] = literal(8, {v(0)}) /\ code[2] = literal(8, {v(1)})
        /\ code[3] = literal(4, {v(2)})
        /\ code[4] = Instruction("atomic", 8, {v(2)}, {v(0), v(1)}, "vmcnt")
        /\ code[5] = literal(4, {v(3)}) /\ code[6] = literal(8, {v(1)})
        /\ code[7] = s_waitcnt(Counters)
        /\ code[8] = literal(8, {v(2), v(3)}) /\ code[9] = literal(8, {v(2), vcc})
        /\ code[10] = literal(4, {v(3), vcc})
        /\ code[11] = Instruction("move", 4, {v(0)}, {v(u)}, 0)
        /\ code[12] = Instruction("move", 4, {v(1)}, {v(u + 1)}, 0)
        /\ code[13] = Instruction("record", 8, {}, {v(0), v(1), v(2), v(3)}, 0)
    BY DEF memtrace_code
  <2> HIDE DEF code
  <2>3. \A j \in 1 .. 13 :
           /\ code[j].dst \subseteq Scratch
           /\ Has(code[j]) \subseteq Scratch \cup {v(u), v(u + 1)}
           /\ code[j].op = "move" => j \in {11, 12}
           /\ code[j].op = "atomic" => code[j].dst \subseteq {v(0), v(1), v(2)}
    <3>1. \A j \in 1 .. 13 : j \in {1, 2, 3, 4, 5, 6, 7, 8, 9, 10, 11, 12, 13}
      OBVIOUS
    <3>2. \A j \in {1, 2, 3, 5, 6, 7, 8, 9, 10} :
           /\ code[j].dst \subseteq Scratch
           /\ Has(code[j]) \subseteq Scratch
           /\ code[j].op \notin {"move", "atomic"}
      BY <2>2, InstructionIs DEF literal, s_waitcnt, Scratch, Has
    <3>3. \A j \in {4, 11, 12, 13} :
           /\ code[j].dst \subseteq Scratch
           /\ Has(code[j]) \subseteq Scratch \cup {v(u), v(u + 1)}
           /\ code[j].op = "move" => j \in {11, 12}
           /\ code[j].op = "atomic" => code[j].dst \subseteq {v(0), v(1), v(2)}
      BY <2>2, InstructionIs DEF Scratch, Has
    <3> QED
      BY <3>1, <3>2, <3>3
  <2>4. /\ code[11].op = "move" /\ code[11].dst = {v(0)} /\ code[11].src = {v(u)}
        /\ code[12].op = "move" /\ code[12].dst = {v(1)} /\ code[12].src = {v(u + 1)}
        /\ code[13].dst = {} /\ code[7].op = "wait" /\ "vmcnt" \in code[7].arg
    BY <2>2, InstructionIs DEF s_waitcnt, Counters
  <2>5. /\ i = 26 => i - 15 = 11
        /\ i = 27 => i - 15 = 12
        /\ i = 28 => i - 15 = 13
        /\ i = 22 => i - 15 = 7
        /\ i - 15 = 11 => i = 26
        /\ i - 15 = 12 => i = 27
    OBVIOUS
  <2>6. app # "instrcount"
    BY <1>6
  <2> QED
    BY <1>2, <1>4, <1>6, <2>1, <2>3, <2>4, <2>5, <2>6 DEF WaitAt
<1> QED
  BY <1>1, <1>5, <1>6

(* The waits around them.                                                  *)
LEMMA WaitsAre ==
  ASSUME Inputs, NEW i \in {1, 14, 15, Length(app)}
  PROVE  i \in 1 .. Length(app) /\ New[i] = s_waitcnt(Counters)
<1>1. i \in 1 .. Length(app)
  BY DEF Length, Work
<1> QED
  BY <1>1, UsedIs, InjectedIs DEF New

(* The first instruction that restores a register.                         *)
LEMMA BackIs ==
  ASSUME Inputs, NEW n \in 0 .. 11
  PROVE  /\ BackAt(app, n) \in 16 .. LoadAt(app, n) /\ BackAt(app, n) \in 1 .. Length(app)
         /\ LoadAt(app, n) \in Nat
         /\ New[BackAt(app, n)].op = "move"
         /\ New[BackAt(app, n)].dst = {Reg(n)} /\ New[BackAt(app, n)].src = {Home(n)}
<1>1. app = "memtrace" => Work(app) = 13
  BY DEF Work
<1>2. Work(app) \in {8, 13} /\ Length(app) = 28 + Work(app)
  BY DEF Work, Length
<1>3. CASE app = "memtrace" /\ n < 2
  <2>1. n \in {0, 1} /\ BackAt(app, n) = 26 + n /\ LoadAt(app, n) = 29 + n
    BY <1>1, <1>3 DEF BackAt, LoadAt
  <2>2. BackAt(app, n) \in 16 .. 15 + Work(app)
    BY <1>1, <1>3, <2>1
  <2>3. /\ New[BackAt(app, n)].op = "move"
        /\ New[BackAt(app, n)].dst = {Reg(n)} /\ New[BackAt(app, n)].src = {Home(n)}
    <3>1. 26 \in 16 .. 15 + Work(app) /\ 27 \in 16 .. 15 + Work(app)
      BY <1>1, <1>3
    <3>2. New[26].op = "move" /\ New[26].dst = {Reg(0)} /\ New[26].src = {Home(0)}
      BY <1>3, <3>1, WorkIs
    <3>3. New[27].op = "move" /\ New[27].dst = {Reg(1)} /\ New[27].src = {Home(1)}
      BY <1>3, <3>1, WorkIs
    <3>4. (n = 0 /\ BackAt(app, n) = 26) \/ (n = 1 /\ BackAt(app, n) = 27)
      BY <2>1
    <3> QED
      BY <3>2, <3>3, <3>4
  <2> QED
    BY <1>2, <2>1, <2>2, <2>3
<1>4. CASE ~(app = "memtrace" /\ n < 2)
  <2>1. BackAt(app, n) = LoadAt(app, n) /\ LoadAt(app, n) = 16 + Work(app) + n
    BY <1>4 DEF BackAt, LoadAt
  <2> QED
    BY <1>2, <2>1, MovesAre
<1> QED
  BY <1>3, <1>4

(* No other instruction moves a register.                                  *)
LEMMA OnlyMoves ==
  ASSUME Inputs, NEW j \in 1 .. Length(app), New[j].op = "move"
  PROVE  \E m \in 0 .. 11 :
            \/ j = m + 2 /\ New[j].dst = {Home(m)} /\ New[j].src = {Reg(m)}
            \/ /\ j \in {LoadAt(app, m), BackAt(app, m)}
               /\ New[j].dst = {Reg(m)} /\ New[j].src = {Home(m)}
<1>1. PICK w \in {8, 13} : w = Work(app) /\ Length(app) = 28 + w
  BY DEF Work, Length
<1>2. j \notin {1, 14, 15, 28 + w}
  BY <1>1, WaitsAre, InstructionIs DEF s_waitcnt
<1>3. CASE j \in 2 .. 13
  <2>1. j - 2 \in 0 .. 11 /\ j = (j - 2) + 2
    BY <1>3
  <2> QED
    BY <2>1, MovesAre
<1>4. CASE j \in 16 .. 15 + w
  <2>1. app = "memtrace" /\ j \in {26, 27}
    BY <1>1, <1>4, WorkIs
  <2>2. BackAt(app, 0) = 26 /\ BackAt(app, 1) = 27 /\ 0 \in 0 .. 11 /\ 1 \in 0 .. 11
    BY <2>1 DEF BackAt
  <2> QED
    BY <2>1, <2>2, BackIs
<1>5. CASE j \in 16 + w .. 27 + w
  <2>1. PICK m \in 0 .. 11 : j = 16 + w + m
    <3>1. j - 16 - w \in 0 .. 11 /\ j = 16 + w + (j - 16 - w)
      BY <1>1, <1>5
    <3> QED
      BY <3>1
  <2>2. j = LoadAt(app, m)
    BY <1>1, <2>1 DEF LoadAt
  <2> QED
    BY <2>2, MovesAre
<1> QED
  BY <1>1, <1>2, <1>3, <1>4, <1>5

(* The registers that are in their homes, by where the wavefront is.       *)
SavedFor(x) ==
    IF x \in section_size .. copy_at THEN saved_at[app][regsUsed][x - section_size] ELSE {}
Away(i) == {n \in 0 .. 11 : n + 2 < i /\ i <= BackAt(app, n)}

LEMMA SavedHere ==
  ASSUME Inputs, Exists, regsUsed = allotment.last, NEW i \in 1 .. Length(app) + 1
  PROVE  SavedFor(Here(i)) = {Reg(n) : n \in Away(i)}
<1> DEFINE at == StartOf(New, i)
           Moved(d, r) == \E j \in 1 .. Length(app) : /\ j < i
                                                      /\ New[j].op = "move"
                                                      /\ New[j].dst = {d} /\ New[j].src = {r}
<1>1. /\ Length(app) \in Nat /\ allotment.last \in Nat /\ allotment.last \in used_registers
      /\ new_text[app][allotment.last] = Layout(New)
      /\ DOMAIN Layout(New) = {StartOf(New, j) : j \in 1 .. Length(app)}
      /\ \A j \in 1 .. Length(app) : Layout(New)[StartOf(New, j)] = New[j]
      /\ Here(1) = section_size /\ Here(Length(app) + 1) = copy_at
  BY UsedIs, NewText
<1>2. \A j \in 1 .. Length(app) + 1 : StartOf(New, j) \in Nat
  <2>1. \A j \in 1 .. Length(app) : j \in Nat \ {0} /\ New[j].size \in {4, 8}
    BY <1>1, NewText
  <2>2. StartOf(New, Length(app) + 1) \in Nat
    BY <1>1, StartIs
  <2> QED
    BY <1>1, <2>1, <2>2, StartNext
<1>3. ASSUME NEW j \in 1 .. Length(app)
      PROVE  StartOf(New, j) < StartOf(New, i) <=> j < i
  <2>1. i \in Nat \ {0} /\ j \in Nat \ {0} /\ New[j].size \in {4, 8}
    BY <1>1, NewText
  <2>2. j < i => StartOf(New, j) + New[j].size <= StartOf(New, i)
    BY <2>1, StartApart
  <2>3. i <= j => StartOf(New, i) <= StartOf(New, j)
    BY <2>1, StartRises
  <2>4. StartOf(New, j) \in Nat /\ StartOf(New, i) \in Nat
    BY <1>1, <1>2
  <2> QED
    BY <2>1, <2>2, <2>3, <2>4
<1>4. at \in Nat /\ at <= new_size[app] /\ section_size \in Nat /\ Here(i) = section_size + at
      /\ copy_at = section_size + new_size[app] /\ new_size[app] \in Nat
  <2>1. section_size \in Nat /\ Here(i) = section_size + at
    BY SectionBehind DEF Here
  <2>2. new_size[app] = StartOf(New, Length(app) + 1)
    <3>1. PICK x \in Nat : x = StartOf(New, Length(app) + 1)
      BY <1>1, <1>2
    <3>2. PICK y : y = new_size[app]
      OBVIOUS
    <3>3. section_size + x = section_size + y
      BY <1>1, <3>1, <3>2 DEF Here, copy_at
    <3>4. y \in Nat
      <4>1. y = Bytes(injected(app, 0))
        BY <3>2 DEF new_size, Inputs
      <4>2. Len(injected(app, 0)) = Length(app)
        BY InjectedIs
      <4> QED
        BY <1>1, <4>1, <4>2, StartIs DEF Bytes
    <3> QED
      BY <2>1, <3>1, <3>2, <3>3, <3>4
  <2>3. i <= Length(app) + 1 /\ i \in Nat \ {0} /\ Length(app) + 1 \in Nat \ {0}
    BY <1>1
  <2>4. StartOf(New, i) <= StartOf(New, Length(app) + 1)
    BY <2>3, StartRises
  <2> QED
    BY <1>1, <1>2, <2>1, <2>2, <2>4 DEF copy_at
<1>5. SavedFor(Here(i)) = SavedAt(Layout(New), allotment.last, at)
  <2>1. Here(i) \in section_size .. copy_at /\ Here(i) - section_size = at
    BY <1>4
  <2>2. at \in 0 .. new_size[app] /\ app \in Apps
    BY <1>4 DEF Inputs
  <2>3. saved_at[app][allotment.last][at] = SavedAt(new_text[app][allotment.last], allotment.last, at)
    BY <1>1, <2>2 DEF saved_at
  <2> QED
    BY <1>1, <2>1, <2>3 DEF SavedFor
<1>6. ASSUME NEW d, NEW r
      PROVE  Moved(d, r) <=>
                \E a \in DOMAIN Layout(New) : /\ a < at
                                              /\ Layout(New)[a].op = "move"
                                              /\ Layout(New)[a].dst = {d} /\ Layout(New)[a].src = {r}
  BY <1>1, <1>3
<1>7. SavedAt(Layout(New), allotment.last, at) =
         {r \in {v(k) : k \in 0 .. 5} \cup {s(k) : k \in 0 .. 5} :
             Moved(savedTo(r, allotment.last), r) /\ ~Moved(r, savedTo(r, allotment.last))}
  <2>1. 0 .. to_save - 1 = 0 .. 5
    BY DEF to_save
  <2> HIDE DEF Moved, at
  <2> QED
    BY <1>6, <2>1 DEF SavedAt
<1>8. {v(k) : k \in 0 .. 5} \cup {s(k) : k \in 0 .. 5} = {Reg(n) : n \in 0 .. 11}
  <2>1. ASSUME NEW k \in 0 .. 5 PROVE v(k) = Reg(k) /\ k \in 0 .. 11 /\ s(k) = Reg(k + 6) /\ k + 6 \in 0 .. 11
    <3>1. k < 6 /\ ~(k + 6 < 6) /\ (k + 6) - 6 = k /\ k \in 0 .. 11 /\ k + 6 \in 0 .. 11
      OBVIOUS
    <3> QED
      BY <3>1 DEF Reg
  <2>2. ASSUME NEW n \in 0 .. 11 PROVE Reg(n) \in {v(k) : k \in 0 .. 5} \cup {s(k) : k \in 0 .. 5}
    <3>1. (n < 6 => n \in 0 .. 5) /\ (~(n < 6) => n - 6 \in 0 .. 5)
      OBVIOUS
    <3> QED
      BY <3>1 DEF Reg
  <2> QED
    BY <2>1, <2>2
<1>9. ASSUME NEW n \in 0 .. 11
      PROVE  /\ savedTo(Reg(n), allotment.last) = Home(n)
             /\ Moved(Home(n), Reg(n)) <=> n + 2 < i
             /\ Moved(Reg(n), Home(n)) <=> BackAt(app, n) < i
  <2>1. savedTo(Reg(n), allotment.last) = Home(n)
    BY HomesApart
  <2>2. n + 2 < i => Moved(Home(n), Reg(n))
    BY MovesAre
  <2>3. BackAt(app, n) < i => Moved(Reg(n), Home(n))
    BY BackIs
  <2>4. ASSUME NEW j \in 1 .. Length(app), New[j].op = "move", NEW d, NEW r,
               New[j].dst = {d}, New[j].src = {r},
               \/ d = Home(n) /\ r = Reg(n)
               \/ d = Reg(n) /\ r = Home(n)
        PROVE  \/ d = Home(n) /\ j = n + 2
               \/ d # Home(n) /\ j \in {LoadAt(app, n), BackAt(app, n)}
    <3>1. PICK m \in 0 .. 11 : \/ j = m + 2 /\ d = Home(m) /\ r = Reg(m)
                               \/ j \in {LoadAt(app, m), BackAt(app, m)} /\ d = Reg(m) /\ r = Home(m)
      BY <2>4, OnlyMoves
    <3>2. /\ Reg(m) = Reg(n) <=> m = n
          /\ Home(m) = Home(n) <=> m = n
          /\ ~(Home(m) = Reg(n) /\ Home(n) = Reg(m))
          /\ Home(n) # Reg(n)
      <4>1. Home(m) = Reg(n) => m < n
        BY HomesApart
      <4>2. Home(n) = Reg(m) => n < m
        BY HomesApart
      <4>3. Home(n) = Reg(n) => n < n
        BY HomesApart
      <4>4. (Reg(m) = Reg(n) <=> m = n) /\ (Home(m) = Home(n) <=> m = n)
        BY HomesApart
      <4> QED
        BY <4>1, <4>2, <4>3, <4>4
    <3> QED
      BY <2>4, <3>1, <3>2
  <2>5. Home(n) # Reg(n)
    <3>1. Home(n) = Reg(n) => n < n
      BY HomesApart
    <3> QED
      BY <3>1
  <2>6. Moved(Home(n), Reg(n)) => n + 2 < i
    BY <2>4, <2>5
  <2>7. Moved(Reg(n), Home(n)) => BackAt(app, n) < i
    <3>1. BackAt(app, n) \in Nat /\ BackAt(app, n) <= LoadAt(app, n) /\ LoadAt(app, n) \in Nat
      BY BackIs
    <3>2. i \in Nat
      BY <1>1
    <3>3. ASSUME NEW j \in {LoadAt(app, n), BackAt(app, n)}, j < i PROVE BackAt(app, n) < i
      BY <3>1, <3>2, <3>3
    <3> QED
      BY <2>4, <2>5, <3>3
  <2> QED
    BY <2>1, <2>2, <2>3, <2>6, <2>7
<1>10. \A n \in 0 .. 11 : ~(BackAt(app, n) < i) <=> i <= BackAt(app, n)
  <2>1. i \in Nat
    BY <1>1
  <2> QED
    BY <2>1, BackIs
<1> HIDE DEF Moved, at
<1> QED
  BY <1>5, <1>7, <1>8, <1>9, <1>10 DEF Away

(* What there is in the new code.                                          *)
LEMMA OneOf ==
  ASSUME NEW i \in 1 .. Length(app)
  PROVE  \/ i \in {1, 14, 15, Length(app)}
         \/ \E n \in 0 .. 11 : i = n + 2
         \/ i \in 16 .. 15 + Work(app)
         \/ \E n \in 0 .. 11 : i = LoadAt(app, n)
<1>1. PICK w \in {8, 13} : w = Work(app) /\ Length(app) = 28 + w
  BY DEF Work, Length
<1>2. CASE i \in 2 .. 13
  <2>1. i - 2 \in 0 .. 11 /\ i = (i - 2) + 2
    BY <1>2
  <2> QED
    BY <2>1
<1>3. CASE i \in 16 + w .. 27 + w
  <2>1. i - 16 - w \in 0 .. 11 /\ i = 16 + w + (i - 16 - w)
    BY <1>1, <1>3
  <2> QED
    BY <1>1, <2>1 DEF LoadAt
<1> QED
  BY <1>1, <1>2, <1>3

(* The registers of the program.                                           *)
Used == UNION {Has(original[a]) : a \in DOMAIN original}

LEMMA UsedIn ==
  ASSUME Inputs, NEW r \in Used
  PROVE  r \in Registers(allotment.own)
<1>1. PICK code \in Programs : original = Layout(code)
  BY DEF Inputs
<1>2. \A i \in DOMAIN code : Has(code[i]) \subseteq Registers(allotment.own)
  BY <1>1, ProgramAssumption DEF Inputs
<1>3. PICK a \in DOMAIN original : r \in Has(original[a])
  BY DEF Used
<1>4. PICK i \in DOMAIN code : original[a] = code[i]
  <2>1. /\ DOMAIN Layout(code) = {StartOf(code, i) : i \in 1 .. Len(code)}
        /\ \A i \in 1 .. Len(code) : Layout(code)[StartOf(code, i)] = code[i]
        /\ DOMAIN code = 1 .. Len(code)
    BY ProgramAssumption, KernelSized, LayoutIs
  <2>2. PICK i \in 1 .. Len(code) : a = StartOf(code, i)
    BY <1>1, <1>3, <2>1
  <2>3. original[a] = code[i] /\ i \in DOMAIN code
    BY <1>1, <2>1, <2>2
  <2> QED
    BY <2>3
<1> QED
  BY <1>2, <1>3, <1>4

(* None of them is the home of another, and those that are not saved are   *)
(* not worked with.                                                        *)
LEMMA UsedApart ==
  ASSUME Inputs, allotment.own <= allotment.last, NEW r \in Used
  PROVE  /\ \A m \in 0 .. 11 : r # Home(m)
         /\ \/ \E n \in 0 .. 11 : r = Reg(n)
            \/ \A n \in 0 .. 11 : r # Reg(n) /\ r \notin Scratch \ {vcc}
<1>1. PICK u \in Nat, o \in Nat : u = allotment.last /\ o = allotment.own /\ o <= u
  BY InstrumentAssumption DEF Inputs
<1>2. \/ \E k \in 0 .. o - 1 : r = v(k)
      \/ \E k \in 0 .. 7 : r = s(k)
      \/ r = vcc
  BY <1>1, UsedIn DEF Registers
<1>3. \A m \in 0 .. 11 : r # Home(m)
  <2>1. ASSUME NEW m \in 0 .. 11 PROVE r # Home(m)
    <3>1. Home(m) = v(u + m)
      BY <1>1 DEF Home
    <3>2. ASSUME NEW k \in 0 .. o - 1 PROVE v(k) # v(u + m)
      <4>1. k # u + m
        BY <1>1
      <4> QED
        BY <4>1, Apart
    <3> QED
      BY <1>2, <3>1, <3>2, Apart
  <2> QED
    BY <2>1
<1>4. \A c \in Scratch \ {vcc} : \E n \in 0 .. 11 : c = Reg(n)
  <2>1. /\ v(0) = Reg(0) /\ v(1) = Reg(1) /\ v(2) = Reg(2) /\ v(3) = Reg(3)
        /\ s(2) = Reg(8) /\ s(3) = Reg(9)
    BY DEF Reg
  <2>2. \A n \in {0, 1, 2, 3, 8, 9} : n \in 0 .. 11
    OBVIOUS
  <2> QED
    BY <2>1, <2>2 DEF Scratch
<1> QED
  BY <1>3, <1>4

(* The registers of the new code are granted.                              *)
LEMMA HasIn ==
  ASSUME Inputs, Exists, Sound, NEW i \in 1 .. Length(app)
  PROVE  Has(New[i]) \subseteq Registers(vgprs(allotment.own))
<1>1. PICK u \in Nat, g \in Nat : u = allotment.last /\ g = vgprs(allotment.own) /\ u + 12 <= g
  <2>2. PICK u : u = allotment.last
    OBVIOUS
  <2>3. PICK g : g = vgprs(allotment.own)
    OBVIOUS
  <2>4. u \in Nat /\ g \in Nat
    BY <2>2, <2>3, InstrumentAssumption DEF Inputs, vgprs
  <2>5. u + 2 * 6 <= g
    BY <2>2, <2>3 DEF Sound, RegistersFit, to_save
  <2> QED
    BY <2>2, <2>3, <2>4, <2>5
<1>2. \A k \in 0 .. g - 1 : v(k) \in Registers(g)
  BY DEF Registers
<1>3. \A k \in 0 .. 7 : s(k) \in Registers(g)
  BY DEF Registers
<1>4. vcc \in Registers(g)
  BY DEF Registers
<1>5. Scratch \subseteq Registers(g)
  <2>1. \A k \in {0, 1, 2, 3} : k \in 0 .. g - 1
    BY <1>1
  <2>2. 2 \in 0 .. 7 /\ 3 \in 0 .. 7
    OBVIOUS
  <2> QED
    BY <1>2, <1>3, <1>4, <2>1, <2>2 DEF Scratch
<1>6. ASSUME NEW n \in 0 .. 11 PROVE Home(n) \in Registers(g) /\ Reg(n) \in Registers(g)
  <2>1. u + n \in 0 .. g - 1 /\ (n < 6 => n \in 0 .. g - 1) /\ (~(n < 6) => n - 6 \in 0 .. 7)
    BY <1>1
  <2> QED
    BY <1>1, <1>2, <1>3, <2>1 DEF Home, Reg
<1>7. CASE i \in {1, 14, 15, Length(app)}
  BY <1>7, WaitsAre, InstructionIs DEF s_waitcnt, Has
<1>8. CASE \E n \in 0 .. 11 : i = n + 2
  BY <1>1, <1>6, <1>8, MovesAre DEF Has
<1>9. CASE i \in 16 .. 15 + Work(app)
  <2>1. 0 \in 0 .. 11 /\ 1 \in 0 .. 11
    OBVIOUS
  <2> QED
    BY <1>1, <1>5, <1>6, <1>9, <2>1, WorkIs
<1>10. CASE \E n \in 0 .. 11 : i = LoadAt(app, n)
  BY <1>1, <1>6, <1>10, MovesAre DEF Has
<1> QED
  BY <1>7, <1>8, <1>9, <1>10, OneOf

(* Where a register of the program is before the i-th instruction.         *)
At(r, i) == IF \E n \in Away(i) : r = Reg(n) THEN savedTo(r, allotment.last) ELSE r

LEMMA AtIs ==
  ASSUME Inputs, NEW n \in 0 .. 11, NEW i
  PROVE  At(Reg(n), i) = IF n + 2 < i /\ i <= BackAt(app, n) THEN Home(n) ELSE Reg(n)
<1>1. \A m \in 0 .. 11 : Reg(m) = Reg(n) <=> m = n
  BY HomesApart
<1>2. savedTo(Reg(n), allotment.last) = Home(n)
  BY HomesApart
<1> QED
  BY <1>1, <1>2 DEF At, Away

(* An instruction of the new code leaves a register of the program alone,  *)
(* moves it to where it then is, or restores it once more.                 *)
LEMMA Carried ==
  ASSUME Inputs, Exists, Sound, NEW i \in 1 .. Length(app), NEW r \in Used
  PROVE  \/ At(r, i + 1) = At(r, i) /\ At(r, i) \notin New[i].dst
         \/ /\ New[i].op = "move"
            /\ New[i].dst = {At(r, i + 1)} /\ New[i].src = {At(r, i)}
         \/ /\ New[i].op = "move"
            /\ At(r, i) = r /\ At(r, i + 1) = r /\ New[i].dst = {r}
            /\ \E n \in {0, 1} : /\ r = Reg(n) /\ app = "memtrace"
                                 /\ i = LoadAt(app, n) /\ New[i].src = {Home(n)}
<1>1. PICK w \in {8, 13} : /\ w = Work(app) /\ Length(app) = 28 + w
                           /\ app = "memtrace" => w = 13
  BY DEF Work, Length
<1>2. allotment.own <= allotment.last /\ FlagsFree
  BY DEF Sound, RegistersFit
<1>3. \A m \in 0 .. 11 : r # Home(m)
  BY <1>2, UsedApart
<1>4. \A n \in 0 .. 11 : BackAt(app, n) = IF app = "memtrace" /\ n < 2 THEN 26 + n ELSE 16 + w + n
  BY <1>1 DEF BackAt, LoadAt
<1>5. CASE \E n \in 0 .. 11 : r = Reg(n)
  <2>1. PICK n \in 0 .. 11 : r = Reg(n)
    BY <1>5
  <2>2. PICK back \in Nat : back = BackAt(app, n)
                            /\ back = IF app = "memtrace" /\ n < 2 THEN 26 + n ELSE 16 + w + n
    BY <1>1, <1>4
  <2>3. \A j \in Nat : At(r, j) = IF n + 2 < j /\ j <= back THEN Home(n) ELSE r
    BY <2>1, <2>2, AtIs
  <2>4. i \in Nat /\ i + 1 \in Nat
    BY <1>1
  <2>5. /\ At(r, i) = IF n + 2 < i /\ i <= back THEN Home(n) ELSE r
        /\ At(r, i + 1) = IF n + 2 < i + 1 /\ i + 1 <= back THEN Home(n) ELSE r
    BY <2>3, <2>4
  <2>6. CASE i \in {1, 14, 15, Length(app)}
    <3>1. New[i].dst = {}
      BY <2>6, WaitsAre, InstructionIs DEF s_waitcnt
    <3>2. At(r, i + 1) = At(r, i)
      BY <1>1, <2>2, <2>5, <2>6
    <3> QED
      BY <3>1, <3>2
  <2>7. ASSUME NEW m \in 0 .. 11, i = m + 2
        PROVE  \/ At(r, i + 1) = At(r, i) /\ At(r, i) \notin New[i].dst
               \/ /\ New[i].op = "move"
                  /\ New[i].dst = {At(r, i + 1)} /\ New[i].src = {At(r, i)}
    <3>1. New[i].op = "move" /\ New[i].dst = {Home(m)} /\ New[i].src = {Reg(m)}
      BY <2>7, MovesAre
    <3>2. CASE m = n
      <4>1. At(r, i) = r /\ At(r, i + 1) = Home(n)
        BY <1>1, <2>2, <2>5, <2>7, <3>2
      <4> QED
        BY <2>1, <3>1, <3>2, <4>1
    <3>3. CASE m # n
      <4>1. At(r, i + 1) = At(r, i) /\ At(r, i) \in {r, Home(n)}
        BY <1>1, <2>2, <2>5, <2>7, <3>3
      <4>2. Home(m) # Home(n)
        BY <3>3, HomesApart
      <4> QED
        BY <1>3, <3>1, <4>1, <4>2
    <3> QED
      BY <3>2, <3>3
  <2>8. CASE i \in 16 .. 15 + w
    <3>1. CASE i <= back /\ i # back
      <4>1. At(r, i) = Home(n) /\ At(r, i + 1) = Home(n)
        BY <1>1, <2>2, <2>5, <2>8, <3>1
      <4>2. New[i].dst \subseteq Scratch /\ Home(n) \notin Scratch
        BY <1>1, <2>8, WorkIs, HomesApart
      <4> QED
        BY <4>1, <4>2
    <3>2. CASE i = back
      <4>1. At(r, i) = Home(n) /\ At(r, i + 1) = r
        BY <1>1, <2>2, <2>5, <2>8, <3>2
      <4> QED
        BY <2>1, <2>2, <3>2, <4>1, BackIs
    <3>3. CASE ~(i <= back)
      <4>1. At(r, i) = r /\ At(r, i + 1) = r
        BY <1>1, <2>2, <2>5, <2>8, <3>3
      <4>2. app = "memtrace" /\ ((i = 27 /\ n = 0) \/ i = 28)
        BY <1>1, <2>2, <2>8, <3>3
      <4>3. i = 28 => New[i].dst = {}
        BY <1>1, <2>8, <4>2, WorkIs
      <4>4. i = 27 => New[i].dst = {Reg(1)}
        BY <1>1, <2>8, <4>2, WorkIs
      <4>5. 0 \in 0 .. 11 /\ 1 \in 0 .. 11 /\ Reg(0) # Reg(1)
        BY HomesApart
      <4> QED
        BY <2>1, <4>1, <4>2, <4>3, <4>4, <4>5
    <3> QED
      BY <3>1, <3>2, <3>3
  <2>9. ASSUME NEW m \in 0 .. 11, i = LoadAt(app, m)
        PROVE  \/ At(r, i + 1) = At(r, i) /\ At(r, i) \notin New[i].dst
               \/ /\ New[i].op = "move"
                  /\ New[i].dst = {At(r, i + 1)} /\ New[i].src = {At(r, i)}
               \/ /\ New[i].op = "move"
                  /\ At(r, i) = r /\ At(r, i + 1) = r /\ New[i].dst = {r}
                  /\ \E k \in {0, 1} : /\ r = Reg(k) /\ app = "memtrace"
                                       /\ i = LoadAt(app, k) /\ New[i].src = {Home(k)}
    <3>1. New[i].op = "move" /\ New[i].dst = {Reg(m)} /\ New[i].src = {Home(m)}
      BY <2>9, MovesAre
    <3>2. i = 16 + w + m
      BY <1>1, <2>9 DEF LoadAt
    <3>3. CASE m = n /\ ~(app = "memtrace" /\ n < 2)
      <4>1. At(r, i) = Home(n) /\ At(r, i + 1) = r
        BY <1>1, <2>2, <2>5, <3>2, <3>3
      <4> QED
        BY <2>1, <3>1, <3>3, <4>1
    <3>4. CASE m = n /\ app = "memtrace" /\ n < 2
      <4>1. At(r, i) = r /\ At(r, i + 1) = r
        BY <1>1, <2>2, <2>5, <3>2, <3>4
      <4>2. n \in {0, 1}
        BY <3>4
      <4> QED
        BY <2>1, <2>9, <3>1, <3>4, <4>1, <4>2
    <3>5. CASE m # n
      <4>1. At(r, i + 1) = At(r, i)
        BY <1>1, <2>2, <2>5, <3>2, <3>5
      <4>2. Reg(m) # Reg(n)
        BY <3>5, HomesApart
      <4>3. At(r, i) = Home(n) => At(r, i) # Reg(m)
        <5>1. Home(n) = Reg(m) => n < m
          BY HomesApart
        <5>2. At(r, i) = Home(n) => i <= back
          BY <1>3, <2>5
        <5>3. i <= back => ~(n < m)
          BY <1>1, <2>2, <3>2
        <5> QED
          BY <5>1, <5>2, <5>3
      <4> QED
        BY <2>1, <2>5, <3>1, <4>1, <4>2, <4>3
    <3> QED
      BY <3>3, <3>4, <3>5
  <2> QED
    BY <1>1, <2>6, <2>7, <2>8, <2>9, OneOf
<1>6. CASE ~ \E n \in 0 .. 11 : r = Reg(n)
  <2>1. \A j : At(r, j) = r
    BY <1>6 DEF At, Away
  <2>2. r \notin Scratch \ {vcc} /\ \A n \in 0 .. 11 : r # Reg(n)
    <3>1. 0 \in 0 .. 11
      OBVIOUS
    <3> QED
      BY <1>2, <1>6, <3>1, UsedApart
  <2>3. r \notin New[i].dst
    <3>1. CASE i \in {1, 14, 15, Length(app)}
      BY <3>1, WaitsAre, InstructionIs DEF s_waitcnt
    <3>2. CASE \E n \in 0 .. 11 : i = n + 2
      BY <1>3, <3>2, MovesAre
    <3>3. CASE i \in 16 .. 15 + Work(app)
      <4>1. New[i].dst \subseteq Scratch /\ (app = "instrcount" => vcc \notin New[i].dst)
        BY <3>3, WorkIs
      <4>2. app = "memtrace" => r # vcc
        BY <1>2 DEF FlagsFree, Used
      <4>3. app \in {"instrcount", "memtrace"}
        BY InstrumentAssumption DEF Inputs
      <4> QED
        BY <2>2, <4>1, <4>2, <4>3
    <3>4. CASE \E n \in 0 .. 11 : i = LoadAt(app, n)
      BY <2>2, <3>4, MovesAre
    <3> QED
      BY <3>1, <3>2, <3>3, <3>4, OneOf
  <2> QED
    BY <2>1, <2>3
<1> QED
  BY <1>5, <1>6

(* While what the atomic returns is awaited, no register of the program is *)
(* where it may be written.                                                *)
LEMMA AnswerApart ==
  ASSUME Inputs, Exists, Sound, NEW i \in AtomicAt(app) + 1 .. WaitAt(app), NEW r \in Used
  PROVE  /\ i \in 1 .. Length(app)
         /\ At(r, i) \notin {v(0), v(1), v(2)}
<1>1. PICK w \in {8, 13} : /\ w = Work(app) /\ Length(app) = 28 + w
                           /\ app = "instrcount" => w = 8
                           /\ app = "memtrace" => w = 13
                           /\ app \in {"instrcount", "memtrace"}
  BY InstrumentAssumption DEF Work, Length, Inputs
<1>2. (i \in 20 .. 22 /\ w = 13) \/ (i = 23 /\ w = 8)
  BY <1>1 DEF AtomicAt, WaitAt
<1>3. allotment.own <= allotment.last
  BY DEF Sound, RegistersFit
<1>4. {v(0), v(1), v(2)} \subseteq Scratch \ {vcc}
  BY Apart DEF Scratch
<1>5. CASE \E n \in 0 .. 11 : r = Reg(n)
  <2>1. PICK n \in 0 .. 11 : r = Reg(n)
    BY <1>5
  <2>2. n + 2 < i /\ i <= BackAt(app, n)
    BY <1>1, <1>2 DEF BackAt, LoadAt
  <2>3. At(r, i) = Home(n)
    BY <2>1, <2>2, AtIs
  <2>4. Home(n) \notin Scratch
    BY HomesApart
  <2> QED
    BY <1>1, <1>2, <1>4, <2>3, <2>4
<1>6. CASE ~ \E n \in 0 .. 11 : r = Reg(n)
  <2>1. At(r, i) = r
    BY <1>6 DEF At, Away
  <2>2. r \notin Scratch \ {vcc}
    <3>1. 0 \in 0 .. 11
      OBVIOUS
    <3> QED
      BY <1>3, <1>6, <3>1, UsedApart
  <2> QED
    BY <1>1, <1>2, <1>4, <2>1, <2>2
<1> QED
  BY <1>5, <1>6

-----------------------------------------------------------------------------
(* The wavefront that would have been *)

Number == 0 .. Values - 1

(* The refinement mapping, of what is given it.                            *)
RegFor(r, st, rg, saved) ==
    IF st = "host" THEN Contents(r)
    ELSE IF (IF r \in saved THEN savedTo(r, regsUsed) ELSE r) \in DOMAIN rg
    THEN rg[IF r \in saved THEN savedTo(r, regsUsed) ELSE r]
    ELSE Foreign
PcFor(x, h) ==
    IF ~Exists THEN x
    ELSE IF x >= section_size THEN IF x <= copy_at THEN offset ELSE offset + instr.size
    ELSE IF h = "patched" /\ x = offset + 4 /\ instr.size = 8 THEN offset + 8
    ELSE x

LEMMA OrigIs ==
  /\ Saved = SavedFor(pc)
  /\ OrigPc = PcFor(pc, host)
  /\ DOMAIN OrigRegs = Used
  /\ OrigRegs = [r \in Used |-> RegFor(r, status, regs, Saved)]
<1>1. OrigRegs = [r \in Used |-> RegFor(r, status, regs, Saved)]
  BY DEF OrigRegs, RegFor, Used
<1> QED
  BY <1>1 DEF Saved, SavedFor, OrigPc, PcFor, InNewCode

LEMMA OrigThen ==
  ASSUME UNCHANGED <<input, regsUsed>>
  PROVE  /\ Used' = Used
         /\ Saved' = SavedFor(pc')
         /\ OrigPc' = PcFor(pc', host')
         /\ OrigRegs' = [r \in Used |-> RegFor(r, status', regs', SavedFor(pc'))]
<1>1. /\ original' = original /\ app' = app /\ regsUsed' = regsUsed
  BY DEF input
<1>2. /\ Exists' = Exists /\ offset' = offset /\ instr' = instr /\ section_size' = section_size
      /\ copy_at' = copy_at
  BY SameCode
<1>3. Used' = Used
  BY <1>1 DEF Used
<1>4. Saved' = SavedFor(pc')
  BY <1>1, <1>2 DEF Saved, SavedFor
<1>5. OrigPc' = PcFor(pc', host')
  BY <1>2 DEF OrigPc, PcFor, InNewCode
<1>6. OrigRegs' = [r \in Used |-> RegFor(r, status', regs', Saved')]
  <2>1. \A r : RegFor(r, status, regs, Saved)' = RegFor(r, status', regs', Saved')
    BY <1>1 DEF RegFor
  <2>2. OrigRegs' = [r \in Used |-> RegFor(r, status, regs, Saved)]'
    BY <1>1 DEF OrigRegs, RegFor, Used
  <2> QED
    BY <1>3, <2>1, <2>2
<1> QED
  BY <1>3, <1>4, <1>5, <1>6

(* The program's memory operations: outside of the new code there are no   *)
(* others, and what they bring are the program's values.                   *)
OwnLoads == \A p \in pending : p.dst \in Used /\ p.value \in Number

LEMMA NumberIs ==
  ASSUME NEW x \in Number
  PROVE  /\ x # Foreign /\ x \in Value
         /\ Successor(x) = (x + 1) % Values /\ Loaded(x) = (x + 2) % Values
         /\ Successor(x) \in Number /\ Loaded(x) \in Number
<1>1. Values \in Nat \ {0} /\ Foreign \notin Nat
  BY WaveAssumption
<1>2. x \in Nat /\ x # Foreign
  BY <1>1 DEF Number
<1> QED
  BY <1>1, <1>2 DEF Number, Value, Successor, Loaded

(* A kernel runs in its own registers.                                     *)
LEMMA UsedGranted ==
  ASSUME Shape, Sound, host = "patched"
  PROVE  Used \subseteq Registers(granted) /\ Registers(allotment.own) \subseteq Registers(granted)
<1>1. PICK o \in Nat, g \in Nat : o = allotment.own /\ g = granted /\ o <= g
  <2>1. granted = vgprs(allotment.own) /\ allotment.own <= vgprs(allotment.own) /\ Inputs
    BY DEF Shape, Described, Sound, StillGranted
  <2>2. allotment.own \in Nat /\ vgprs(allotment.own) \in Nat
    BY <2>1, InstrumentAssumption DEF Inputs, vgprs
  <2> QED
    BY <2>1, <2>2
<1>2. 0 .. o - 1 \subseteq 0 .. g - 1
  BY <1>1
<1>3. Registers(o) \subseteq Registers(g)
  BY <1>2 DEF Registers
<1> QED
  BY <1>1, <1>3, UsedIn DEF Shape

(* Where no register is saved, the wavefront has the registers it would    *)
(* have had.                                                               *)
LEMMA OwnRegs ==
  ASSUME Shape, Sound, Run, host = "patched", DOMAIN regs = Registers(granted),
         Saved = {}, Saved' = {}
  PROVE  /\ Used \subseteq DOMAIN regs
         /\ OrigRegs = [r \in Used |-> regs[r]]
         /\ OrigRegs' = [r \in Used |-> regs'[r]] /\ Used' = Used
         /\ UNCHANGED regs => OrigRegs' = OrigRegs
         /\ original' = original /\ status = "run"
<1>1. /\ Inputs /\ UNCHANGED <<input, regsUsed>>
      /\ original' = original /\ status = "run" /\ status' # "host" /\ DOMAIN regs' = DOMAIN regs
  BY RunShapes DEF RunShape, Shape, input
<1>2. Used \subseteq DOMAIN regs
  BY UsedGranted
<1>3. OrigRegs = [r \in Used |-> regs[r]]
  BY <1>1, <1>2, OrigIs DEF RegFor
<1>4. OrigRegs' = [r \in Used |-> regs'[r]] /\ Used' = Used
  <2>1. OrigRegs' = [r \in Used |-> RegFor(r, status', regs', SavedFor(pc'))] /\ SavedFor(pc') = {}
    BY <1>1, OrigThen
  <2>2. \A r \in Used : r \in DOMAIN regs'
    BY <1>1, <1>2
  <2> QED
    BY <1>1, <2>1, <2>2, OrigThen DEF RegFor
<1> QED
  BY <1>1, <1>2, <1>3, <1>4

(* A memory operation of the program completes as it would have.           *)
LEMMA OwnComplete ==
  ASSUME Shape, Sound, Run, host = "patched", OwnLoads, DOMAIN regs = Registers(granted),
         \A r \in Used : OrigRegs[r] \in Number,
         Saved = {}, Saved' = {}, Complete, OrigPc' = OrigPc
  PROVE  /\ Orig!Execute
         /\ \A r \in Used : OrigRegs'[r] \in Number
         /\ OwnLoads'
<1>1. /\ Used \subseteq DOMAIN regs
      /\ OrigRegs = [r \in Used |-> regs[r]]
      /\ OrigRegs' = [r \in Used |-> regs'[r]] /\ Used' = Used
      /\ original' = original /\ status = "run"
  BY OwnRegs
<1>2. PICK p \in pending : Assign({p.dst}, p.value) /\ pending' = pending \ {p}
  BY DEF Complete
<1>3. UNCHANGED <<text, status, pc, stored>> /\ p.value \in Number
  BY <1>2 DEF Complete, OwnLoads
<1> DEFINE Program == {q \in pending : q.value # Foreign}
<1>4. p \in Program /\ Program' = Program \ {p}
  BY <1>2, <1>3, NumberIs
<1> HIDE DEF Program
<1>5. Orig!Assign({p.dst}, p.value)
  BY <1>1, <1>2 DEF Assign, Orig!Assign
<1>6. \A r \in Used : OrigRegs'[r] \in Number
  BY <1>1, <1>2, <1>3 DEF Assign
<1>7. OwnLoads'
  BY <1>1, <1>2 DEF OwnLoads
<1>8. Orig!Complete
  BY <1>1, <1>3, <1>4, <1>5 DEF Orig!Complete, Program
<1> QED
  BY <1>6, <1>7, <1>8 DEF Orig!Execute

(* A step by which nothing of the program changes.                         *)
LEMMA Detour ==
  ASSUME Shape, Sound, Run, host = "patched", OwnLoads, DOMAIN regs = Registers(granted),
         \A r \in Used : OrigRegs[r] \in Number,
         Saved = {}, Saved' = {}, UNCHANGED <<status, regs, pending, stored>>, OrigPc' = OrigPc
  PROVE  /\ UNCHANGED Orig!wave
         /\ \A r \in Used : OrigRegs'[r] \in Number
         /\ OwnLoads'
<1>1. OrigRegs' = OrigRegs /\ Used' = Used /\ original' = original
  BY OwnRegs
<1>2. {p \in pending : p.value # Foreign}' = {p \in pending : p.value # Foreign}
  OBVIOUS
<1> QED
  BY <1>1, <1>2 DEF Orig!wave, OwnLoads

(* An instruction of the program does what it did in the old text.         *)
LEMMA OwnStep ==
  ASSUME Shape, Sound, Run, host = "patched", OwnLoads, DOMAIN regs = Registers(granted),
         \A r \in Used : OrigRegs[r] \in Number,
         OrigPc \in DOMAIN original, pc \in DOMAIN text, text[pc] = original[OrigPc],
         Saved = {}, Saved' = {},
         pc' = pc + I.size => OrigPc' = OrigPc + I.size,
         pc' = pc => OrigPc' = OrigPc,
         (I.op = "branch" /\ pc' = pc + Relative(I.arg)) => OrigPc' = OrigPc + Relative(I.arg)
  PROVE  /\ Orig!Execute
         /\ \A r \in Used : OrigRegs'[r] \in Number
         /\ OwnLoads'
<1>1. /\ RunShape /\ Inputs /\ UNCHANGED <<text, input, host, regsUsed, granted>>
      /\ original' = original /\ status = "run" /\ status' # "host" /\ DOMAIN regs' = DOMAIN regs
  BY RunShapes DEF RunShape, Shape, input
<1>2. Used \subseteq DOMAIN regs
  BY OwnRegs
<1>3. OrigRegs = [r \in Used |-> regs[r]] /\ \A r \in Used : regs[r] \in Number
  BY OwnRegs
<1>4. OrigRegs' = [r \in Used |-> regs'[r]] /\ Used' = Used
  BY OwnRegs
<1>5. PICK J : J = original[OrigPc] /\ J = I /\ IsInstruction(J) /\ Has(J) \subseteq Used
  BY <1>1, InKernel DEF I, Used
<1>6. Orig!I = I
  BY <1>5 DEF Orig!I
<1>7. ASSUME NEW op, Executes(op) PROVE Orig!Executes(op) /\ I.op = op
  BY <1>3, <1>5, <1>7 DEF Executes, Orig!Executes, I, Has
<1>8. ASSUME I.src # {}
      PROVE  Orig!Operand = Operand /\ Operand \in Number
  <2>1. (CHOOSE r \in I.src : TRUE) \in Used
    BY <1>5, <1>8 DEF Has
  <2>2. Orig!Operand = OrigRegs[CHOOSE r \in I.src : TRUE]
    BY <1>6 DEF Orig!Operand
  <2> QED
    BY <1>3, <2>1, <2>2 DEF Operand
<1>9. \A x \in Number : Orig!Successor(x) = Successor(x) /\ Orig!Loaded(x) = Loaded(x)
  BY DEF Orig!Successor, Orig!Loaded, Successor, Loaded
<1>10. ASSUME NEW rs, NEW x, Assign(rs, x) PROVE Orig!Assign(rs, x)
  BY <1>2, <1>3, <1>4, <1>10 DEF Assign, Orig!Assign
<1>11. ASSUME UNCHANGED regs PROVE OrigRegs' = OrigRegs
  BY <1>3, <1>4, <1>11
<1>12. ASSUME NEW rs, NEW x \in Number, Assign(rs, x)
       PROVE  \A r \in Used : OrigRegs'[r] \in Number
  BY <1>2, <1>3, <1>4, <1>12 DEF Assign
<1> DEFINE Program == {p \in pending : p.value # Foreign}
<1>13. Onwards => Orig!Onwards
  BY <1>6 DEF Onwards, Orig!Onwards
<1>14. ASSUME UNCHANGED pending PROVE Program' = Program /\ OwnLoads'
  BY <1>1, <1>4, <1>14 DEF OwnLoads
<1> HIDE DEF Program
<1>15. CASE Compute
  <2>1. /\ Executes("alu") /\ Assign(I.dst, Successor(Operand)) /\ Onwards
        /\ UNCHANGED <<text, status, pending, stored>>
    BY <1>15 DEF Compute
  <2>2. I.src # {}
    BY <1>5, <1>7, <2>1 DEF IsInstruction
  <2>3. /\ Orig!Operand = Operand /\ Operand \in Number
        /\ Orig!Successor(Operand) = Successor(Operand) /\ Successor(Operand) \in Number
    BY <1>8, <1>9, <2>2, NumberIs
  <2>4. Orig!Assign(Orig!I.dst, Orig!Successor(Orig!Operand))
    BY <1>6, <1>10, <2>1, <2>3
  <2>5. \A r \in Used : OrigRegs'[r] \in Number
    BY <1>12, <2>1, <2>3
  <2>6. Orig!Compute
    BY <1>1, <1>7, <1>13, <1>14, <2>1, <2>4 DEF Orig!Compute, Program
  <2> QED
    BY <1>14, <2>1, <2>5, <2>6 DEF Orig!Execute
<1>16. CASE Copy \/ Literal \/ Atomic \/ Record \/ Jump
  <2>1. I.op \in {"move", "literal", "atomic", "record", "jump"}
    BY <1>16 DEF Copy, Literal, Atomic, Record, Jump, Executes, I
  <2> QED
    BY <1>5, <2>1 DEF IsInstruction
<1>17. CASE Load
  <2>1. /\ Executes("load") /\ Onwards /\ UNCHANGED <<text, status, regs, stored>>
        /\ pending' = pending \cup {[dst |-> r, value |-> Loaded(Operand), counter |-> I.arg] : r \in I.dst}
    BY <1>17 DEF Load
  <2>2. I.src # {}
    BY <1>5, <1>7, <2>1 DEF IsInstruction
  <2>3. PICK x \in Number : /\ Orig!Operand = Operand
                            /\ x = Loaded(Operand) /\ x = Orig!Loaded(Operand) /\ x # Foreign
    BY <1>8, <1>9, <2>2, NumberIs
  <2>4. OwnLoads'
    BY <1>4, <1>5, <2>1, <2>3 DEF OwnLoads, Has
  <2>5. Program' = Program \cup {[dst |-> r, value |-> x, counter |-> I.arg] : r \in I.dst}
    BY <2>1, <2>3 DEF Program
  <2>6. Orig!Load
    BY <1>1, <1>6, <1>7, <1>11, <1>13, <2>1, <2>3, <2>5 DEF Orig!Load, Program
  <2> QED
    BY <1>3, <1>11, <2>1, <2>4, <2>6 DEF Orig!Execute
<1>18. CASE Complete
  <2>1. pc' = pc
    BY <1>18 DEF Complete
  <2> QED
    BY <1>18, <2>1, OwnComplete
<1>19. CASE Store
  <2>1. /\ Executes("store") /\ stored' = Operand /\ Onwards
        /\ UNCHANGED <<text, status, regs, pending>>
    BY <1>19 DEF Store
  <2>2. I.src # {}
    BY <1>5, <1>7, <2>1 DEF IsInstruction
  <2>3. Orig!Store
    BY <1>1, <1>7, <1>8, <1>11, <1>13, <1>14, <2>1, <2>2 DEF Orig!Store, Program
  <2> QED
    BY <1>3, <1>11, <1>14, <2>1, <2>3 DEF Orig!Execute
<1>20. CASE Wait
  <2>1. Executes("wait") /\ Onwards /\ UNCHANGED <<text, status, regs, pending, stored>>
    BY <1>20 DEF Wait
  <2>2. \A p \in Program : p.counter \notin Orig!I.arg
    BY <1>6, <1>20 DEF Wait, Program
  <2>3. Orig!Wait
    BY <1>1, <1>7, <1>11, <1>13, <1>14, <2>1, <2>2 DEF Orig!Wait, Program
  <2> QED
    BY <1>3, <1>11, <1>14, <2>1, <2>3 DEF Orig!Execute
<1>21. CASE Nop
  <2>1. Executes("nop") /\ Onwards /\ UNCHANGED <<text, status, regs, pending, stored>>
    BY <1>21 DEF Nop
  <2>2. Orig!Nop
    BY <1>1, <1>7, <1>11, <1>13, <1>14, <2>1 DEF Orig!Nop, Program
  <2> QED
    BY <1>3, <1>11, <1>14, <2>1, <2>2 DEF Orig!Execute
<1>22. CASE Branch
  <2>1. Executes("branch") /\ (pc' = Target \/ Onwards)
        /\ UNCHANGED <<text, status, regs, pending, stored>>
    BY <1>22 DEF Branch
  <2>2. Orig!Relative(I.arg) = Relative(I.arg) /\ I.op = "branch"
    BY <1>7, <2>1 DEF Orig!Relative, Relative
  <2>3. pc' = Target => OrigPc' = Orig!Target
    BY <1>6, <2>2 DEF Target, Orig!Target
  <2>4. Orig!Branch
    BY <1>1, <1>7, <1>11, <1>13, <1>14, <2>1, <2>3 DEF Orig!Branch, Program
  <2> QED
    BY <1>3, <1>11, <1>14, <2>1, <2>4 DEF Orig!Execute
<1>23. CASE End
  <2>1. Executes("end") /\ status' = "done" /\ UNCHANGED <<text, pc, regs, pending, stored>>
    BY <1>23 DEF End
  <2>2. Orig!End
    BY <1>1, <1>7, <1>11, <1>14, <2>1 DEF Orig!End, Program
  <2> QED
    BY <1>3, <1>11, <1>14, <2>1, <2>2 DEF Orig!Execute
<1>24. CASE Fault
  <2>1. ~(I.dst \cup I.src \subseteq DOMAIN regs)
    BY <1>24 DEF Fault
  <2> QED
    BY <1>2, <1>5, <2>1 DEF Has
<1> QED
  BY <1>15, <1>16, <1>17, <1>18, <1>19, <1>20, <1>21, <1>22, <1>23, <1>24 DEF Run

(* What the atomic returns, awaited before the i-th instruction.           *)
Answers(ps, i) ==
    /\ \A p \in ps : /\ p.value = Foreign /\ p.counter = "vmcnt"
                     /\ p.dst \in {v(0), v(1), v(2)}
    /\ ps # {} => i \in AtomicAt(app) + 1 .. WaitAt(app)
(* The registers that MEMTRACE restores early are still in their homes.    *)
Twice(rg, i) ==
    app = "memtrace" =>
        /\ i \in 27 .. 29 => rg[Reg(0)] = rg[Home(0)]
        /\ i \in 28 .. 30 => rg[Reg(1)] = rg[Home(1)]

(* Where the registers of the program are in the new code.                 *)
LEMMA RegsAt ==
  ASSUME Shape, Sound, Exists, host = "patched", NEW i \in 1 .. Length(app) + 1,
         NEW rg, DOMAIN rg = Registers(granted), NEW st, st # "host", NEW r \in Used
  PROVE  /\ At(r, i) \in DOMAIN rg
         /\ RegFor(r, st, rg, SavedFor(Here(i))) = rg[At(r, i)]
<1>1. Inputs /\ regsUsed = allotment.last /\ granted = vgprs(allotment.own)
  BY DEF Shape, Described
<1>2. SavedFor(Here(i)) = {Reg(n) : n \in Away(i)}
  BY <1>1, SavedHere
<1>3. At(r, i) = IF r \in SavedFor(Here(i)) THEN savedTo(r, regsUsed) ELSE r
  BY <1>1, <1>2 DEF At
<1>4. At(r, i) \in DOMAIN rg
  <2>1. CASE \E n \in Away(i) : r = Reg(n)
    <3>1. PICK n \in 0 .. 11 : r = Reg(n) /\ n \in Away(i)
      BY <2>1 DEF Away
    <3>2. At(r, i) = Home(n)
      BY <1>1, <3>1, HomesApart DEF At
    <3>3. n + 2 \in 1 .. Length(app) /\ New[n + 2].dst = {Home(n)}
      BY <1>1, MovesAre
    <3>4. Home(n) \in Registers(vgprs(allotment.own))
      BY <1>1, <3>3, HasIn DEF Has
    <3> QED
      BY <1>1, <3>2, <3>4
  <2>2. CASE ~ \E n \in Away(i) : r = Reg(n)
    <3>1. At(r, i) = r
      BY <2>2 DEF At
    <3> QED
      BY <3>1, UsedGranted
  <2> QED
    BY <2>1, <2>2
<1> QED
  BY <1>3, <1>4 DEF RegFor

(* What the wavefront does in the new code.                                *)
LEMMA NewRun ==
  ASSUME Run, pc \in DOMAIN text, I.op \in {"wait", "move", "literal", "atomic", "record"},
         Has(I) \subseteq DOMAIN regs
  PROVE  /\ UNCHANGED <<status, stored>> /\ status = "run"
         /\ \/ Complete /\ pc' = pc
            \/ /\ I.op = "wait" /\ pc' = pc + I.size /\ UNCHANGED <<regs, pending>>
               /\ \A p \in pending : p.counter \notin I.arg
            \/ I.op = "move" /\ pc' = pc + I.size /\ Assign(I.dst, Operand) /\ UNCHANGED pending
            \/ I.op = "literal" /\ pc' = pc + I.size /\ Assign(I.dst, Foreign) /\ UNCHANGED pending
            \/ /\ I.op = "atomic" /\ pc' = pc + I.size /\ UNCHANGED regs
               /\ pending' = pending \cup {[dst |-> r, value |-> Foreign, counter |-> I.arg] : r \in I.dst}
            \/ I.op = "record" /\ pc' = pc + I.size /\ UNCHANGED <<regs, pending>>
<1>1. CASE Compute \/ Load \/ Store \/ Nop \/ Jump \/ Branch \/ End
  <2>1. I.op \in {"alu", "load", "store", "nop", "jump", "branch", "end"}
    BY <1>1 DEF Compute, Load, Store, Nop, Jump, Branch, End, Executes, I
  <2> QED
    BY <2>1
<1>2. CASE Fault
  BY <1>2 DEF Fault, Has
<1>3. CASE Complete
  BY <1>3 DEF Complete
<1>4. CASE Copy
  BY <1>4 DEF Copy, Executes, Onwards, I
<1>5. CASE Wait
  BY <1>5 DEF Wait, Executes, Onwards, I
<1>6. CASE Literal
  BY <1>6 DEF Literal, Executes, Onwards, I
<1>7. CASE Atomic
  BY <1>7 DEF Atomic, Executes, Onwards, I
<1>8. CASE Record
  BY <1>8 DEF Record, Executes, Onwards, I
<1> QED
  BY <1>1, <1>2, <1>3, <1>4, <1>5, <1>6, <1>7, <1>8 DEF Run

(* A step in the new code: nothing of the program changes, but a memory    *)
(* operation of its own may complete before the first wait ends.           *)
LEMMA NewStep ==
  ASSUME Shape, Sound, Exists, Run, host = "patched", DOMAIN regs = Registers(granted),
         \A r \in Used : OrigRegs[r] \in Number,
         NEW i \in 1 .. Length(app), pc = Here(i),
         IF i = 1 THEN OwnLoads ELSE Answers(pending, i),
         Twice(regs, i)
  PROVE  /\ UNCHANGED Orig!wave \/ Orig!Execute
         /\ \A r \in Used : OrigRegs'[r] \in Number
         /\ \E j \in {i, i + 1} :
               /\ pc' = Here(j)
               /\ Twice(regs', j)
               /\ IF j \in 2 .. Length(app) THEN Answers(pending', j) ELSE OwnLoads'
<1>1. /\ RunShape /\ Inputs /\ UNCHANGED <<text, input, host, regsUsed, granted>>
      /\ original' = original /\ status = "run" /\ status' # "host"
      /\ DOMAIN regs' = Registers(granted) /\ text = Patched /\ regsUsed = allotment.last
      /\ granted = vgprs(allotment.own)
  BY RunShapes DEF RunShape, Shape, TextIs, Described, input
<1>2. /\ Length(app) \in Nat /\ i \in Nat \ {0} /\ Here(1) = section_size
      /\ Here(Length(app) + 1) = copy_at /\ Here(i + 1) = Here(i) + New[i].size
      /\ i + 1 \in 1 .. Length(app) + 1 /\ i \in 1 .. Length(app) + 1
  BY <1>1, UsedIs, NewText
<1>3. /\ pc \in DOMAIN text /\ I = New[i]
      /\ New[i].op \in {"wait", "move", "literal", "atomic", "record"}
      /\ New[i].op = "atomic" <=> i = AtomicAt(app)
      /\ New[i].op = "atomic" => New[i].arg = "vmcnt"
  <2>1. /\ \A m \in 1 .. Length(app) : Patched[Here(m)] = New[m]
        /\ \A m \in 1 .. Length(app) : Here(m) \in DOMAIN Patched
    BY <1>1, PatchedIs
  <2>2. allotment.last \in Nat
    BY <1>1, UsedIs
  <2> QED
    BY <1>1, <2>1, <2>2, InjectedOps DEF I, New
<1>4. Has(I) \subseteq DOMAIN regs
  BY <1>1, <1>3, HasIn
<1>5. /\ UNCHANGED <<status, stored>> /\ status = "run"
      /\ \/ Complete /\ pc' = pc
         \/ /\ I.op = "wait" /\ pc' = pc + I.size /\ UNCHANGED <<regs, pending>>
            /\ \A p \in pending : p.counter \notin I.arg
         \/ I.op = "move" /\ pc' = pc + I.size /\ Assign(I.dst, Operand) /\ UNCHANGED pending
         \/ I.op = "literal" /\ pc' = pc + I.size /\ Assign(I.dst, Foreign) /\ UNCHANGED pending
         \/ /\ I.op = "atomic" /\ pc' = pc + I.size /\ UNCHANGED regs
            /\ pending' = pending \cup {[dst |-> r, value |-> Foreign, counter |-> I.arg] : r \in I.dst}
         \/ I.op = "record" /\ pc' = pc + I.size /\ UNCHANGED <<regs, pending>>
  BY <1>3, <1>4, NewRun
<1>6. /\ \A r \in Used : OrigRegs[r] = regs[At(r, i)] /\ At(r, i) \in DOMAIN regs
      /\ OrigRegs = [r \in Used |-> OrigRegs[r]]
      /\ Used' = Used
  BY <1>1, <1>2, OrigIs, OrigThen, RegsAt
<1>7. ASSUME NEW j \in 1 .. Length(app) + 1, pc' = Here(j)
      PROVE  /\ \A r \in Used : OrigRegs'[r] = regs'[At(r, j)] /\ At(r, j) \in DOMAIN regs
             /\ OrigRegs' = [r \in Used |-> OrigRegs'[r]]
  BY <1>1, <1>7, OrigThen, RegsAt
<1>8. PcFor(Here(i), "patched") = offset /\ PcFor(Here(i + 1), "patched") = offset
  <2>1. \A j \in 1 .. Length(app) + 1 : Here(j) \in Nat /\ section_size <= Here(j) /\ Here(j) <= copy_at
    BY <1>1, <1>2, PlacesApart
  <2> QED
    BY <1>2, <2>1 DEF PcFor
<1>9. OrigPc = offset /\ (pc' \in {Here(i), Here(i + 1)} => OrigPc' = offset)
  BY <1>1, <1>8, OrigIs, OrigThen
<1>10. ASSUME Complete PROVE
         /\ UNCHANGED Orig!wave \/ Orig!Execute
         /\ \A r \in Used : OrigRegs'[r] \in Number
         /\ \E j \in {i, i + 1} :
               /\ pc' = Here(j)
               /\ Twice(regs', j)
               /\ IF j \in 2 .. Length(app) THEN Answers(pending', j) ELSE OwnLoads'
  <2>1. pc' = Here(i) /\ OrigPc' = OrigPc
    BY <1>5, <1>9, <1>10 DEF Complete
  <2>2. CASE i = 1
    <3>1. SavedFor(Here(i)) = {}
      <4>1. Away(1) = {}
        BY DEF Away
      <4> QED
        BY <1>1, <1>2, <2>2, <4>1, SavedHere
    <3>2. Saved = {} /\ Saved' = {}
      BY <1>1, <2>1, <3>1, OrigIs, OrigThen
    <3>3. /\ Orig!Execute
          /\ \A r \in Used : OrigRegs'[r] \in Number
          /\ OwnLoads'
      BY <1>10, <2>1, <2>2, <3>2, OwnComplete
    <3>4. Twice(regs', i)
      BY <2>2 DEF Twice
    <3>5. i \notin 2 .. Length(app)
      BY <2>2
    <3> QED
      BY <2>1, <3>3, <3>4, <3>5
  <2>3. CASE i # 1
    <3>1. Answers(pending, i) /\ i \in 2 .. Length(app)
      BY <1>2, <2>3
    <3>2. PICK p \in pending : Assign({p.dst}, p.value) /\ pending' = pending \ {p}
      BY <1>10 DEF Complete
    <3>3. i \in AtomicAt(app) + 1 .. WaitAt(app) /\ p.dst \in {v(0), v(1), v(2)}
      BY <3>1, <3>2 DEF Answers
    <3>4. \A r \in Used : regs'[At(r, i)] = regs[At(r, i)]
      <4>1. \A r \in Used : At(r, i) \notin {v(0), v(1), v(2)}
        BY <1>1, <3>3, AnswerApart
      <4> QED
        BY <1>6, <3>2, <3>3, <4>1 DEF Assign
    <3>5. OrigRegs' = OrigRegs
      BY <1>2, <1>6, <1>7, <2>1, <3>4
    <3>6. {q \in pending : q.value # Foreign} = {} /\ {q \in pending : q.value # Foreign}' = {}
      BY <3>1, <3>2 DEF Answers
    <3>7. UNCHANGED Orig!wave
      BY <1>1, <1>5, <2>1, <3>5, <3>6 DEF Orig!wave
    <3>8. Answers(pending', i)
      BY <3>1, <3>2, <3>3 DEF Answers
    <3>9. Twice(regs', i)
      <4>1. i \notin 27 .. 29 /\ i \notin 28 .. 30
        BY <3>3 DEF AtomicAt, WaitAt
      <4> QED
        BY <4>1 DEF Twice
    <3> QED
      BY <2>1, <3>1, <3>5, <3>7, <3>8, <3>9
  <2> QED
    BY <2>2, <2>3
<1>11. ASSUME ~Complete PROVE
         /\ UNCHANGED Orig!wave
         /\ \A r \in Used : OrigRegs'[r] \in Number
         /\ pc' = Here(i + 1)
         /\ Twice(regs', i + 1)
         /\ IF i + 1 \in 2 .. Length(app) THEN Answers(pending', i + 1) ELSE OwnLoads'
  <2>1. pc' = Here(i + 1) /\ OrigPc' = OrigPc
    BY <1>2, <1>3, <1>5, <1>9, <1>11
  <2>2. ASSUME NEW q \in DOMAIN regs, q \notin New[i].dst PROVE regs'[q] = regs[q]
    BY <1>3, <1>5, <1>11, <2>2 DEF Assign
  <2>3. ASSUME New[i].op = "move", NEW d \in DOMAIN regs, NEW c, New[i].dst = {d}, New[i].src = {c}
        PROVE  regs'[d] = regs[c]
    <3>1. Assign({d}, Operand) /\ I.src = {c}
      BY <1>3, <1>5, <1>11, <2>3
    <3>2. (CHOOSE r \in I.src : TRUE) = c
      BY <3>1
    <3>3. Operand = regs[c]
      BY <3>2 DEF Operand
    <3> QED
      BY <3>1, <3>3 DEF Assign
  <2>4. ASSUME NEW r \in Used PROVE regs'[At(r, i + 1)] = regs[At(r, i)]
    <3>1. At(r, i) \in DOMAIN regs /\ At(r, i + 1) \in DOMAIN regs
      BY <1>2, <1>6, <1>7, <2>1
    <3>2. CASE At(r, i + 1) = At(r, i) /\ At(r, i) \notin New[i].dst
      BY <2>2, <3>1, <3>2
    <3>3. CASE /\ New[i].op = "move"
               /\ New[i].dst = {At(r, i + 1)} /\ New[i].src = {At(r, i)}
      BY <2>3, <3>1, <3>3
    <3>4. ASSUME New[i].op = "move", At(r, i) = r, At(r, i + 1) = r, New[i].dst = {r},
                 NEW n \in {0, 1}, r = Reg(n), app = "memtrace",
                 i = LoadAt(app, n), New[i].src = {Home(n)}
          PROVE  regs'[At(r, i + 1)] = regs[At(r, i)]
      <4>1. i = 29 + n
        BY <3>4 DEF LoadAt, Work
      <4>2. regs[Reg(n)] = regs[Home(n)]
        <5>1. n = 0 => i \in 27 .. 29
          BY <4>1
        <5>2. n = 1 => i \in 28 .. 30
          BY <4>1
        <5> QED
          BY <3>4, <5>1, <5>2 DEF Twice
      <4>3. regs'[r] = regs[Home(n)]
        BY <2>3, <3>1, <3>4
      <4> QED
        BY <3>4, <4>2, <4>3
    <3> QED
      BY <1>1, <3>2, <3>3, <3>4, Carried
  <2>5. OrigRegs' = OrigRegs
    BY <1>2, <1>6, <1>7, <2>1, <2>4
  <2>6. {q \in pending : q.value # Foreign}' = {q \in pending : q.value # Foreign}
    BY <1>5, <1>11
  <2>7. UNCHANGED Orig!wave
    BY <1>1, <1>5, <2>1, <2>5, <2>6 DEF Orig!wave
  <2>8. Twice(regs', i + 1)
    <3>1. CASE ~(app = "memtrace" /\ i + 1 \in 27 .. 30)
      <4>1. 27 .. 29 \subseteq 27 .. 30 /\ 28 .. 30 \subseteq 27 .. 30
        OBVIOUS
      <4> QED
        BY <3>1, <4>1 DEF Twice
    <3>2. CASE app = "memtrace" /\ i + 1 \in 27 .. 30
      <4>1. i \in {26, 27, 28, 29} /\ Work(app) = 13 /\ Length(app) = 41
        BY <3>2 DEF Work, Length
      <4>2. 0 \in 0 .. 11 /\ 1 \in 0 .. 11
        OBVIOUS
      <4>3. /\ Home(0) \in DOMAIN regs /\ Home(1) \in DOMAIN regs
            /\ Reg(0) \in DOMAIN regs /\ Reg(1) \in DOMAIN regs
        <5>1. /\ 0 + 2 \in 1 .. Length(app) /\ Has(New[0 + 2]) = {Home(0), Reg(0)}
              /\ 1 + 2 \in 1 .. Length(app) /\ Has(New[1 + 2]) = {Home(1), Reg(1)}
          BY <1>1, <4>2, MovesAre DEF Has
        <5> QED
          BY <1>1, <5>1, HasIn
      <4>4. /\ Reg(0) # Reg(1) /\ Home(0) # Reg(0) /\ Home(0) # Reg(1)
            /\ Home(1) # Reg(0) /\ Home(1) # Reg(1)
        <5>1. Reg(0) \in Scratch /\ Reg(1) \in Scratch
          BY DEF Reg, Scratch
        <5>2. Home(0) \notin Scratch /\ Home(1) \notin Scratch
          BY <1>1, <4>2, HomesApart
        <5>3. Reg(0) # Reg(1)
          BY <1>1, <4>2, HomesApart
        <5> QED
          BY <5>1, <5>2, <5>3
      <4>5. CASE i = 26
        <5>1. i \in 16 .. 15 + Work(app)
          BY <4>1, <4>5
        <5>2. New[i].op = "move" /\ New[i].dst = {Reg(0)} /\ New[i].src = {Home(0)}
          BY <1>1, <3>2, <4>5, <5>1, WorkIs
        <5>3. regs'[Reg(0)] = regs'[Home(0)]
          BY <2>2, <2>3, <4>3, <4>4, <5>2
        <5>4. i + 1 \notin 28 .. 30
          BY <4>5
        <5> QED
          BY <5>3, <5>4 DEF Twice
      <4>6. CASE i = 27
        <5>1. i \in 16 .. 15 + Work(app)
          BY <4>1, <4>6
        <5>2. New[i].op = "move" /\ New[i].dst = {Reg(1)} /\ New[i].src = {Home(1)}
          BY <1>1, <3>2, <4>6, <5>1, WorkIs
        <5>3. regs'[Reg(1)] = regs'[Home(1)]
          BY <2>2, <2>3, <4>3, <4>4, <5>2
        <5>4. regs[Reg(0)] = regs[Home(0)]
          BY <3>2, <4>6 DEF Twice
        <5>5. regs'[Reg(0)] = regs'[Home(0)]
          BY <2>2, <4>3, <4>4, <5>2, <5>4
        <5> QED
          BY <5>3, <5>5 DEF Twice
      <4>7. CASE i = 28
        <5>1. i \in 16 .. 15 + Work(app)
          BY <4>1, <4>7
        <5>2. New[i].dst = {}
          BY <1>1, <3>2, <4>7, <5>1, WorkIs
        <5>3. regs[Reg(0)] = regs[Home(0)] /\ regs[Reg(1)] = regs[Home(1)]
          BY <3>2, <4>7 DEF Twice
        <5>4. regs'[Reg(0)] = regs'[Home(0)] /\ regs'[Reg(1)] = regs'[Home(1)]
          BY <2>2, <4>3, <5>2, <5>3
        <5> QED
          BY <5>4 DEF Twice
      <4>8. CASE i = 29
        <5>1. LoadAt(app, 0) = i
          BY <4>1, <4>8 DEF LoadAt
        <5>2. New[i].dst = {Reg(0)}
          BY <1>1, <4>2, <5>1, MovesAre
        <5>3. regs[Reg(1)] = regs[Home(1)]
          BY <3>2, <4>8 DEF Twice
        <5>4. regs'[Reg(1)] = regs'[Home(1)]
          BY <2>2, <4>3, <4>4, <5>2, <5>3
        <5>5. i + 1 \notin 27 .. 29
          BY <4>8
        <5> QED
          BY <5>4, <5>5 DEF Twice
      <4> QED
        BY <4>1, <4>5, <4>6, <4>7, <4>8
    <3> QED
      BY <3>1, <3>2
  <2>9. IF i + 1 \in 2 .. Length(app) THEN Answers(pending', i + 1) ELSE OwnLoads'
    <3>1. /\ AtomicAt(app) \in 16 .. 15 + Work(app) /\ WaitAt(app) \in 16 .. 15 + Work(app)
          /\ AtomicAt(app) < WaitAt(app) /\ Length(app) = 28 + Work(app)
          /\ Work(app) \in {8, 13} /\ AtomicAt(app) \in Nat /\ WaitAt(app) \in Nat
      BY DEF AtomicAt, WaitAt, Work, Length
    <3>2. pending' = {} => (Answers(pending', i + 1) /\ OwnLoads')
      BY DEF Answers, OwnLoads
    <3>3. CASE New[i].op = "atomic"
      <4>1. /\ i = AtomicAt(app) /\ i + 1 \in AtomicAt(app) + 1 .. WaitAt(app)
            /\ i # 1 /\ i + 1 \in 2 .. Length(app) /\ i \notin AtomicAt(app) + 1 .. WaitAt(app)
        BY <1>3, <3>1, <3>3
      <4>2. pending = {}
        BY <4>1 DEF Answers
      <4>3. New[i].dst \subseteq {v(0), v(1), v(2)}
        BY <1>1, <3>1, <3>3, <4>1, WorkIs
      <4>4. pending' = {[dst |-> r, value |-> Foreign, counter |-> "vmcnt"] : r \in New[i].dst}
        BY <1>3, <1>5, <1>11, <3>3, <4>2
      <4>5. Answers(pending', i + 1)
        BY <4>1, <4>3, <4>4 DEF Answers
      <4> QED
        BY <4>1, <4>5
    <3>4. CASE New[i].op # "atomic"
      <4>1. pending' = pending
        BY <1>3, <1>5, <1>11, <3>4
      <4>2. CASE i = 1
        <5>1. I.op = "wait" /\ I.arg = Counters
          BY <1>1, <1>3, <4>2, WaitsAre, InstructionIs DEF s_waitcnt
        <5>2. \A p \in pending : p.counter \notin Counters
          BY <1>5, <1>11, <5>1
        <5>3. pending = {}
          BY <5>2 DEF Shape
        <5> QED
          BY <3>2, <4>1, <5>3
      <4>3. CASE i # 1 /\ i = WaitAt(app)
        <5>1. I.op = "wait" /\ "vmcnt" \in I.arg
          BY <1>1, <1>3, <3>1, <4>3, WorkIs
        <5>2. \A p \in pending : p.counter \notin I.arg
          BY <1>5, <1>11, <5>1
        <5>3. pending = {}
          BY <4>3, <5>1, <5>2 DEF Answers
        <5> QED
          BY <3>2, <4>1, <5>3
      <4>4. CASE i # 1 /\ i # WaitAt(app) /\ pending # {}
        <5>1. Answers(pending, i) /\ i \in AtomicAt(app) + 1 .. WaitAt(app)
          BY <4>4 DEF Answers
        <5>2. i + 1 \in AtomicAt(app) + 1 .. WaitAt(app) /\ i + 1 \in 2 .. Length(app)
          BY <3>1, <4>4, <5>1
        <5>3. Answers(pending', i + 1)
          BY <4>1, <5>1, <5>2 DEF Answers
        <5> QED
          BY <5>2, <5>3
      <4> QED
        BY <3>2, <4>1, <4>2, <4>3, <4>4
    <3> QED
      BY <3>3, <3>4
  <2> QED
    BY <1>6, <2>1, <2>5, <2>7, <2>8, <2>9
<1> QED
  BY <1>10, <1>11

(* What keeps the registers: in the kernel, and up to the wait that ends   *)
(* it, there are none but the program's memory operations; behind that     *)
(* wait none but the atomic's.  Without an instrumented instruction the    *)
(* wavefront stays in the kernel.                                          *)
Kept ==
    /\ status = "host" => pending = {}
    /\ (host = "patched" /\ status # "host" /\ Sound) =>
          /\ DOMAIN regs = Registers(granted)
          /\ \A r \in Used : OrigRegs[r] \in Number
          /\ ~Exists => pc \in DOMAIN original
          /\ IF Exists /\ \E i \in 1 .. Length(app) : pc = Here(i)
             THEN \E i \in 1 .. Length(app) : /\ pc = Here(i) /\ Twice(regs, i)
                                              /\ IF i = 1 THEN OwnLoads ELSE Answers(pending, i)
             ELSE OwnLoads

(* It is kept by a step of the wavefront that keeps its parts.             *)
LEMMA KeptAgain ==
  ASSUME Shape, Run, host = "patched", DOMAIN regs = Registers(granted),
         \A r \in Used : OrigRegs'[r] \in Number,
         ~Exists => pc' \in DOMAIN original,
         IF Exists /\ \E i \in 1 .. Length(app) : pc' = Here(i)
         THEN \E i \in 1 .. Length(app) : /\ pc' = Here(i) /\ Twice(regs', i)
                                          /\ IF i = 1 THEN OwnLoads' ELSE Answers(pending', i)
         ELSE OwnLoads'
  PROVE  Kept'
<1>1. /\ UNCHANGED <<text, input, host, regsUsed, granted>> /\ status' # "host"
      /\ DOMAIN regs' = DOMAIN regs
  BY RunShapes DEF RunShape
<1>2. /\ original' = original /\ app' = app /\ allotment' = allotment
      /\ Exists' = Exists /\ Used' = Used /\ \A i : Here(i)' = Here(i)
  BY <1>1, SameCode, OrigThen DEF input
<1>3. \A i : (Twice(regs, i))' = Twice(regs', i)
  BY <1>2 DEF Twice, Reg, Home
<1>4. \A i : (Answers(pending, i))' = Answers(pending', i)
  BY <1>2 DEF Answers
<1> QED
  BY <1>1, <1>2, <1>3, <1>4 DEF Kept

(* Where nothing is saved.                                                 *)
LEMMA NoneSaved ==
  ASSUME Inputs, Exists, regsUsed = allotment.last,
         NEW x \in Nat, x <= section_size \/ copy_at <= x
  PROVE  SavedFor(x) = {}
<1>1. /\ section_size \in Nat /\ copy_at \in Nat /\ section_size < copy_at
      /\ Here(1) = section_size /\ Here(Length(app) + 1) = copy_at
      /\ Length(app) = 28 + Work(app) /\ Work(app) \in {8, 13}
  BY PlacesApart, NewText DEF Length, Work
<1>2. x \in section_size .. copy_at => x = section_size \/ x = copy_at
  BY <1>1
<1>3. SavedFor(section_size) = {}
  <2>1. 1 \in 1 .. Length(app) + 1
    BY <1>1
  <2>2. Away(1) = {}
    BY DEF Away
  <2> QED
    BY <1>1, <2>1, <2>2, SavedHere
<1>4. SavedFor(copy_at) = {}
  <2>1. Length(app) + 1 \in 1 .. Length(app) + 1
    BY <1>1
  <2>2. Away(Length(app) + 1) = {}
    <3>1. ASSUME NEW n \in 0 .. 11 PROVE ~(Length(app) + 1 <= BackAt(app, n))
      <4>1. BackAt(app, n) \in 16 .. LoadAt(app, n) /\ LoadAt(app, n) = 16 + Work(app) + n
        BY BackIs DEF LoadAt
      <4> QED
        BY <1>1, <4>1
    <3> QED
      BY <3>1 DEF Away
  <2> QED
    BY <1>1, <2>1, <2>2, SavedHere
<1> QED
  BY <1>2, <1>3, <1>4 DEF SavedFor

(* The branches of the rewriting, and s_nop, only move the wavefront.      *)
LEMMA OnlyMove ==
  ASSUME Shape, Sound, Run, host = "patched", OwnLoads, DOMAIN regs = Registers(granted),
         \A r \in Used : OrigRegs[r] \in Number,
         pc \in DOMAIN text, I.op \in {"jump", "nop"}, Has(I) = {},
         NEW d, d = pc + (IF I.op = "nop" THEN I.size ELSE Relative(I.arg)),
         SavedFor(pc) = {}, SavedFor(d) = {}, PcFor(d, host) = PcFor(pc, host)
  PROVE  /\ UNCHANGED Orig!wave \/ Orig!Execute
         /\ \A r \in Used : OrigRegs'[r] \in Number
         /\ OwnLoads'
         /\ pc' \in {pc, d}
<1>1. \/ Complete /\ pc' = pc
      \/ pc' = d /\ UNCHANGED <<status, regs, pending, stored>>
  <2>1. CASE Compute \/ Load \/ Store \/ Branch \/ End \/ Copy \/ Wait \/ Literal \/ Atomic \/ Record
    <3>1. I.op \in {"alu", "load", "store", "branch", "end", "move", "wait", "literal",
                    "atomic", "record"}
      BY <2>1
         DEF Compute, Load, Store, Branch, End, Copy, Wait, Literal, Atomic, Record, Executes, I
    <3> QED
      BY <3>1
  <2>2. CASE Fault
    BY <2>2 DEF Fault, Has
  <2>3. CASE Complete
    BY <2>3 DEF Complete
  <2>4. CASE Nop
    BY <2>4 DEF Nop, Executes, Onwards, I
  <2>5. CASE Jump
    BY <2>5 DEF Jump, Executes, Target, I
  <2> QED
    BY <2>1, <2>2, <2>3, <2>4, <2>5 DEF Run
<1>2. UNCHANGED <<input, regsUsed, host>> /\ pc' \in {pc, d}
  BY <1>1, RunShapes DEF RunShape
<1>3. Saved = {} /\ Saved' = {} /\ OrigPc' = OrigPc
  BY <1>2, OrigIs, OrigThen
<1>4. CASE Complete /\ pc' = pc
  BY <1>2, <1>3, <1>4, OwnComplete
<1>5. CASE pc' = d /\ UNCHANGED <<status, regs, pending, stored>>
  BY <1>2, <1>3, <1>5, Detour
<1> QED
  BY <1>1, <1>4, <1>5

(* The wavefront on the rewritten .text.                                   *)
LEMMA KeptRun ==
  ASSUME Shape, Counted, Kept, Run, host = "patched", Exists, Sound
  PROVE  /\ UNCHANGED Orig!wave \/ Orig!Execute
         /\ Kept'
<1> DEFINE Goal == UNCHANGED Orig!wave \/ Orig!Execute
           Behind(x) == \E i \in 1 .. Length(app) : x = Here(i)
<1>1. /\ Inputs /\ text = Patched /\ regsUsed = allotment.last /\ Place
      /\ RunShape /\ UNCHANGED <<text, input, host, regsUsed, granted>>
      /\ status = "run" /\ status' # "host"
  BY RunShapes DEF Shape, TextIs, Described, Counted, RunShape
<1>2. /\ DOMAIN text = DOMAIN original \cup {offset + 4 : x \in {y \in {1} : instr.size = 8}}
                       \cup {Here(i) : i \in 1 .. Length(app)} \cup {copy_at, copy_at + instr.size}
      /\ text[offset] = s_branch(offset, section_size)
      /\ instr.size = 8 => text[offset + 4] = s_nop
      /\ \A i \in 1 .. Length(app) : text[Here(i)] = New[i]
      /\ text[copy_at] = instr
      /\ text[copy_at + instr.size] = jumpback
      /\ \A b \in DOMAIN original \ {offset} : text[b] = original[b]
  BY <1>1, PatchedIs
<1>3. /\ offset \in DOMAIN original /\ offset \in Nat /\ IsInstruction(instr)
      /\ instr.size \in {4, 8} /\ offset + instr.size <= section_size
      /\ instr.op # "end" => offset + instr.size \in DOMAIN original
      /\ section_size \in Nat /\ copy_at \in Nat /\ section_size < copy_at
      /\ \A a \in DOMAIN original : a \in Nat /\ a < section_size
      /\ \A i \in 1 .. Length(app) : Here(i) \in Nat /\ section_size <= Here(i) /\ Here(i) < copy_at
      /\ Length(app) \in Nat /\ AtomicAt(app) \in 2 .. Length(app) - 1
  BY <1>1, PlacesApart
<1>4. Here(1) = section_size /\ Here(Length(app) + 1) = copy_at /\ 1 \in 1 .. Length(app)
  BY <1>1, <1>3, NewText
<1>5. /\ offset + Relative(s_branch(offset, section_size).arg) = section_size
      /\ (copy_at + instr.size) + Relative(jumpback.arg) = offset + 4
      /\ instr.op # "branch"
  BY <1>1, JumpsReach DEF Sound, Relocatable
<1>6. /\ DOMAIN regs = Registers(granted)
      /\ \A r \in Used : OrigRegs[r] \in Number
      /\ IF Behind(pc)
         THEN \E i \in 1 .. Length(app) : /\ pc = Here(i) /\ Twice(regs, i)
                                          /\ IF i = 1 THEN OwnLoads ELSE Answers(pending, i)
         ELSE OwnLoads
  BY <1>1 DEF Kept
<1>7. ASSUME Goal, \A r \in Used : OrigRegs'[r] \in Number,
             IF Behind(pc')
             THEN \E i \in 1 .. Length(app) : /\ pc' = Here(i) /\ Twice(regs', i)
                                              /\ IF i = 1 THEN OwnLoads' ELSE Answers(pending', i)
             ELSE OwnLoads'
      PROVE  Goal /\ Kept'
  BY <1>6, <1>7, KeptAgain
<1> HIDE DEF Goal
(* Where OrigPc is in the kernel, and at the ends of the new code.         *)
<1>8. /\ \A x \in DOMAIN original : /\ SavedFor(x) = {} /\ ~Behind(x)
                                    /\ PcFor(x, "patched") = x
      /\ instr.size = 8 => /\ SavedFor(offset + 4) = {} /\ ~Behind(offset + 4)
                           /\ PcFor(offset + 4, "patched") = offset + 8
      /\ SavedFor(section_size) = {} /\ PcFor(section_size, "patched") = offset
      /\ SavedFor(copy_at) = {} /\ ~Behind(copy_at) /\ PcFor(copy_at, "patched") = offset
      /\ SavedFor(copy_at + instr.size) = {} /\ ~Behind(copy_at + instr.size)
      /\ PcFor(copy_at + instr.size, "patched") = offset + instr.size
  <2>1. \A x \in Nat : x <= section_size \/ copy_at <= x => SavedFor(x) = {}
    BY <1>1, NoneSaved
  <2>2. \A x \in Nat : x < section_size \/ copy_at <= x => ~Behind(x)
    BY <1>3
  <2>3. \A x \in DOMAIN original : ~(x = offset + 4 /\ instr.size = 8)
    BY <1>1, <1>3, InKernel DEF instr
  <2>4. ASSUME NEW x \in DOMAIN original
        PROVE  SavedFor(x) = {} /\ ~Behind(x) /\ PcFor(x, "patched") = x
    BY <1>3, <2>1, <2>2, <2>3 DEF PcFor
  <2>5. ASSUME instr.size = 8
        PROVE  /\ SavedFor(offset + 4) = {} /\ ~Behind(offset + 4)
               /\ PcFor(offset + 4, "patched") = offset + 8
    <3>1. offset + 4 \in Nat /\ offset + 4 < section_size
      BY <1>3, <2>5
    <3> QED
      BY <1>3, <2>1, <2>2, <2>5, <3>1 DEF PcFor
  <2>6. /\ copy_at + instr.size \in Nat /\ copy_at < copy_at + instr.size
        /\ section_size < copy_at + instr.size
    BY <1>3
  <2>7. /\ PcFor(section_size, "patched") = offset
        /\ PcFor(copy_at, "patched") = offset
        /\ PcFor(copy_at + instr.size, "patched") = offset + instr.size
    BY <1>3, <2>6 DEF PcFor
  <2>8. copy_at \in Nat /\ section_size \in Nat /\ copy_at <= copy_at /\ section_size <= section_size
    BY <1>3
  <2> QED
    BY <2>1, <2>2, <2>4, <2>5, <2>6, <2>7, <2>8
<1>9. /\ Saved = SavedFor(pc) /\ OrigPc = PcFor(pc, "patched")
      /\ Saved' = SavedFor(pc') /\ OrigPc' = PcFor(pc', "patched")
  BY <1>1, OrigIs, OrigThen
<1>10. Stays \/ Ends \/ Passes \/ Counts \/ Jumps
  BY RunMoves
<1> HIDE DEF Behind
<1>11. CASE pc \in DOMAIN original /\ pc # offset
  <2>1. /\ IsInstruction(original[pc]) /\ I = original[pc]
        /\ original[pc].op # "end" => pc + original[pc].size \in DOMAIN original
        /\ original[pc].op = "branch" => pc + Relative(original[pc].arg) \in DOMAIN original
    BY <1>1, <1>2, <1>11, InKernel DEF I
  <2>2. pc' \in DOMAIN original
    BY <1>10, <1>11, <2>1 DEF Stays, Ends, Passes, Counts, Jumps, IsInstruction
  <2>3. OwnLoads
    BY <1>6, <1>8, <1>11
  <2>4. Saved = {} /\ Saved' = {} /\ OrigPc = pc /\ OrigPc' = pc' /\ ~Behind(pc')
    BY <1>8, <1>9, <1>11, <2>2
  <2>5. pc \in DOMAIN text /\ text[pc] = original[pc]
    BY <1>2, <1>11
  <2>6. /\ Orig!Execute
        /\ \A r \in Used : OrigRegs'[r] \in Number
        /\ OwnLoads'
    BY <1>6, <1>11, <2>3, <2>4, <2>5, OwnStep
  <2> QED
    BY <1>7, <2>4, <2>6 DEF Goal
<1>12. CASE pc = offset
  <2>1. /\ I = s_branch(offset, section_size) /\ I.op = "jump" /\ Has(I) = {}
        /\ pc \in DOMAIN text
    BY <1>2, <1>3, <1>12, InstructionIs DEF I, s_branch, Has
  <2>2. pc + Relative(I.arg) = section_size
    BY <1>5, <1>12, <2>1
  <2>3. /\ SavedFor(pc) = {} /\ SavedFor(section_size) = {}
        /\ PcFor(section_size, "patched") = PcFor(pc, "patched") /\ ~Behind(pc)
    BY <1>3, <1>8, <1>12
  <2>4. /\ Goal
        /\ \A r \in Used : OrigRegs'[r] \in Number
        /\ OwnLoads'
        /\ pc' \in {pc, section_size}
    BY <1>6, <2>1, <2>2, <2>3, OnlyMove DEF Goal
  <2>5. CASE pc' = pc
    BY <1>7, <2>3, <2>4, <2>5 DEF Goal
  <2>6. CASE pc' = section_size
    <3>1. pc' = Here(1) /\ Twice(regs', 1)
      BY <1>4, <2>6 DEF Twice
    <3>2. \E i \in 1 .. Length(app) : /\ pc' = Here(i) /\ Twice(regs', i)
                                      /\ IF i = 1 THEN OwnLoads' ELSE Answers(pending', i)
      BY <1>4, <2>4, <3>1
    <3> QED
      BY <1>7, <2>4, <3>2 DEF Goal, Behind
  <2> QED
    BY <2>4, <2>5, <2>6
<1>13. CASE instr.size = 8 /\ instr.op # "end" /\ pc = offset + 4
  <2>1. I = s_nop /\ I.op = "nop" /\ I.size = 4 /\ Has(I) = {} /\ pc \in DOMAIN text
    BY <1>2, <1>13, InstructionIs DEF I, s_nop, Has
  <2>2. pc + I.size = offset + 8 /\ offset + 8 = offset + instr.size
        /\ offset + 8 \in DOMAIN original
    BY <1>3, <1>13, <2>1
  <2>3. /\ SavedFor(pc) = {} /\ SavedFor(offset + 8) = {} /\ ~Behind(pc) /\ ~Behind(offset + 8)
        /\ PcFor(offset + 8, "patched") = PcFor(pc, "patched")
    BY <1>8, <1>13, <2>2
  <2>4. /\ Goal
        /\ \A r \in Used : OrigRegs'[r] \in Number
        /\ OwnLoads'
        /\ pc' \in {pc, offset + 8}
    BY <1>6, <2>1, <2>2, <2>3, OnlyMove DEF Goal
  <2> QED
    BY <1>7, <2>3, <2>4 DEF Goal
<1>14. CASE \E i \in 1 .. Length(app) : pc = Here(i)
  <2>1. PICK i \in 1 .. Length(app) : /\ pc = Here(i) /\ Twice(regs, i)
                                      /\ IF i = 1 THEN OwnLoads ELSE Answers(pending, i)
    BY <1>6, <1>14 DEF Behind
  <2>2. /\ UNCHANGED Orig!wave \/ Orig!Execute
        /\ \A r \in Used : OrigRegs'[r] \in Number
        /\ \E j \in {i, i + 1} :
              /\ pc' = Here(j)
              /\ Twice(regs', j)
              /\ IF j \in 2 .. Length(app) THEN Answers(pending', j) ELSE OwnLoads'
    BY <1>6, <2>1, NewStep
  <2>3. PICK j \in {i, i + 1} : /\ pc' = Here(j)
                                /\ Twice(regs', j)
                                /\ IF j \in 2 .. Length(app) THEN Answers(pending', j) ELSE OwnLoads'
    BY <2>2
  <2>4. CASE j \in 1 .. Length(app)
    <3>1. \/ j = 1 /\ j \notin 2 .. Length(app)
          \/ j # 1 /\ j \in 2 .. Length(app)
      BY <1>3, <2>4
    <3>2. \E k \in 1 .. Length(app) : /\ pc' = Here(k) /\ Twice(regs', k)
                                      /\ IF k = 1 THEN OwnLoads' ELSE Answers(pending', k)
      BY <2>3, <2>4, <3>1
    <3> QED
      BY <1>7, <2>2, <2>4, <3>2 DEF Goal, Behind
  <2>5. CASE j \notin 1 .. Length(app)
    <3>1. j = Length(app) + 1 /\ j \notin 2 .. Length(app)
      BY <1>3, <2>5
    <3>2. OwnLoads' /\ ~Behind(pc')
      BY <1>4, <1>8, <2>3, <3>1
    <3> QED
      BY <1>7, <2>2, <3>2 DEF Goal
  <2> QED
    BY <2>4, <2>5
<1>15. CASE pc = copy_at
  <2>1. I = instr /\ pc \in DOMAIN text /\ I.op \notin {"jump", "branch", "atomic"}
    BY <1>2, <1>3, <1>5, <1>15 DEF I, IsInstruction
  <2>2. /\ OrigPc = offset /\ text[pc] = original[OrigPc] /\ OrigPc \in DOMAIN original
        /\ Saved = {} /\ ~Behind(pc)
    BY <1>2, <1>3, <1>8, <1>9, <1>15 DEF instr
  <2>3. pc' \in {copy_at, copy_at + instr.size}
    BY <1>10, <1>15, <2>1 DEF Stays, Ends, Passes, Counts, Jumps
  <2>4. /\ Saved' = {} /\ ~Behind(pc')
        /\ pc' = copy_at => OrigPc' = offset
        /\ pc' = copy_at + instr.size => OrigPc' = offset + instr.size
    BY <1>8, <1>9, <2>3
  <2>5. /\ Orig!Execute
        /\ \A r \in Used : OrigRegs'[r] \in Number
        /\ OwnLoads'
    BY <1>6, <1>15, <2>1, <2>2, <2>4, OwnStep
  <2> QED
    BY <1>7, <2>4, <2>5 DEF Goal
<1>16. CASE instr.op # "end" /\ pc = copy_at + instr.size
  <2>1. I = jumpback /\ I.op = "jump" /\ Has(I) = {} /\ pc \in DOMAIN text
    BY <1>2, <1>16, InstructionIs DEF I, jumpback, s_branch, Has
  <2>2. pc + Relative(I.arg) = offset + 4
    BY <1>5, <1>16, <2>1
  <2>3. /\ SavedFor(offset + 4) = {} /\ ~Behind(offset + 4)
        /\ PcFor(offset + 4, "patched") = offset + instr.size
    <3>1. CASE instr.size = 8
      BY <1>8, <3>1
    <3>2. CASE instr.size = 4
      <4>1. offset + 4 \in DOMAIN original
        BY <1>3, <1>16, <3>2
      <4> QED
        BY <1>8, <3>2, <4>1
    <3> QED
      BY <1>3, <3>1, <3>2
  <2>4. /\ SavedFor(pc) = {} /\ ~Behind(pc) /\ PcFor(pc, "patched") = offset + instr.size
    BY <1>8, <1>16
  <2>5. /\ Goal
        /\ \A r \in Used : OrigRegs'[r] \in Number
        /\ OwnLoads'
        /\ pc' \in {pc, offset + 4}
    BY <1>6, <2>1, <2>2, <2>3, <2>4, OnlyMove DEF Goal
  <2> QED
    BY <1>7, <2>3, <2>4, <2>5 DEF Goal
<1> QED
  BY <1>1, <1>11, <1>12, <1>13, <1>14, <1>15, <1>16 DEF Place, PlaceAt, Goal

(* The wavefront on a .text that was not rewritten.                        *)
LEMMA PlainRun ==
  ASSUME Shape, Kept, Run, host = "patched", ~Exists, Sound
  PROVE  /\ Orig!Execute
         /\ Kept'
<1>1. /\ Inputs /\ text = original /\ status = "run"
      /\ UNCHANGED <<text, input, host, regsUsed, granted>>
  BY RunShapes DEF Shape, TextIs, RunShape
<1>2. /\ DOMAIN regs = Registers(granted) /\ \A r \in Used : OrigRegs[r] \in Number
      /\ pc \in DOMAIN original /\ OwnLoads
  BY <1>1 DEF Kept
<1>3. /\ IsInstruction(original[pc]) /\ I = original[pc]
      /\ original[pc].op # "end" => pc + original[pc].size \in DOMAIN original
      /\ original[pc].op = "branch" => pc + Relative(original[pc].arg) \in DOMAIN original
  BY <1>1, <1>2, InKernel DEF I
<1>4. pc' \in DOMAIN original
  <2>1. Stays \/ Ends \/ Passes \/ Counts \/ Jumps
    BY RunMoves
  <2> QED
    BY <1>2, <1>3, <2>1 DEF Stays, Ends, Passes, Counts, Jumps, IsInstruction
<1>5. \A x \in DOMAIN original : SavedFor(x) = {} /\ PcFor(x, "patched") = x
  <2>1. \A x \in DOMAIN original : x \in Nat /\ original[x].size \in {4, 8}
    BY <1>1, InKernel
  <2>2. section_size \in Nat /\ \A x \in DOMAIN original : x + original[x].size <= section_size
    BY <1>1, SectionBehind
  <2>3. \A x \in DOMAIN original : x < section_size
    BY <2>1, <2>2
  <2> QED
    BY <2>1, <2>2, <2>3 DEF SavedFor, PcFor
<1>6. /\ Saved = {} /\ Saved' = {} /\ OrigPc = pc /\ OrigPc' = pc'
  BY <1>1, <1>2, <1>4, <1>5, OrigIs, OrigThen
<1>7. /\ Orig!Execute
      /\ \A r \in Used : OrigRegs'[r] \in Number
      /\ OwnLoads'
  BY <1>1, <1>2, <1>6, OwnStep
<1> QED
  BY <1>2, <1>4, <1>7, KeptAgain

(* Before the launch: the wavefront is the one it would have been.         *)
LEMMA AtHost ==
  ASSUME Inputs, status = "host", pc = 0
  PROVE  /\ Saved = {} /\ SavedFor(0) = {}
         /\ \A h : PcFor(0, h) = 0
         /\ OrigPc = 0 /\ OrigRegs = [r \in Used |-> Contents(r)]
<1>1. 0 \in DOMAIN original /\ section_size \in Nat /\ 0 < section_size
  <2>1. 0 \in DOMAIN original /\ original[0].size \in {4, 8}
    BY AtFirst, InKernel
  <2>2. section_size \in Nat /\ 0 + original[0].size <= section_size
    BY <2>1, SectionBehind
  <2> QED
    BY <2>1, <2>2
<1>2. SavedFor(0) = {}
  BY <1>1 DEF SavedFor
<1>3. ASSUME NEW h PROVE PcFor(0, h) = 0
  <2>1. Exists => 0 # offset + 4
    <3>1. Exists => offset \in Nat
      BY PlacesApart
    <3> QED
      BY <3>1
  <2> QED
    BY <1>1, <2>1 DEF PcFor
<1>4. Saved = {} /\ OrigPc = 0
  BY <1>2, <1>3, OrigIs
<1>5. OrigRegs = [r \in Used |-> Contents(r)]
  BY OrigIs DEF RegFor
<1> QED
  BY <1>2, <1>3, <1>4, <1>5

(* Rewriting does not change it.                                           *)
LEMMA HostStep ==
  ASSUME Shape, Kept, EditDescriptors \/ PatchText
  PROVE  UNCHANGED Orig!wave /\ Kept'
<1>1. /\ UNCHANGED <<status, pc, regs, pending, stored, input>>
      /\ host # "patched" /\ status = "host" /\ pc = 0 /\ Inputs /\ pending = {}
  BY DEF EditDescriptors, PatchText, Shape, Kept, wave
<1>2. original' = original /\ gap' = gap /\ app' = app
  BY <1>1 DEF input
<1>3. Exists' = Exists /\ offset' = offset /\ section_size' = section_size
  BY <1>2 DEF Exists, offset, section_size
<1>4. instr' = instr /\ copy_at' = copy_at
  BY <1>2, <1>3 DEF instr, copy_at
<1>5. /\ OrigPc = 0 /\ PcFor(0, host') = 0
      /\ OrigRegs = [r \in Used |-> Contents(r)]
  BY <1>1, AtHost
<1>6. OrigPc' = OrigPc
  BY <1>1, <1>3, <1>4, <1>5 DEF OrigPc, PcFor, InNewCode
<1>7. OrigRegs' = OrigRegs
  <2>1. OrigRegs' = [r \in Used' |-> Contents(r)]
    BY <1>1 DEF OrigRegs, Used
  <2> QED
    BY <1>2, <1>5, <2>1 DEF Used
<1>8. {p \in pending : p.value # Foreign}' = {p \in pending : p.value # Foreign}
  BY <1>1
<1>9. UNCHANGED Orig!wave
  BY <1>1, <1>2, <1>6, <1>7, <1>8 DEF Orig!wave
<1> QED
  BY <1>1, <1>9 DEF Kept

(* The launch.                                                             *)
LEMMA LaunchStep ==
  ASSUME Shape, Kept, Launch, Sound
  PROVE  Orig!Execute /\ Kept'
<1>1. /\ status = "host" /\ status' = "run" /\ pc = 0 /\ pending = {} /\ host = "patched" /\ Inputs
      /\ UNCHANGED <<text, pc, pending, stored, input, host, regsUsed, granted, count, executed>>
      /\ regs' = [r \in Registers(granted) |->
                    IF r \in Registers(allotment.own) THEN Contents(r) ELSE Foreign]
  BY DEF Launch, Shape, Kept
<1>2. /\ Saved = {} /\ SavedFor(0) = {} /\ PcFor(0, host) = 0
      /\ OrigPc = 0 /\ OrigRegs = [r \in Used |-> Contents(r)]
  BY <1>1, AtHost
<1>3. /\ Used' = Used /\ OrigPc' = PcFor(pc', host') /\ original' = original
      /\ Exists' = Exists /\ app' = app
      /\ OrigRegs' = [r \in Used |-> RegFor(r, status', regs', SavedFor(pc'))]
  BY <1>1, SameCode, OrigThen DEF input
<1>4. OrigPc' = OrigPc
  BY <1>1, <1>2, <1>3
<1>5. \A r \in Used : r \in Registers(granted) /\ r \in Registers(allotment.own)
  BY <1>1, UsedGranted, UsedIn
<1>6. OrigRegs' = OrigRegs
  <2>1. \A r \in Used : RegFor(r, status', regs', SavedFor(pc')) = Contents(r)
    BY <1>1, <1>2, <1>5 DEF RegFor
  <2> QED
    BY <1>2, <1>3, <2>1
<1>7. {p \in pending : p.value # Foreign}' = {p \in pending : p.value # Foreign}
  BY <1>1
<1>8. Orig!Start
  BY <1>1, <1>3, <1>4, <1>6, <1>7 DEF Orig!Start
<1>9. \A r \in Used : Contents(r) \in Number
  <2>1. \A r \in Registers(allotment.own) : r[2] \in Nat
    <3>1. allotment.own \in Nat
      BY <1>1, InstrumentAssumption DEF Inputs
    <3> QED
      BY <3>1 DEF Registers, v, s, vcc
  <2>2. \A r \in Registers(allotment.own) : Contents(r) \in Number
    BY <2>1, WaveAssumption DEF Contents, Number
  <2> QED
    BY <1>5, <2>2
<1>10. \A r \in Used : OrigRegs'[r] \in Number
  BY <1>2, <1>6, <1>9
<1>11. DOMAIN regs' = Registers(granted') /\ OwnLoads'
  BY <1>1 DEF OwnLoads
<1>12. 0 \in DOMAIN original
  BY <1>1, AtFirst
<1>13. Exists => \A i \in 1 .. Length(app) : pc # Here(i)
  <2>1. ASSUME Exists, NEW i \in 1 .. Length(app) PROVE pc # Here(i)
    <3>1. 0 < section_size /\ section_size \in Nat /\ Here(i) \in Nat /\ section_size <= Here(i)
      BY <1>1, <1>12, <2>1, PlacesApart
    <3> QED
      BY <1>1, <3>1
  <2> QED
    BY <2>1
<1>14. \A i : Here(i)' = Here(i)
  BY <1>1, SameCode
<1>15. Exists' => \A i \in 1 .. Length(app') : pc' # Here(i)'
  BY <1>1, <1>3, <1>13, <1>14
<1>16. ~(Exists /\ \E i \in 1 .. Length(app) : pc = Here(i))'
  BY <1>15
<1>17. pc' \in DOMAIN original' /\ \A r \in Used' : OrigRegs'[r] \in Number
  BY <1>1, <1>3, <1>10, <1>12
<1>18. Kept'
  BY <1>1, <1>11, <1>16, <1>17 DEF Kept
<1> QED
  BY <1>8, <1>18 DEF Orig!Execute

(* Kept at the start, and after each step.                                 *)
LEMMA KeptInit == ASSUME Init PROVE Kept
  BY DEF Init, Ready, Kept

LEMMA KeptStep ==
  ASSUME Shape, Counted, Kept, [Next]_vars
  PROVE  /\ Kept'
         /\ Sound => (UNCHANGED Orig!wave \/ Orig!Execute)
<1>1. CASE EditDescriptors \/ PatchText
  BY <1>1, HostStep
<1>2. CASE Launch
  <2>1. CASE Sound
    BY <1>2, <2>1, LaunchStep
  <2>2. CASE ~Sound
    <3>1. Sound' = Sound /\ status' # "host"
      BY <1>2, SameCode DEF Launch
    <3> QED
      BY <2>2, <3>1 DEF Kept
  <2> QED
    BY <2>1, <2>2
<1>3. CASE Run
  <2>1. /\ host = "patched" /\ status' # "host" /\ Sound' = Sound
    <3>1. RunShape
      BY <1>3, RunShapes
    <3>2. Sound' = Sound
      BY <3>1, SameCode DEF RunShape
    <3> QED
      BY <3>1, <3>2 DEF RunShape, Shape
  <2>2. CASE ~Sound
    BY <2>1, <2>2 DEF Kept
  <2>3. CASE Sound /\ Exists
    BY <1>3, <2>1, <2>3, KeptRun
  <2>4. CASE Sound /\ ~Exists
    BY <1>3, <2>1, <2>4, PlainRun
  <2> QED
    BY <2>2, <2>3, <2>4
<1>4. CASE UNCHANGED vars
  <2>1. UNCHANGED <<wave, input, host, regsUsed, granted>>
    BY <1>4 DEF vars
  <2>2. /\ UNCHANGED <<input, regsUsed, status, pc, regs, pending, stored, host, granted>>
        /\ original' = original /\ app' = app /\ allotment' = allotment
    BY <2>1 DEF input, wave
  <2>3. /\ Used' = Used /\ Exists' = Exists /\ Sound' = Sound /\ \A i : Here(i)' = Here(i)
    BY <2>2, SameCode, OrigThen
  <2>4. OrigPc' = OrigPc /\ OrigRegs' = OrigRegs
    <3>1. Saved' = Saved
      BY <2>2, OrigIs, OrigThen
    <3> QED
      BY <2>2, <3>1, OrigIs, OrigThen
  <2>5. UNCHANGED Orig!wave
    BY <2>2, <2>4 DEF Orig!wave
  <2>6. (\A i : (Twice(regs, i))' = Twice(regs, i)) /\ (\A i : (Answers(pending, i))' = Answers(pending, i))
    BY <2>2 DEF Twice, Answers, Reg, Home
  <2>7. OwnLoads' = OwnLoads
    BY <2>2, <2>3 DEF OwnLoads
  <2>8. Kept'
    BY <2>2, <2>3, <2>4, <2>6, <2>7 DEF Kept
  <2> QED
    BY <2>5, <2>8
<1> QED
  BY <1>1, <1>2, <1>3, <1>4 DEF Next

LEMMA KeptHolds == Spec => []Kept
<1>1. Init => Kept
  BY KeptInit
<1>2. Shape /\ Counted /\ Kept /\ [Next]_vars => Kept'
  BY KeptStep
<1> QED
  BY <1>1, <1>2, ShapeHolds, CountedHolds, PTL DEF Spec

(* Instrumenting does not change what a kernel does: every step of the     *)
(* wavefront on the rewritten .text is a step of the one on the original,  *)
(* with the same registers, loads and stores, or none of it can be seen.   *)
THEOREM TransparentHolds == Spec => Transparent
<1>1. /\ Shape /\ Counted /\ Kept /\ [Next]_vars
      => [Sound => (UNCHANGED Orig!wave \/ Orig!Execute)]_vars
  BY KeptStep
<1> QED
  BY <1>1, ShapeHolds, CountedHolds, KeptHolds, PTL DEF Spec, Transparent

(* What the rewriting counts on does not change.                           *)
LEMMA SoundStays ==
  ASSUME Shape, [Next]_vars
  PROVE  Sound' = Sound
<1>1. UNCHANGED input
  <2>1. Run => UNCHANGED input
    BY RunShapes DEF RunShape
  <2> QED
    BY <2>1 DEF Next, EditDescriptors, PatchText, Launch, vars
<1>2. original' = original /\ allotment' = allotment /\ gap' = gap /\ app' = app
  BY <1>1 DEF input
<1>3. Exists' = Exists /\ offset' = offset /\ section_size' = section_size
  BY <1>2 DEF Exists, offset, section_size
<1>4. instr' = instr /\ copy_at' = copy_at
  BY <1>2, <1>3 DEF instr, copy_at
<1> QED
  BY <1>2, <1>3, <1>4 DEF Sound, StillGranted, Relocatable, RegistersFit, InReach, FlagsFree

(* So the rewritten kernel implements the original one.                    *)
THEOREM Implements == Spec /\ Sound => Orig!Runs
<1>1. Init => Orig!Ready
  <2> SUFFICES ASSUME Init PROVE Orig!Ready
    OBVIOUS
  <2>1. Inputs /\ status = "host" /\ pc = 0 /\ pending = {} /\ stored = 0
    BY ShapeInit DEF Init, Ready, Shape
  <2>2. OrigPc = 0
    BY <2>1, AtHost
  <2> QED
    BY <2>1, <2>2 DEF Orig!Ready
<1>2. Shape /\ [Next]_vars => (Sound => Sound')
  BY SoundStays
<1>3. Shape /\ Counted /\ Kept /\ Sound /\ [Next]_vars => [Orig!Execute]_(Orig!wave)
  BY KeptStep
<1> QED
  BY <1>1, <1>2, <1>3, ShapeHolds, CountedHolds, KeptHolds, PTL DEF Spec, Orig!Runs

=============================================================================
