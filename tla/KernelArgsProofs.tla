--------------------------- MODULE KernelArgsProofs ---------------------------
(***************************************************************************)
(* Proofs about KernelArgs, for any code objects, addresses and values:    *)
(* the types, that every argument of the program arrives where the         *)
(* replayed kernel looks for it, that packing stays within the buffer but  *)
(* for one hidden argument, and that no lookup fails.                      *)
(*                                                                         *)
(* Offset, Insertions and to_string are defined by recursive functions.    *)
(* AfterIs, UptoIs and ToStringIs show that these exist, with NatSet for   *)
(* the induction; OffsetsRise, InsertionsStem and DigitsDiffer say what    *)
(* they are.  KeysDiffer: the keys of one name differ, whatever the number *)
(* of arguments; those of two names need KeysDistinct.  The inductive      *)
(* invariant IInv has the origin of every entry of the table (Entered):    *)
(* the number of a kernel's arguments is found only where these are,       *)
(* although insertions and launches are interleaved and later objects      *)
(* overwrite earlier ones.  From it, TableReads: what is read under a name *)
(* is the layout of one kernel of that name.                               *)
(***************************************************************************)
EXTENDS KernelArgs, ModArithmetic, FiniteSetTheorems, TLAPS

-----------------------------------------------------------------------------
(* The layout *)

(* Where the i-th argument ends, from where the one before it ends.        *)
Ends(e, s) == ((e + s - 1) \div s) * s + s
After(k) ==
    CHOOSE f : f = [i \in 0 .. Len(k.args) |->
        IF i = 0 THEN 0
        ELSE LET s == sizeof[k.args[i]]
             IN  ((f[i - 1] + s - 1) \div s) * s + s]

(* The definition of Offset unfolded.                                      *)
LEMMA OffsetIs ==
  ASSUME NEW k
  PROVE  Offset(k) = [i \in DOMAIN k.args |-> After(k)[i] - sizeof[k.args[i]]]
  BY DEF Offset, After

(* Ends ... are ends.                                                      *)
LEMMA EndsAre ==
  ASSUME NEW e \in Nat, NEW s \in {4, 8}
  PROVE  Ends(e, s) \in Nat /\ e + s <= Ends(e, s)
<1>1. CASE s = 4
  BY <1>1 DEF Ends
<1>2. CASE s = 8
  BY <1>2 DEF Ends
<1> QED
  BY <1>1, <1>2

(* There is a function that is as After says.                              *)
LEMMA AfterIs ==
  ASSUME NEW k, k.args \in Seq(Kinds)
  PROVE  After(k) = [i \in 0 .. Len(k.args) |->
             IF i = 0 THEN 0 ELSE Ends(After(k)[i - 1], sizeof[k.args[i]])]
<1> DEFINE Step(f, i) == IF i = 0 THEN 0 ELSE Ends(f[i - 1], sizeof[k.args[i]])
           Good == {n \in Nat : \E f : f = [i \in 0 .. n |-> Step(f, i)]}
<1>1. 0 \in Good
  <2> DEFINE f == [i \in 0 .. 0 |-> 0]
  <2>1. f = [i \in 0 .. 0 |-> Step(f, i)]
    OBVIOUS
  <2> HIDE DEF f
  <2> QED
    BY <2>1
<1>2. ASSUME NEW n \in Nat, n \in Good
      PROVE  n + 1 \in Good
  <2>1. PICK f : f = [i \in 0 .. n |-> Step(f, i)]
    BY <1>2
  <2> DEFINE g == [i \in 0 .. n + 1 |-> IF i <= n THEN f[i] ELSE Ends(f[n], sizeof[k.args[i]])]
  <2>2. \A i \in 0 .. n : g[i] = f[i]
    OBVIOUS
  <2>3. g[n + 1] = Ends(f[n], sizeof[k.args[n + 1]])
    OBVIOUS
  <2>4. \A i \in 0 .. n + 1 : g[i] = Step(g, i)
    <3> TAKE i \in 0 .. n + 1
    <3>1. CASE i = 0
      BY <3>1, <2>1, <2>2
    <3>2. CASE i # 0 /\ i <= n
      <4>1. f[i] = Step(f, i)
        BY <2>1, <3>2
      <4>2. i - 1 \in 0 .. n
        BY <3>2
      <4> HIDE DEF g
      <4> QED
        BY <4>1, <4>2, <3>2, <2>2
    <3>3. CASE i = n + 1
      <4>1. (n + 1) - 1 = n /\ n + 1 # 0
        OBVIOUS
      <4> HIDE DEF g
      <4>2. g[n] = f[n]
        BY <2>2
      <4> QED
        BY <4>1, <4>2, <2>3, <3>3
    <3> QED
      BY <3>1, <3>2, <3>3
  <2>5. g = [i \in 0 .. n + 1 |-> g[i]]
    OBVIOUS
  <2> HIDE DEF g
  <2>6. g = [i \in 0 .. n + 1 |-> Step(g, i)]
    BY <2>4, <2>5
  <2> QED
    BY <2>6
<1>3. Nat \subseteq Good
  <2> HIDE DEF Good
  <2> QED
    BY <1>1, <1>2, NatSet
<1>4. Len(k.args) \in Good
  <2> HIDE DEF Good
  <2> QED
    BY <1>3
<1>5. \E f : f = [i \in 0 .. Len(k.args) |-> Step(f, i)]
  BY <1>4
<1> QED
  BY <1>5 DEF After, Ends

(* What sizeof is.                                                         *)
LEMMA Sizes ==
  ASSUME NEW kind \in Kinds
  PROVE  /\ sizeof[kind] \in {4, 8} /\ sizeof[kind] \in Nat
         /\ kind # "number" => sizeof[kind] = 8
  BY DEF sizeof, Kinds

(* Ends are offsets, and each argument ends behind the one before it.      *)
LEMMA AfterRises ==
  ASSUME NEW k, k.args \in Seq(Kinds)
  PROVE  /\ \A i \in 0 .. Len(k.args) : After(k)[i] \in Nat
         /\ \A i \in 1 .. Len(k.args) : After(k)[i - 1] + sizeof[k.args[i]] <= After(k)[i]
<1>1. \A i \in 1 .. Len(k.args) : After(k)[i] = Ends(After(k)[i - 1], sizeof[k.args[i]])
  BY AfterIs
<1>2. Len(k.args) \in Nat /\ \A i \in 1 .. Len(k.args) : k.args[i] \in Kinds
  OBVIOUS
<1>3. After(k)[0] = 0
  BY <1>2, AfterIs
<1> DEFINE S == {n \in Nat : n <= Len(k.args) => After(k)[n] \in Nat}
<1>4. 0 \in S
  BY <1>3
<1>5. ASSUME NEW n \in Nat, n \in S
      PROVE  n + 1 \in S
  <2> SUFFICES ASSUME n + 1 <= Len(k.args) PROVE After(k)[n + 1] \in Nat
    OBVIOUS
  <2>1. n + 1 \in 1 .. Len(k.args) /\ (n + 1) - 1 = n /\ After(k)[n] \in Nat
    BY <1>2, <1>5
  <2>2. After(k)[n + 1] = Ends(After(k)[n], sizeof[k.args[n + 1]])
    BY <2>1, <1>1
  <2>3. sizeof[k.args[n + 1]] \in {4, 8}
    BY <2>1, <1>2, Sizes
  <2> QED
    BY <2>1, <2>2, <2>3, EndsAre
<1>6. Nat \subseteq S
  <2> HIDE DEF S
  <2> QED
    BY <1>4, <1>5, NatSet
<1>7. \A i \in 0 .. Len(k.args) : After(k)[i] \in Nat
  BY <1>2, <1>6
<1>8. ASSUME NEW i \in 1 .. Len(k.args)
      PROVE  After(k)[i - 1] + sizeof[k.args[i]] <= After(k)[i]
  <2>1. i - 1 \in 0 .. Len(k.args)
    BY <1>2
  <2>2. After(k)[i - 1] \in Nat /\ sizeof[k.args[i]] \in {4, 8}
    BY <2>1, <1>7, <1>2, Sizes
  <2>3. After(k)[i] = Ends(After(k)[i - 1], sizeof[k.args[i]])
    BY <1>1
  <2> QED
    BY <2>2, <2>3, EndsAre
<1> QED
  BY <1>7, <1>8

(* Arguments do not overlap, and come in the order of their numbers.       *)
LEMMA OffsetsRise ==
  ASSUME NEW k, k.args \in Seq(Kinds)
  PROVE  /\ DOMAIN Offset(k) = DOMAIN k.args
         /\ \A i \in DOMAIN k.args : Offset(k)[i] \in Nat
         /\ \A i, j \in DOMAIN k.args :
                i < j => Offset(k)[i] + sizeof[k.args[i]] <= Offset(k)[j]
<1> DEFINE A(i) == After(k)[i]
           z(i) == sizeof[k.args[i]]
<1>1. DOMAIN k.args = 1 .. Len(k.args) /\ Len(k.args) \in Nat
  OBVIOUS
<1>2. \A i \in DOMAIN k.args : z(i) \in Nat
  BY Sizes
<1>3. /\ \A i \in 0 .. Len(k.args) : A(i) \in Nat
      /\ \A i \in 1 .. Len(k.args) : A(i - 1) + z(i) <= A(i)
  BY AfterRises
<1>4. \A i \in DOMAIN k.args : Offset(k)[i] = A(i) - z(i)
  BY OffsetIs
<1> HIDE DEF A, z
<1>5. \A i \in DOMAIN k.args : i - 1 \in 0 .. Len(k.args) /\ i \in 0 .. Len(k.args)
  BY <1>1
<1>6. \A i \in DOMAIN k.args : Offset(k)[i] \in Nat /\ A(i - 1) <= Offset(k)[i]
  BY <1>1, <1>2, <1>3, <1>4, <1>5
<1>7. ASSUME NEW i \in DOMAIN k.args
      PROVE  \A j \in DOMAIN k.args : i < j => A(i) <= A(j - 1)
  <2> DEFINE S == {n \in Nat : i + n <= Len(k.args) => A(i) <= A(i + n)}
  <2>1. 0 \in S
    BY <1>1, <1>3, <1>5
  <2>2. ASSUME NEW n \in Nat, n \in S
        PROVE  n + 1 \in S
    <3> SUFFICES ASSUME i + (n + 1) <= Len(k.args) PROVE A(i) <= A(i + (n + 1))
      OBVIOUS
    <3>1. /\ i + (n + 1) \in 1 .. Len(k.args) /\ (i + (n + 1)) - 1 = i + n
          /\ i + n \in 0 .. Len(k.args) /\ i \in 0 .. Len(k.args)
      BY <1>1
    <3>2. A(i + n) + z(i + (n + 1)) <= A(i + (n + 1)) /\ A(i) <= A(i + n)
      BY <2>2, <3>1, <1>3
    <3>3. A(i + n) \in Nat /\ A(i + (n + 1)) \in Nat /\ A(i) \in Nat /\ z(i + (n + 1)) \in Nat
      BY <3>1, <1>1, <1>2, <1>3
    <3> QED
      BY <3>2, <3>3
  <2>3. Nat \subseteq S
    <3> HIDE DEF S
    <3> QED
      BY <2>1, <2>2, NatSet
  <2>4. ASSUME NEW j \in DOMAIN k.args, i < j
        PROVE  A(i) <= A(j - 1)
    <3>1. (j - 1) - i \in Nat /\ i + ((j - 1) - i) = j - 1 /\ j - 1 <= Len(k.args)
      BY <1>1, <2>4
    <3>2. (j - 1) - i \in S
      BY <3>1, <2>3
    <3> QED
      BY <3>1, <3>2
  <2> QED
    BY <2>4
<1>8. ASSUME NEW i \in DOMAIN k.args, NEW j \in DOMAIN k.args, i < j
      PROVE  Offset(k)[i] + z(i) <= Offset(k)[j]
  <2>1. A(i) <= A(j - 1) /\ A(j - 1) <= Offset(k)[j] /\ Offset(k)[i] = A(i) - z(i)
    BY <1>4, <1>6, <1>7, <1>8
  <2>2. A(i) \in Nat /\ A(j - 1) \in Nat /\ z(i) \in Nat /\ Offset(k)[j] \in Nat
    BY <1>2, <1>3, <1>5, <1>6
  <2> QED
    BY <2>1, <2>2
<1>9. DOMAIN Offset(k) = DOMAIN k.args
  BY OffsetIs
<1> QED
  BY <1>6, <1>8, <1>9 DEF z

(* Two kernels of which one's arguments begin like the other's.            *)
LEMMA OffsetsAgree ==
  ASSUME NEW k, NEW l, k.args \in Seq(Kinds), l.args \in Seq(Kinds),
         \A i \in DOMAIN k.args \cap DOMAIN l.args : k.args[i] = l.args[i],
         NEW i \in DOMAIN k.args \cap DOMAIN l.args
  PROVE  Offset(k)[i] = Offset(l)[i]
<1> DEFINE S == {n \in Nat : n <= Len(k.args) /\ n <= Len(l.args) => After(k)[n] = After(l)[n]}
<1>1. Len(k.args) \in Nat /\ Len(l.args) \in Nat
      /\ DOMAIN k.args = 1 .. Len(k.args) /\ DOMAIN l.args = 1 .. Len(l.args)
  OBVIOUS
<1>2. 0 \in S
  BY <1>1, AfterIs
<1>3. ASSUME NEW n \in Nat, n \in S
      PROVE  n + 1 \in S
  <2> SUFFICES ASSUME n + 1 <= Len(k.args), n + 1 <= Len(l.args)
               PROVE  After(k)[n + 1] = After(l)[n + 1]
    OBVIOUS
  <2>1. /\ n + 1 \in 0 .. Len(k.args) /\ n + 1 \in 0 .. Len(l.args)
        /\ (n + 1) - 1 = n /\ n + 1 # 0 /\ n + 1 \in DOMAIN k.args \cap DOMAIN l.args
    BY <1>1
  <2>2. After(k)[n + 1] = Ends(After(k)[n], sizeof[k.args[n + 1]])
    BY <2>1, AfterIs
  <2>3. After(l)[n + 1] = Ends(After(l)[n], sizeof[l.args[n + 1]])
    BY <2>1, AfterIs
  <2>4. k.args[n + 1] = l.args[n + 1] /\ After(k)[n] = After(l)[n]
    BY <2>1, <1>1, <1>3
  <2> QED
    BY <2>2, <2>3, <2>4
<1>4. Nat \subseteq S
  <2> HIDE DEF S
  <2> QED
    BY <1>2, <1>3, NatSet
<1>5. i \in Nat /\ i <= Len(k.args) /\ i <= Len(l.args)
  BY <1>1
<1>6. After(k)[i] = After(l)[i]
  BY <1>4, <1>5
<1> QED
  BY <1>6, OffsetIs


-----------------------------------------------------------------------------
(* The insertions *)

AllKeys == UNION {Keys(k) : k \in Kernels}
Items == [key : AllKeys, entry : [size : Nat, offset : Nat]]

(* The i-th insertion for a kernel, and the last one.                      *)
LEMMA EntriesAre ==
  ASSUME NEW k \in Kernels
  PROVE  /\ KernelEntries(k) \in Seq(Items)
         /\ Len(KernelEntries(k)) = Len(k.args) + 1
         /\ \A i \in 1 .. Len(k.args) :
                /\ KernelEntries(k)[i].key = Key(k.name, i - 1)
                /\ KernelEntries(k)[i].entry =
                      [size |-> IF k.args[i] = "hidden" THEN 0 ELSE sizeof[k.args[i]],
                       offset |-> Offset(k)[i]]
         /\ KernelEntries(k)[Len(k.args) + 1] =
               [key |-> k.name, entry |-> [size |-> Len(k.args), offset |-> 0]]
<1> DEFINE n == Len(k.args)
           E(i) == IF i <= n
                   THEN [key |-> Key(k.name, i - 1),
                         entry |-> [size |-> IF k.args[i] = "hidden" THEN 0 ELSE sizeof[k.args[i]],
                                    offset |-> Offset(k)[i]]]
                   ELSE [key |-> k.name, entry |-> [size |-> n, offset |-> 0]]
<1>1. k.args \in Seq(Kinds) /\ n \in Nat /\ DOMAIN k.args = 1 .. n
  <2>1. k.args \in Seq(Kinds)
    BY KernelAssumption
  <2> QED
    BY <2>1
<1>2. KernelEntries(k) = [i \in 1 .. n + 1 |-> E(i)]
  <2>1. \A i \in 1 .. n : ArgInfos(k)[i].size = sizeof[k.args[i]] /\ ArgInfos(k)[i].offset = Offset(k)[i]
    BY <1>1 DEF ArgInfos
  <2> QED
    BY <2>1 DEF KernelEntries
<1>3. \A i \in 1 .. n : Offset(k)[i] \in Nat /\ sizeof[k.args[i]] \in Nat
  BY <1>1, OffsetsRise, Sizes
<1>4. k.name \in AllKeys /\ \A i \in 1 .. n : Key(k.name, i - 1) \in AllKeys
  <2>1. k.name \in Keys(k) /\ \A i \in 1 .. n : Key(k.name, i - 1) \in Keys(k)
    <3>1. \A i \in 1 .. n : i - 1 \in 0 .. n - 1
      BY <1>1
    <3> QED
      BY <3>1 DEF Keys
  <2> QED
    BY <2>1 DEF AllKeys
<1>5. \A i \in 1 .. n + 1 : E(i) \in Items
  BY <1>1, <1>3, <1>4 DEF Items
<1>6. \A i \in 1 .. n : E(i).key = Key(k.name, i - 1)
                        /\ E(i).entry = [size |-> IF k.args[i] = "hidden" THEN 0 ELSE sizeof[k.args[i]],
                                         offset |-> Offset(k)[i]]
  BY <1>1
<1>7. E(n + 1) = [key |-> k.name, entry |-> [size |-> n, offset |-> 0]]
  BY <1>1
<1> HIDE DEF E
<1>8. KernelEntries(k) \in [1 .. n + 1 -> Items]
  BY <1>2, <1>5
<1>9. n + 1 \in Nat
  BY <1>1
<1>10. KernelEntries(k) \in Seq(Items) /\ Len(KernelEntries(k)) = n + 1
  <2> HIDE DEF n
  <2> QED
    BY <1>8, <1>9
<1> QED
  BY <1>1, <1>2, <1>6, <1>7, <1>10

(* The sequences that Insertions builds, as a function.                    *)
Upto(o) ==
    CHOOSE f : f = [i \in 0 .. Len(o) |-> IF i = 0 THEN << >> ELSE f[i - 1] \o KernelEntries(o[i])]

LEMMA InsertionsIs ==
  ASSUME NEW o
  PROVE  Insertions(o) = Upto(o)[Len(o)]
  BY DEF Insertions, Upto

(* There is such a function.                                               *)
LEMMA UptoIs ==
  ASSUME NEW o, Len(o) \in Nat
  PROVE  Upto(o) = [i \in 0 .. Len(o) |->
             IF i = 0 THEN << >> ELSE Upto(o)[i - 1] \o KernelEntries(o[i])]
<1> DEFINE J(x, i) == x \o KernelEntries(o[i])
           Step(f, i) == IF i = 0 THEN << >> ELSE J(f[i - 1], i)
           Good == {n \in Nat : \E f : f = [i \in 0 .. n |-> Step(f, i)]}
<1> HIDE DEF J
<1>1. 0 \in Good
  <2> DEFINE f == [i \in 0 .. 0 |-> << >>]
  <2>1. f = [i \in 0 .. 0 |-> Step(f, i)]
    OBVIOUS
  <2> HIDE DEF f
  <2> QED
    BY <2>1
<1>2. ASSUME NEW n \in Nat, n \in Good
      PROVE  n + 1 \in Good
  <2>1. PICK f : f = [i \in 0 .. n |-> Step(f, i)]
    BY <1>2
  <2> DEFINE g == [i \in 0 .. n + 1 |-> IF i <= n THEN f[i] ELSE J(f[n], i)]
  <2>2. \A i \in 0 .. n : g[i] = f[i]
    OBVIOUS
  <2>3. g[n + 1] = J(f[n], n + 1)
    OBVIOUS
  <2>4. \A i \in 0 .. n + 1 : g[i] = Step(g, i)
    <3> TAKE i \in 0 .. n + 1
    <3>1. CASE i = 0
      BY <3>1, <2>1, <2>2
    <3>2. CASE i # 0 /\ i <= n
      <4>1. f[i] = Step(f, i)
        BY <2>1, <3>2
      <4>2. i - 1 \in 0 .. n
        BY <3>2
      <4> HIDE DEF g
      <4> QED
        BY <4>1, <4>2, <3>2, <2>2
    <3>3. CASE i = n + 1
      <4>1. (n + 1) - 1 = n /\ n + 1 # 0
        OBVIOUS
      <4> HIDE DEF g
      <4>2. g[n] = f[n]
        BY <2>2
      <4> QED
        BY <4>1, <4>2, <2>3, <3>3
    <3> QED
      BY <3>1, <3>2, <3>3
  <2>5. g = [i \in 0 .. n + 1 |-> g[i]]
    OBVIOUS
  <2> HIDE DEF g
  <2>6. g = [i \in 0 .. n + 1 |-> Step(g, i)]
    BY <2>4, <2>5
  <2> QED
    BY <2>6
<1>3. Nat \subseteq Good
  <2> HIDE DEF Good
  <2> QED
    BY <1>1, <1>2, NatSet
<1>4. Len(o) \in Good
  <2> HIDE DEF Good
  <2> QED
    BY <1>3
<1>5. \E f : f = [i \in 0 .. Len(o) |-> Step(f, i)]
  BY <1>4
<1> QED
  BY <1>5 DEF Upto, J

(* Where the p-th insertion of a sequence comes from: a kernel of ks; and  *)
(* if it is the kernel's last, its arguments were entered before it.       *)
Stems(s, p, ks, present) ==
    \E l \in ks : \E i \in 1 .. Len(l.args) + 1 :
        /\ s[p] = KernelEntries(l)[i]
        /\ i = Len(l.args) + 1 =>
              \A j \in 1 .. Len(l.args) :
                  \/ Key(l.name, j - 1) \in present
                  \/ \E q \in 1 .. p - 1 : s[q].key = Key(l.name, j - 1)

(* A sequence of insertions with those of one more kernel behind.          *)
LEMMA StemsBehind ==
  ASSUME NEW s \in Seq(Items), NEW k \in Kernels, NEW ks, NEW js, ks \subseteq js, k \in js,
         \A p \in 1 .. Len(s) : Stems(s, p, ks, {})
  PROVE  LET t == s \o KernelEntries(k)
         IN  /\ t \in Seq(Items)
             /\ \A p \in 1 .. Len(t) : Stems(t, p, js, {})
             /\ \E p \in 1 .. Len(t) : t[p].key = k.name
             /\ \A p \in 1 .. Len(s) : p \in 1 .. Len(t) /\ t[p] = s[p]
<1> DEFINE e == KernelEntries(k)
           t == s \o e
           n == Len(k.args)
<1>0. k.args \in Seq(Kinds)
  BY KernelAssumption
<1>1. n \in Nat /\ Len(s) \in Nat
  BY <1>0
<1>2. /\ e \in Seq(Items) /\ Len(e) = n + 1
      /\ \A i \in 1 .. n : e[i].key = Key(k.name, i - 1)
      /\ e[n + 1].key = k.name
  <2>1. e \in Seq(Items) /\ Len(e) = n + 1
    BY EntriesAre
  <2>2. \A i \in 1 .. n : e[i].key = Key(k.name, i - 1)
    BY EntriesAre
  <2>3. e[n + 1] = [key |-> k.name, entry |-> [size |-> n, offset |-> 0]]
    BY EntriesAre
  <2> HIDE DEF e, n
  <2> QED
    BY <2>1, <2>2, <2>3
<1> HIDE DEF n
<1>3. /\ t \in Seq(Items) /\ Len(t) = Len(s) + (n + 1)
      /\ \A q \in 1 .. Len(s) : t[q] = s[q]
      /\ \A q \in 1 .. n + 1 : t[Len(s) + q] = e[q]
  <2> HIDE DEF e
  <2>1. Len(e) = n + 1 /\ e \in Seq(Items)
    BY <1>2
  <2>2. t \in Seq(Items) /\ Len(t) = Len(s) + Len(e)
    BY <2>1
  <2>3. \A q \in 1 .. Len(s) : t[q] = s[q]
    BY <2>1
  <2>4. \A q \in 1 .. Len(e) : t[Len(s) + q] = e[q]
    BY <2>1
  <2> QED
    BY <2>1, <2>2, <2>3, <2>4
<1> HIDE DEF t
<1>4. ASSUME NEW p \in 1 .. Len(s)
      PROVE  p \in 1 .. Len(t) /\ Stems(t, p, js, {})
  <2>1. p \in 1 .. Len(t)
    BY <1>1, <1>3
  <2>a. PICK l \in ks : \E i \in 1 .. Len(l.args) + 1 :
            /\ s[p] = KernelEntries(l)[i]
            /\ i = Len(l.args) + 1 =>
                  \A j \in 1 .. Len(l.args) :
                      \E q \in 1 .. p - 1 : s[q].key = Key(l.name, j - 1)
    BY DEF Stems
  <2>2. PICK i \in 1 .. Len(l.args) + 1 :
            /\ s[p] = KernelEntries(l)[i]
            /\ i = Len(l.args) + 1 =>
                  \A j \in 1 .. Len(l.args) :
                      \E q \in 1 .. p - 1 : s[q].key = Key(l.name, j - 1)
    BY <2>a
  <2>3. t[p] = s[p] /\ \A q \in 1 .. p - 1 : t[q] = s[q]
    BY <1>1, <1>3
  <2>4. i = Len(l.args) + 1 =>
            \A j \in 1 .. Len(l.args) : \E q \in 1 .. p - 1 : t[q].key = Key(l.name, j - 1)
    BY <2>2, <2>3
  <2>5. l \in js /\ t[p] = KernelEntries(l)[i]
    BY <2>2, <2>3
  <2> QED
    BY <2>1, <2>4, <2>5 DEF Stems
<1>5. ASSUME NEW i \in 1 .. n + 1
      PROVE  Stems(t, Len(s) + i, js, {})
  <2>1. t[Len(s) + i] = KernelEntries(k)[i]
    BY <1>3
  <2>2. ASSUME i = n + 1, NEW j \in 1 .. n
        PROVE  \E q \in 1 .. Len(s) + i - 1 : t[q].key = Key(k.name, j - 1)
    <3>1. Len(s) + j \in 1 .. Len(s) + i - 1 /\ j \in 1 .. n + 1
      BY <1>1, <2>2
    <3>2. t[Len(s) + j].key = Key(k.name, j - 1)
      BY <1>2, <1>3, <3>1
    <3> QED
      BY <3>1, <3>2
  <2> QED
    BY <2>1, <2>2 DEF Stems, n
<1>6. ASSUME NEW p \in 1 .. Len(t), p \notin 1 .. Len(s)
      PROVE  p - Len(s) \in 1 .. n + 1 /\ Len(s) + (p - Len(s)) = p
  BY <1>1, <1>3, <1>6
<1>7. \A p \in 1 .. Len(t) : Stems(t, p, js, {})
  <2> TAKE p \in 1 .. Len(t)
  <2>1. CASE p \in 1 .. Len(s)
    BY <2>1, <1>4
  <2>2. CASE p \notin 1 .. Len(s)
    <3>1. Stems(t, Len(s) + (p - Len(s)), js, {})
      BY <1>5, <1>6, <2>2
    <3> QED
      BY <3>1, <1>6, <2>2
  <2> QED
    BY <2>1, <2>2
<1>8. \E p \in 1 .. Len(t) : t[p].key = k.name
  <2>1. Len(s) + (n + 1) \in 1 .. Len(t) /\ n + 1 \in 1 .. n + 1
    BY <1>1, <1>3
  <2>2. t[Len(s) + (n + 1)].key = k.name
    BY <1>2, <1>3, <2>1
  <2> QED
    BY <2>1, <2>2
<1> QED
  BY <1>3, <1>4, <1>7, <1>8 DEF t

(* The insertions for a code object: each belongs to one of its kernels,   *)
(* what stands under a name comes behind the arguments, and every name is  *)
(* entered.                                                                *)
LEMMA InsertionsStem ==
  ASSUME NEW o \in Objects
  PROVE  /\ Insertions(o) \in Seq(Items)
         /\ \A p \in 1 .. Len(Insertions(o)) :
                Stems(Insertions(o), p, {o[j] : j \in DOMAIN o}, {})
         /\ \A j \in DOMAIN o :
                \E p \in 1 .. Len(Insertions(o)) : Insertions(o)[p].key = o[j].name
<1> DEFINE U(n) == Upto(o)[n]
           ks(n) == {o[j] : j \in 1 .. n}
           Right(n) == /\ U(n) \in Seq(Items)
                       /\ \A p \in 1 .. Len(U(n)) : Stems(U(n), p, ks(n), {})
                       /\ \A j \in 1 .. n : \E p \in 1 .. Len(U(n)) : U(n)[p].key = o[j].name
           S == {n \in Nat : n <= Len(o) => Right(n)}
<1>1. Len(o) \in Nat /\ DOMAIN o = 1 .. Len(o) /\ \A j \in 1 .. Len(o) : o[j] \in Kernels
  <2>1. o \in Seq(Kernels)
    BY ObjectsAssumption
  <2> QED
    BY <2>1
<1>2. /\ U(0) = << >>
      /\ \A i \in 1 .. Len(o) : U(i) = U(i - 1) \o KernelEntries(o[i])
  <2> DEFINE J(x, i) == x \o KernelEntries(o[i])
  <2>1. Upto(o) = [i \in 0 .. Len(o) |-> IF i = 0 THEN << >> ELSE J(Upto(o)[i - 1], i)]
    BY <1>1, UptoIs
  <2> HIDE DEF J
  <2>2. Upto(o)[0] = << >>
    BY <1>1, <2>1
  <2>3. \A i \in 1 .. Len(o) : Upto(o)[i] = J(Upto(o)[i - 1], i)
    BY <1>1, <2>1
  <2> QED
    BY <2>2, <2>3 DEF J
<1>7. 0 \in S
  <2>1. U(0) = << >>
    BY <1>2
  <2>2. Len(U(0)) = 0 /\ U(0) \in Seq(Items)
    <3>1. Len(<< >>) = 0 /\ << >> \in Seq(Items)
      OBVIOUS
    <3> HIDE DEF U
    <3> QED
      BY <2>1, <3>1, Zenon
  <2> HIDE DEF U
  <2>3. Right(0)
    BY <2>2
  <2> QED
    BY <2>3
<1>3. ASSUME NEW n \in Nat, n \in S
      PROVE  n + 1 \in S
  <2> SUFFICES ASSUME n + 1 <= Len(o) PROVE Right(n + 1)
    OBVIOUS
  <2>1. /\ n + 1 \in 0 .. Len(o) /\ n + 1 # 0 /\ (n + 1) - 1 = n
        /\ n + 1 \in 1 .. Len(o) /\ n <= Len(o)
    BY <1>1
  <2>2. U(n + 1) = U(n) \o KernelEntries(o[n + 1])
    <3>1. U(n + 1) = U((n + 1) - 1) \o KernelEntries(o[n + 1])
      BY <1>2, <2>1
    <3> QED
      BY <2>1, <3>1
  <2>3. o[n + 1] \in Kernels
    BY <1>1, <2>1
  <2>4. Right(n)
    BY <1>3, <2>1
  <2>5. ks(n) \subseteq ks(n + 1) /\ o[n + 1] \in ks(n + 1)
    OBVIOUS
  <2>6. PICK s : s = U(n)
    OBVIOUS
  <2>7. PICK k : k = o[n + 1]
    OBVIOUS
  <2>8. PICK t : t = s \o KernelEntries(k)
    OBVIOUS
  <2>9. t = U(n + 1)
    BY <2>2, <2>6, <2>7, <2>8
  <2> HIDE DEF U, ks
  <2>10. s \in Seq(Items) /\ \A p \in 1 .. Len(s) : Stems(s, p, ks(n), {})
    BY <2>4, <2>6
  <2>11. /\ t \in Seq(Items)
         /\ \A p \in 1 .. Len(t) : Stems(t, p, ks(n + 1), {})
         /\ \E p \in 1 .. Len(t) : t[p].key = k.name
         /\ \A p \in 1 .. Len(s) : p \in 1 .. Len(t) /\ t[p] = s[p]
    BY <2>3, <2>5, <2>7, <2>8, <2>10, StemsBehind
  <2>12. \A j \in 1 .. n + 1 : \E p \in 1 .. Len(t) : t[p].key = o[j].name
    <3> TAKE j \in 1 .. n + 1
    <3>1. CASE j = n + 1
      BY <3>1, <2>7, <2>11
    <3>2. CASE j \in 1 .. n
      <4>1. PICK p \in 1 .. Len(s) : s[p].key = o[j].name
        BY <3>2, <2>4, <2>6
      <4> QED
        BY <4>1, <2>11
    <3> QED
      BY <3>1, <3>2
  <2> QED
    BY <2>9, <2>11, <2>12
<1>4. Nat \subseteq S
  <2> HIDE DEF S
  <2> QED
    BY <1>7, <1>3, NatSet
<1>5. Right(Len(o))
  <2> HIDE DEF Right
  <2> QED
    BY <1>1, <1>4
<1>6. U(Len(o)) = Insertions(o) /\ ks(Len(o)) = {o[j] : j \in DOMAIN o}
  BY <1>1, InsertionsIs
<1> HIDE DEF U, ks
<1> QED
  BY <1>1, <1>5, <1>6

-----------------------------------------------------------------------------
(* The inductive invariant *)

(* What is still to be entered belongs to registered kernels. *)
TodoStems == \A p \in 1 .. Len(todo) : Stems(todo, p, Registered, DOMAIN table)
(* So does what the table holds, and a number of arguments is found only   *)
(* where the arguments are.                                                *)
TableStems ==
    \A key \in DOMAIN table : \E l \in Registered : \E i \in 1 .. Len(l.args) + 1 :
        /\ KernelEntries(l)[i] = [key |-> key, entry |-> table[key]]
        /\ i = Len(l.args) + 1 => \A j \in 1 .. Len(l.args) : Key(l.name, j - 1) \in DOMAIN table
(* Every kernel of an object whose registration is over is in the table.   *)
NamesEntered ==
    \A i \in DOMAIN objects : \A j \in DOMAIN objects[i] :
        \/ objects[i][j].name \in DOMAIN table
        \/ /\ i = Len(objects)
           /\ \E q \in 1 .. Len(todo) : todo[q].key = objects[i][j].name
Shape ==
    /\ objects \in Seq(Objects)
    /\ \A i \in DOMAIN objects : objects[i] \notin {objects[j] : j \in 1 .. i - 1}
    /\ todo \in Seq(Items)
    /\ raced \in BOOLEAN
    /\ phase \in {"record", "replay", "gone"}
Entered == TodoStems /\ TableStems /\ NamesEntered

(* A row has a registered kernel and the arguments it was launched with.   *)
RowsTrue ==
    /\ \E X : rows \in Seq(X)
    /\ \A n \in 1 .. Len(rows) :
          /\ rows[n].kernel \in Registered
          /\ rows[n].kernel_name = rows[n].kernel.name
          /\ rows[n].args \in Arguments(rows[n].kernel)

(* Every argument the program passed is in the buffer.                     *)
Contains(data, k, args) ==
    \A i \in Visible(k) : \A b \in 0 .. sizeof[k.args[i]] - 1 :
        Offset(k)[i] + b \in DOMAIN data /\ data[Offset(k)[i] + b] = <<args[i], b>>
Spared(r) ==
    /\ Cardinality(r.beyond) <= 8
    /\ r.beyond # {} =>
          \E k \in Registered : k.name = r.kernel_name /\ Visible(k) # DOMAIN k.args
RowsPacked ==
    Orderly => \A n \in 1 .. Len(rows) :
        Contains(rows[n].argdata, rows[n].kernel, rows[n].args) /\ Spared(rows[n])

Replaced(k, args) == [i \in Visible(k) |-> IF args[i] \in Allocated THEN Moved[args[i]] ELSE args[i]]
Replayed ==
    /\ \E X : launched \in Seq(X)
    /\ Len(launched) <= Len(rows)
    /\ launched # << >> => phase = "replay"
    /\ Orderly => \A n \in 1 .. Len(launched) : \A k \in Registered :
          k.name = rows[n].kernel_name => Contains(launched[n], k, Replaced(k, rows[n].args))

IInv == Shape /\ Entered /\ RowsTrue /\ RowsPacked /\ Replayed /\ LaunchGoesOn

-----------------------------------------------------------------------------
(* Reading the table *)

(* A kernel as KernelAssumption has it.                                    *)
LEMMA KernelIs ==
  ASSUME NEW k \in Kernels
  PROVE  /\ k.args \in Seq(Kinds) /\ Len(k.args) \in Nat /\ DOMAIN k.args = 1 .. Len(k.args)
         /\ \A i \in DOMAIN k.args : k.args[i] \in Kinds
         /\ \E X : k.name \in Seq(X)
<1>1. k.args \in Seq(Kinds) /\ \E X : k.name \in Seq(X)
  BY KernelAssumption
<1> QED
  BY <1>1

(* A sequence is its length and its elements.                              *)
LEMMA SeqIs ==
  ASSUME NEW X, NEW s \in Seq(X), NEW t \in Seq(X), Len(s) = Len(t),
         \A n \in 1 .. Len(s) : s[n] = t[n]
  PROVE  s = t
<1>1. s = [n \in 1 .. Len(s) |-> s[n]] /\ t = [n \in 1 .. Len(t) |-> t[n]]
  OBVIOUS
<1> QED
  BY <1>1

(* The last element can be told from those before it, ...                  *)
LEMMA LastApart ==
  ASSUME NEW X, NEW s \in Seq(X), NEW t \in Seq(X), NEW x \in X, NEW y \in X,
         Append(s, x) = Append(t, y)
  PROVE  s = t /\ x = y
<1>1. /\ Len(Append(s, x)) = Len(s) + 1 /\ Append(s, x)[Len(s) + 1] = x
      /\ \A n \in 1 .. Len(s) : Append(s, x)[n] = s[n]
  OBVIOUS
<1>2. /\ Len(Append(t, y)) = Len(t) + 1 /\ Append(t, y)[Len(t) + 1] = y
      /\ \A n \in 1 .. Len(t) : Append(t, y)[n] = t[n]
  OBVIOUS
<1>3. Len(s) = Len(t)
  BY <1>1, <1>2
<1>4. x = y /\ \A n \in 1 .. Len(s) : s[n] = t[n]
  BY <1>1, <1>2, <1>3
<1> QED
  BY <1>3, <1>4, SeqIs

(* ... and what is behind a sequence from it.                              *)
LEMMA BehindApart ==
  ASSUME NEW X, NEW a \in Seq(X), NEW s \in Seq(X), NEW t \in Seq(X), a \o s = a \o t
  PROVE  s = t
<1>1. /\ Len(a \o s) = Len(a) + Len(s)
      /\ \A n \in 1 .. Len(s) : (a \o s)[Len(a) + n] = s[n]
  OBVIOUS
<1>2. /\ Len(a \o t) = Len(a) + Len(t)
      /\ \A n \in 1 .. Len(t) : (a \o t)[Len(a) + n] = t[n]
  OBVIOUS
<1>3. Len(s) = Len(t)
  BY <1>1, <1>2
<1>4. \A n \in 1 .. Len(s) : s[n] = t[n]
  BY <1>1, <1>2, <1>3
<1> QED
  BY <1>3, <1>4, SeqIs

(* The digits before the last are those of a smaller number.               *)
LEMMA TenTimes ==
  ASSUME NEW n \in Nat, n >= 10
  PROVE  /\ n \div 10 \in Nat /\ n \div 10 < n /\ n % 10 \in 0 .. 9
         /\ n = 10 * (n \div 10) + (n % 10)
<1>1. n % 10 \in 0 .. 9 /\ n \div 10 \in Int /\ n = 10 * (n \div 10) + (n % 10)
  BY DivMod
<1> QED
  BY <1>1

(* The digits of a number, from those of smaller ones, ...                 *)
DigitsFrom(f, n) == IF n < 10 THEN <<n>> ELSE Append(f[n \div 10], n % 10)

(* ... of which one matters.                                               *)
LEMMA DigitsAlike ==
  ASSUME NEW n \in Nat, NEW f, NEW g, n >= 10 => f[n \div 10] = g[n \div 10]
  PROVE  DigitsFrom(f, n) = DigitsFrom(g, n)
<1>1. CASE n < 10
  BY <1>1 DEF DigitsFrom
<1>2. CASE ~(n < 10)
  BY <1>2 DEF DigitsFrom
<1> QED
  BY <1>1, <1>2

(* There is a function that is as to_string says.                          *)
LEMMA ToStringIs ==
  to_string = [n \in Nat |-> DigitsFrom(to_string, n)]
<1> DEFINE Till(n, f) == f = [i \in 0 .. n |-> DigitsFrom(f, i)]
           Good == {n \in Nat : \E f : Till(n, f)}
<1>0. ASSUME NEW n \in Nat, NEW f, Till(n, f), NEW i \in 0 .. n
      PROVE  f[i] = DigitsFrom(f, i)
  <2>1. f = [h \in 0 .. n |-> DigitsFrom(f, h)]
    BY <1>0
  <2>2. \A g : f = [h \in 0 .. n |-> DigitsFrom(g, h)] => f[i] = DigitsFrom(g, i)
    OBVIOUS
  <2> QED
    BY <2>1, <2>2
<1>1. ASSUME NEW m \in Nat, NEW n \in Nat, m <= n, NEW f, NEW g, Till(m, f), Till(n, g)
      PROVE  f[m] = g[m]
  <2> DEFINE S == {i \in 0 .. m : f[i] # g[i]}
  <2>1. S \in SUBSET Nat
    OBVIOUS
  <2>2. \A i \in 0 .. m : f[i] = DigitsFrom(f, i) /\ g[i] = DigitsFrom(g, i)
    <3>1. 0 .. m \subseteq 0 .. n
      BY <1>1
    <3> HIDE DEF Till
    <3> QED
      BY <3>1, <1>0, <1>1
  <2>3. ASSUME S # {} PROVE FALSE
    <3>1. PICK i \in S : \A j \in S : i <= j
      <4> HIDE DEF S
      <4> QED
        BY <2>1, <2>3, Least
    <3>2. i \in 0 .. m /\ f[i] # g[i] /\ i \in Nat
      OBVIOUS
    <3>3. f[i] = DigitsFrom(f, i) /\ g[i] = DigitsFrom(g, i)
      BY <2>2, <3>2
    <3>4. i >= 10 => i \div 10 \in Nat /\ i \div 10 < i
      BY <3>2, TenTimes
    <3>5. i >= 10 => f[i \div 10] = g[i \div 10]
      BY <3>1, <3>2, <3>4
    <3> QED
      BY <3>2, <3>3, <3>5, DigitsAlike
  <2> QED
    BY <2>3
<1>2. 0 \in Good
  <2> DEFINE f == [i \in 0 .. 0 |-> DigitsFrom(<< >>, i)]
  <2>1. \A i \in 0 .. 0 : DigitsFrom(<< >>, i) = DigitsFrom(f, i)
    BY DigitsAlike
  <2>2. Till(0, f)
    BY <2>1
  <2> HIDE DEF f
  <2> QED
    BY <2>2
<1>3. ASSUME NEW n \in Nat, n \in Good
      PROVE  n + 1 \in Good
  <2>1. PICK f : Till(n, f)
    BY <1>3
  <2> DEFINE g == [i \in 0 .. n + 1 |-> IF i <= n THEN f[i] ELSE DigitsFrom(f, i)]
  <2>2. \A i \in 0 .. n : g[i] = f[i] /\ f[i] = DigitsFrom(f, i)
    BY <2>1
  <2>3. g[n + 1] = DigitsFrom(f, n + 1)
    OBVIOUS
  <2>4. g = [i \in 0 .. n + 1 |-> g[i]]
    OBVIOUS
  <2> HIDE DEF g
  <2>5. ASSUME NEW i \in 0 .. n + 1
        PROVE  g[i] = DigitsFrom(g, i)
    <3>1. g[i] = DigitsFrom(f, i)
      BY <2>2, <2>3
    <3>2. i >= 10 => i \div 10 \in 0 .. n
      BY TenTimes
    <3>3. i >= 10 => f[i \div 10] = g[i \div 10]
      BY <2>2, <3>2
    <3> QED
      BY <3>1, <3>3, DigitsAlike
  <2>6. Till(n + 1, g)
    BY <2>4, <2>5
  <2> QED
    BY <2>6
<1>4. Nat \subseteq Good
  <2> HIDE DEF Good
  <2> QED
    BY <1>2, <1>3, NatSet
<1> DEFINE F(n) == CHOOSE f : Till(n, f)
           f == [n \in Nat |-> F(n)[n]]
<1>5. \A n \in Nat : Till(n, F(n))
  <2> TAKE n \in Nat
  <2>1. \E g : Till(n, g)
    BY <1>4
  <2> HIDE DEF Upto
  <2> QED
    BY <2>1
<1>6. \A n \in Nat : F(n)[n] = DigitsFrom(F(n), n)
  <2> TAKE n \in Nat
  <2>1. n \in 0 .. n
    OBVIOUS
  <2> HIDE DEF F, Till
  <2> QED
    BY <2>1, <1>0, <1>5
<1> HIDE DEF F, Upto
<1>7. \A n \in Nat : f[n] = F(n)[n]
  OBVIOUS
<1>8. f = [n \in Nat |-> f[n]]
  OBVIOUS
<1> HIDE DEF f
<1>9. ASSUME NEW n \in Nat
      PROVE  f[n] = DigitsFrom(f, n)
  <2>1. n >= 10 => n \div 10 \in Nat /\ n \div 10 <= n
    BY TenTimes
  <2>2. n >= 10 => F(n \div 10)[n \div 10] = F(n)[n \div 10]
    BY <1>1, <1>5, <2>1
  <2>3. n >= 10 => f[n \div 10] = F(n)[n \div 10]
    BY <1>7, <2>1, <2>2
  <2> QED
    BY <1>6, <1>7, <2>3, DigitsAlike
<1>10. f = [n \in Nat |-> DigitsFrom(f, n)]
  BY <1>8, <1>9
<1>11. \E g : g = [n \in Nat |-> DigitsFrom(g, n)]
  BY <1>10
<1> QED
  BY <1>11 DEF to_string, DigitsFrom

(* A number has digits, ...                                                *)
LEMMA DigitsOf ==
  ASSUME NEW n \in Nat
  PROVE  /\ to_string[n] \in Seq(Nat) /\ Len(to_string[n]) > 0
         /\ n < 10 => to_string[n] = <<n>>
         /\ n >= 10 => to_string[n] = Append(to_string[n \div 10], n % 10)
<1>1. \A m \in Nat : /\ m < 10 => to_string[m] = <<m>>
                     /\ m >= 10 => to_string[m] = Append(to_string[m \div 10], m % 10)
  <2> TAKE m \in Nat
  <2>1. to_string[m] = DigitsFrom(to_string, m)
    BY ToStringIs
  <2>2. CASE m < 10
    BY <2>1, <2>2 DEF DigitsFrom
  <2>3. CASE ~(m < 10)
    BY <2>1, <2>3 DEF DigitsFrom
  <2> QED
    BY <2>2, <2>3
<1> DEFINE S == {m \in Nat : ~(to_string[m] \in Seq(Nat) /\ Len(to_string[m]) > 0)}
<1>2. ASSUME S # {} PROVE FALSE
  <2>1. PICK m \in S : \A j \in S : m <= j
    <3>1. S \in SUBSET Nat
      OBVIOUS
    <3> HIDE DEF S
    <3> QED
      BY <1>2, <3>1, Least
  <2>2. CASE m < 10
    <3>1. \A d : d = <<m>> => d \in Seq(Nat) /\ Len(d) > 0
      OBVIOUS
    <3>2. to_string[m] = <<m>>
      BY <1>1, <2>1, <2>2
    <3>3. to_string[m] \in Seq(Nat) /\ Len(to_string[m]) > 0
      BY <3>1, <3>2
    <3> QED
      BY <3>3
  <2>3. CASE m >= 10
    <3>1. m \div 10 \in Nat /\ m \div 10 < m /\ m % 10 \in Nat
      BY <2>3, TenTimes
    <3>2. m \div 10 \notin S
      BY <2>1, <3>1
    <3>3. to_string[m \div 10] \in Seq(Nat) /\ Len(to_string[m \div 10]) > 0
      BY <3>1, <3>2
    <3>4. to_string[m] = Append(to_string[m \div 10], m % 10)
      BY <1>1, <2>3
    <3>5. /\ to_string[m] \in Seq(Nat)
          /\ Len(to_string[m]) = Len(to_string[m \div 10]) + 1
      BY <3>1, <3>3, <3>4
    <3>6. Len(to_string[m]) > 0
      BY <3>3, <3>5
    <3> QED
      BY <3>5, <3>6
  <2> QED
    BY <2>2, <2>3
<1> QED
  BY <1>1, <1>2

(* ... which are no other number's.                                        *)
LEMMA DigitsDiffer ==
  ASSUME NEW i \in Nat, NEW j \in Nat, to_string[i] = to_string[j]
  PROVE  i = j
<1> DEFINE Other(m) == {h \in Nat : h # m /\ to_string[h] = to_string[m]}
           S == {m \in Nat : Other(m) # {}}
<1>1. ASSUME S # {} PROVE FALSE
  <2>1. PICK m \in S : \A l \in S : m <= l
    <3>1. S \in SUBSET Nat
      OBVIOUS
    <3> HIDE DEF S
    <3> QED
      BY <1>1, <3>1, Least
  <2>2. PICK h \in Nat : h # m /\ to_string[h] = to_string[m]
    OBVIOUS
  <2>3. h \in S
    BY <2>2
  <2>4. m <= h
    BY <2>1, <2>3
  <2>5. h >= 10
    BY <2>2, <2>4, DigitsOf
  <2> DEFINE a == to_string[h \div 10]
  <2>6. /\ h \div 10 \in Nat /\ h % 10 \in Nat /\ h = 10 * (h \div 10) + (h % 10)
        /\ a \in Seq(Nat) /\ Len(a) > 0 /\ to_string[h] = Append(a, h % 10)
    <3>1. h \div 10 \in Nat /\ h % 10 \in Nat /\ h = 10 * (h \div 10) + (h % 10)
      BY <2>5, TenTimes
    <3>2. to_string[h] = Append(a, h % 10)
      BY <2>5, DigitsOf
    <3> QED
      BY <3>1, <3>2, DigitsOf
  <2> HIDE DEF a
  <2>7. Len(to_string[h]) = Len(a) + 1 /\ Len(a) \in Nat
    BY <2>6
  <2>8. m >= 10
    <3>1. m < 10 => to_string[m] = <<m>>
      BY DigitsOf
    <3>2. Len(<<m>>) = 1
      OBVIOUS
    <3>3. Len(to_string[m]) # 1
      BY <2>2, <2>6, <2>7
    <3> QED
      BY <3>1, <3>2, <3>3
  <2> DEFINE b == to_string[m \div 10]
  <2>9. /\ m \div 10 \in Nat /\ m % 10 \in Nat /\ m = 10 * (m \div 10) + (m % 10)
        /\ m \div 10 < m /\ b \in Seq(Nat) /\ to_string[m] = Append(b, m % 10)
    BY <2>8, TenTimes, DigitsOf
  <2> HIDE DEF b
  <2>10. a = b /\ h % 10 = m % 10
    <3> DEFINE x == h % 10
               y == m % 10
    <3>1. /\ a \in Seq(Nat) /\ b \in Seq(Nat) /\ x \in Nat /\ y \in Nat
          /\ Append(a, x) = Append(b, y)
      BY <2>2, <2>6, <2>9
    <3> HIDE DEF x, y
    <3>2. \A s, t \in Seq(Nat), u, v \in Nat : Append(s, u) = Append(t, v) => s = t /\ u = v
      BY LastApart
    <3>3. a = b /\ x = y
      BY <3>1, <3>2
    <3> QED
      BY <3>3 DEF x, y
  <2>11. h \div 10 # m \div 10
    BY <2>2, <2>6, <2>9, <2>10
  <2>12. m \div 10 \in S
    BY <2>6, <2>9, <2>10, <2>11 DEF a, b
  <2> QED
    BY <2>1, <2>9, <2>12
<1> QED
  BY <1>1

(* What is behind a name, and that there is something.                     *)
LEMMA KeysDiffer ==
  ASSUME NEW a, \E X : a \in Seq(X), NEW i \in Nat, NEW j \in Nat
  PROVE  /\ Key(a, i) = Key(a, j) => i = j
         /\ Key(a, i) # a
<1>1. PICK X : a \in Seq(X)
  OBVIOUS
<1> DEFINE Z == X \cup Nat
<1>2. a \in Seq(Z) /\ Len(a) \in Nat
  BY <1>1
<1>3. /\ to_string[i] \in Seq(Nat) /\ Len(to_string[i]) > 0
      /\ to_string[j] \in Seq(Nat) /\ Len(to_string[j]) > 0
  BY DigitsOf
<1>4. to_string[i] \in Seq(Z) /\ to_string[j] \in Seq(Z)
  <2>1. \A s \in Seq(Nat) : s \in Seq(Z)
    OBVIOUS
  <2> QED
    BY <1>3, <2>1
<1> HIDE DEF Z
<1>5. Key(a, i) # a
  <2>1. Len(Key(a, i)) = Len(a) + Len(to_string[i])
    BY <1>2, <1>4 DEF Key
  <2> QED
    BY <1>2, <1>3, <2>1
<1>6. ASSUME Key(a, i) = Key(a, j) PROVE i = j
  <2>1. to_string[i] = to_string[j]
    BY <1>2, <1>4, <1>6, BehindApart DEF Key
  <2> QED
    BY <2>1, DigitsDiffer
<1> QED
  BY <1>5, <1>6

(* Kernels of one name have the same arguments, as far as both have them.  *)
LEMMA ArgumentsAgree ==
  ASSUME SameVisible, NEW k \in Registered, NEW l \in Registered, k.name = l.name,
         Registered \subseteq Kernels,
         NEW i \in DOMAIN k.args \cap DOMAIN l.args
  PROVE  k.args[i] = l.args[i] /\ Offset(k)[i] = Offset(l)[i]
<1>1. /\ Visible(k) = Visible(l)
      /\ \A j \in Visible(k) : k.args[j] = l.args[j]
  BY DEF SameVisible
<1>2. \A j \in DOMAIN k.args \cap DOMAIN l.args : k.args[j] = l.args[j]
  BY <1>1 DEF Visible
<1>3. k.args \in Seq(Kinds) /\ l.args \in Seq(Kinds)
  BY KernelIs
<1> QED
  BY <1>2, <1>3, OffsetsAgree

(* Registered kernels are kernels.                                         *)
LEMMA RegisteredAre ==
  ASSUME objects \in Seq(Objects)
  PROVE  Registered \subseteq Kernels
<1>1. \A i \in DOMAIN objects : objects[i] \in Objects
  OBVIOUS
<1> QED
  BY <1>1 DEF Registered, Kernels

(* The entry of an argument.                                               *)
ArgEntry(l, i) ==
    [size |-> IF l.args[i] = "hidden" THEN 0 ELSE sizeof[l.args[i]], offset |-> Offset(l)[i]]
(* The table has, under a name, the arguments of the kernel l.             *)
Reads(l, name) ==
    /\ num_args(name) = Len(l.args)
    /\ \A i \in 1 .. Len(l.args) :
          Key(name, i - 1) \in DOMAIN table /\ Entry(name, i - 1) = ArgEntry(l, i)

(* What the i-th insertion of a kernel can be.                             *)
LEMMA EntryCases ==
  ASSUME NEW l \in Kernels, NEW i \in 1 .. Len(l.args) + 1, NEW key, NEW entry,
         KernelEntries(l)[i] = [key |-> key, entry |-> entry]
  PROVE  /\ key \in Keys(l)
         /\ \/ i \in 1 .. Len(l.args) /\ key = Key(l.name, i - 1) /\ entry = ArgEntry(l, i)
            \/ i = Len(l.args) + 1 /\ key = l.name /\ entry = [size |-> Len(l.args), offset |-> 0]
<1>0. Len(l.args) \in Nat
  BY KernelIs
<1>1. KernelEntries(l)[i].key = key /\ KernelEntries(l)[i].entry = entry
  OBVIOUS
<1>2. CASE i \in 1 .. Len(l.args)
  <2>1. key = Key(l.name, i - 1) /\ entry = ArgEntry(l, i)
    BY <1>1, <1>2, EntriesAre DEF ArgEntry
  <2>2. i - 1 \in 0 .. Len(l.args) - 1
    BY <1>0, <1>2
  <2> QED
    BY <1>2, <2>1, <2>2 DEF Keys
<1>3. CASE i = Len(l.args) + 1
  <2>1. KernelEntries(l)[i] = [key |-> l.name, entry |-> [size |-> Len(l.args), offset |-> 0]]
    BY <1>3, EntriesAre
  <2>2. key = l.name /\ entry = [size |-> Len(l.args), offset |-> 0]
    BY <1>1, <2>1
  <2> QED
    BY <1>3, <2>2 DEF Keys
<1> QED
  BY <1>0, <1>2, <1>3

(* Under the name of a registered kernel the table has the arguments of a  *)
(* registered kernel of that name, or nothing.                             *)
LEMMA TableReads ==
  ASSUME Shape, TableStems, KeysDistinct, SameVisible,
         NEW k \in Registered, k.name \in DOMAIN table
  PROVE  \E l \in Registered : l.name = k.name /\ Reads(l, k.name)
<1>1. Registered \subseteq Kernels
  BY RegisteredAre DEF Shape
<1>a. PICK l \in Registered : \E i \in 1 .. Len(l.args) + 1 :
        /\ KernelEntries(l)[i] = [key |-> k.name, entry |-> table[k.name]]
        /\ i = Len(l.args) + 1 => \A j \in 1 .. Len(l.args) : Key(l.name, j - 1) \in DOMAIN table
  BY DEF TableStems
<1>2. PICK i \in 1 .. Len(l.args) + 1 :
        /\ KernelEntries(l)[i] = [key |-> k.name, entry |-> table[k.name]]
        /\ i = Len(l.args) + 1 => \A j \in 1 .. Len(l.args) : Key(l.name, j - 1) \in DOMAIN table
  BY <1>a
<1>3. /\ k.name \in Keys(l)
      /\ \/ i \in 1 .. Len(l.args) /\ k.name = Key(l.name, i - 1)
         \/ i = Len(l.args) + 1 /\ table[k.name] = [size |-> Len(l.args), offset |-> 0]
  BY <1>1, <1>2, EntryCases
<1>4. l.name = k.name
  <2>1. k.name \in Keys(k)
    BY DEF Keys
  <2> QED
    BY <1>3, <2>1 DEF KeysDistinct
<1>5. Len(l.args) \in Nat /\ \E X : l.name \in Seq(X)
  BY <1>1, KernelIs
<1>6. i = Len(l.args) + 1 /\ table[k.name] = [size |-> Len(l.args), offset |-> 0]
  <2>1. i \in 1 .. Len(l.args) => i - 1 \in Nat
    BY <1>5
  <2> QED
    BY <1>3, <1>4, <1>5, <2>1, KeysDiffer
<1>7. num_args(k.name) = Len(l.args)
  BY <1>6 DEF num_args
<1>8. ASSUME NEW j \in 1 .. Len(l.args)
      PROVE  /\ Key(k.name, j - 1) \in DOMAIN table
             /\ Entry(k.name, j - 1) = ArgEntry(l, j)
  <2> DEFINE key == Key(k.name, j - 1)
  <2>1. key \in DOMAIN table
    BY <1>2, <1>4, <1>6
  <2>a. PICK m \in Registered : \E h \in 1 .. Len(m.args) + 1 :
            KernelEntries(m)[h] = [key |-> key, entry |-> table[key]]
    BY <2>1 DEF TableStems
  <2>2. PICK h \in 1 .. Len(m.args) + 1 :
            KernelEntries(m)[h] = [key |-> key, entry |-> table[key]]
    BY <2>a
  <2>3. /\ key \in Keys(m)
        /\ \/ h \in 1 .. Len(m.args) /\ key = Key(m.name, h - 1) /\ table[key] = ArgEntry(m, h)
           \/ h = Len(m.args) + 1 /\ key = m.name
    BY <1>1, <2>2, EntryCases
  <2>4. j - 1 \in 0 .. Len(l.args) - 1 /\ j - 1 \in Nat
    BY <1>5
  <2>5. m.name = l.name
    <3>1. key \in Keys(l)
      BY <1>4, <2>4 DEF Keys
    <3> QED
      BY <2>3, <3>1 DEF KeysDistinct
  <2>6. Len(m.args) \in Nat
    BY <1>1, KernelIs
  <2>7. h \in 1 .. Len(m.args) => h - 1 \in Nat
    BY <2>6
  <2>8. h \in 1 .. Len(m.args) /\ h - 1 = j - 1 /\ table[key] = ArgEntry(m, h)
    BY <1>4, <1>5, <2>3, <2>4, <2>5, <2>7, KeysDiffer
  <2>9. h = j
    BY <2>6, <2>8
  <2>10. j \in DOMAIN m.args \cap DOMAIN l.args
    BY <1>1, <2>8, <2>9, KernelIs
  <2>11. m.args[j] = l.args[j] /\ Offset(m)[j] = Offset(l)[j]
    BY <1>1, <2>5, <2>10, ArgumentsAgree
  <2>12. table[key] = ArgEntry(l, j)
    BY <2>8, <2>9, <2>11 DEF ArgEntry
  <2> QED
    BY <2>1, <2>12 DEF Entry
<1> QED
  BY <1>4, <1>7, <1>8 DEF Reads

-----------------------------------------------------------------------------
(* Packing *)

(* The program's own arguments are the first ones.                         *)
LEMMA VisibleFirst ==
  ASSUME NEW k \in Kernels
  PROVE  \E c \in Nat : Visible(k) = 1 .. c /\ c <= Len(k.args)
<1>1. Len(k.args) \in Nat /\ DOMAIN k.args = 1 .. Len(k.args)
  BY KernelIs
<1> DEFINE H == DOMAIN k.args \ Visible(k)
<1>2. H \in SUBSET Nat
  BY <1>1
<1>3. CASE H = {}
  <2>1. Visible(k) = 1 .. Len(k.args)
    BY <1>1, <1>3 DEF Visible
  <2> QED
    BY <1>1, <2>1
<1>4. CASE H # {}
  <2>1. PICK h \in H : \A m \in H : h <= m
    <3> HIDE DEF H
    <3> QED
      BY <1>2, <1>4, Least
  <2>2. h \in DOMAIN k.args /\ k.args[h] = "hidden"
    BY <2>1 DEF Visible
  <2>3. \A j \in DOMAIN k.args : h < j => k.args[j] = "hidden"
    BY <2>2, HiddenLast
  <2>4. \A j \in 1 .. h - 1 : j \in Visible(k)
    BY <1>1, <2>1, <2>2
  <2>5. \A j \in Visible(k) : j \in 1 .. h - 1
    BY <1>1, <2>2, <2>3 DEF Visible
  <2>6. Visible(k) = 1 .. h - 1
    BY <2>4, <2>5
  <2>7. h - 1 \in Nat /\ h - 1 <= Len(k.args)
    BY <1>1, <2>2
  <2> QED
    BY <2>6, <2>7
<1> QED
  BY <1>3, <1>4

(* The program's array has as many elements.                               *)
LEMMA ArgumentsAre ==
  ASSUME NEW k \in Kernels, NEW args \in Arguments(k)
  PROVE  /\ \A i \in Visible(k) : args[i] \in Values(k.args[i])
         /\ \E c \in Nat : /\ Visible(k) = 1 .. c /\ c <= Len(k.args)
                           /\ Len(args) = c /\ Cardinality(Visible(k)) = c
<1>1. PICK c \in Nat : Visible(k) = 1 .. c /\ c <= Len(k.args)
  BY VisibleFirst
<1>2. args \in [1 .. c -> Pointers \cup Numbers]
  BY <1>1 DEF Arguments
<1>3. args \in Seq(Pointers \cup Numbers) /\ Len(args) = c
  BY <1>2
<1>4. Cardinality(1 .. c) = c
  <2>1. Cardinality(1 .. c) = IF 1 > c THEN 0 ELSE c - 1 + 1
    BY FS_Interval
  <2> QED
    BY <2>1
<1> QED
  BY <1>1, <1>3, <1>4 DEF Arguments

(* Where an argument is.                                                   *)
Window(l, i) == Offset(l)[i] .. Offset(l)[i] + sizeof[l.args[i]] - 1

(* The memcpy of an argument writes where the argument is, and what it is. *)
LEMMA CopiedIs ==
  ASSUME NEW k \in Kernels, NEW l \in Kernels, Reads(l, k.name),
         Visible(k) = Visible(l), \A i \in Visible(k) : k.args[i] = l.args[i],
         NEW args \in Arguments(k), NEW i \in 1 .. Len(l.args)
  PROVE  /\ DOMAIN Copied(k.name, args, k.args, i - 1) = Window(l, i)
         /\ i \in Visible(k) => \A o \in Window(l, i) :
               Copied(k.name, args, k.args, i - 1)[o] = <<args[i], o - Offset(l)[i]>>
<1> DEFINE e == Entry(k.name, i - 1)
           z == sizeof[l.args[i]]
<1>1. /\ Len(l.args) \in Nat /\ DOMAIN l.args = 1 .. Len(l.args) /\ l.args[i] \in Kinds
      /\ l.args \in Seq(Kinds)
  BY KernelIs
<1>2. e = ArgEntry(l, i)
  BY DEF Reads
<1>3. e.offset = Offset(l)[i] /\ e.size = IF l.args[i] = "hidden" THEN 0 ELSE z
  BY <1>2 DEF ArgEntry
<1>4. z \in {4, 8} /\ (l.args[i] = "hidden" => z = 8) /\ Offset(l)[i] \in Nat
  BY <1>1, Sizes, OffsetsRise
<1>5. PICK c \in Nat : Visible(k) = 1 .. c /\ Len(args) = c
  BY ArgumentsAre
<1>6. (i - 1) + 1 = i
  BY <1>1
<1>7. CASE l.args[i] = "hidden"
  <2>1. i \notin Visible(l) /\ e.size = 0
    BY <1>3, <1>7 DEF Visible
  <2>2. Copied(k.name, args, k.args, i - 1) =
            [o \in e.offset .. e.offset + 8 - 1 |->
                IF o - e.offset < 0 THEN <<Junk, o - e.offset>> ELSE Junk]
    BY <2>1 DEF Copied
  <2> QED
    BY <2>1, <2>2, <1>3, <1>4, <1>7 DEF Window
<1>8. CASE l.args[i] # "hidden"
  <2>1. i \in Visible(k) /\ k.args[i] = l.args[i] /\ e.size = z /\ e.size # 0
    BY <1>1, <1>3, <1>4, <1>8 DEF Visible
  <2>2. i - 1 < Len(args)
    BY <1>5, <2>1
  <2>3. Copied(k.name, args, k.args, i - 1) =
            [o \in e.offset .. e.offset + e.size - 1 |->
                IF o - e.offset < sizeof[k.args[(i - 1) + 1]]
                THEN <<args[(i - 1) + 1], o - e.offset>> ELSE Junk]
    BY <2>1, <2>2 DEF Copied
  <2>4. Copied(k.name, args, k.args, i - 1) =
            [o \in Window(l, i) |->
                IF o - Offset(l)[i] < z THEN <<args[i], o - Offset(l)[i]>> ELSE Junk]
    BY <2>1, <2>3, <1>3, <1>6 DEF Window
  <2>5. \A o \in Window(l, i) : o - Offset(l)[i] < z
    BY <1>4 DEF Window
  <2> QED
    BY <2>1, <2>4, <2>5
<1> QED
  BY <1>7, <1>8

(* Windows are apart.                                                      *)
LEMMA WindowsApart ==
  ASSUME NEW l \in Kernels, NEW i \in DOMAIN l.args, NEW j \in DOMAIN l.args,
         NEW o \in Window(l, i), o \in Window(l, j)
  PROVE  i = j
<1>1. l.args \in Seq(Kinds) /\ DOMAIN l.args = 1 .. Len(l.args) /\ Len(l.args) \in Nat
  BY KernelIs
<1>2. /\ sizeof[l.args[i]] \in Nat /\ sizeof[l.args[j]] \in Nat
      /\ Offset(l)[i] \in Nat /\ Offset(l)[j] \in Nat
  BY <1>1, KernelIs, Sizes, OffsetsRise
<1>3. i < j => Offset(l)[i] + sizeof[l.args[i]] <= Offset(l)[j]
  BY <1>1, OffsetsRise
<1>4. j < i => Offset(l)[j] + sizeof[l.args[j]] <= Offset(l)[i]
  BY <1>1, OffsetsRise
<1>5. i \in Nat /\ j \in Nat
  BY <1>1
<1> QED
  BY <1>2, <1>3, <1>4, <1>5 DEF Window

(* The buffer ends with the last argument, or before it if that is hidden. *)
LEMMA TotalIs ==
  ASSUME NEW l \in Kernels, NEW name, Reads(l, name)
  PROVE  /\ total_size(name) \in Nat
         /\ \A i \in DOMAIN l.args :
               (i < Len(l.args) \/ l.args[i] # "hidden") => Window(l, i) \subseteq 0 .. total_size(name) - 1
<1> DEFINE n == Len(l.args)
           z(i) == sizeof[l.args[i]]
<1>1. l.args \in Seq(Kinds) /\ DOMAIN l.args = 1 .. n /\ n \in Nat
  BY KernelIs
<1>2. \A i \in 1 .. n : z(i) \in Nat /\ Offset(l)[i] \in Nat
  BY <1>1, KernelIs, Sizes, OffsetsRise
<1>3. num_args(name) = n
  BY DEF Reads
<1>4. CASE n = 0
  BY <1>1, <1>3, <1>4 DEF total_size
<1>5. CASE n # 0
  <2>1. n \in 1 .. n
    BY <1>1, <1>5
  <2>2. Entry(name, n - 1) = ArgEntry(l, n)
    BY <2>1 DEF Reads
  <2>3. total_size(name) = Offset(l)[n] + IF l.args[n] = "hidden" THEN 0 ELSE z(n)
    BY <1>3, <1>5, <2>2 DEF total_size, ArgEntry
  <2>4. \A i \in 1 .. n : i < n => Offset(l)[i] + z(i) <= Offset(l)[n]
    BY <1>1, <2>1, OffsetsRise
  <2>5. total_size(name) \in Nat /\ Offset(l)[n] <= total_size(name)
    BY <1>2, <2>1, <2>3
  <2>6. ASSUME NEW i \in 1 .. n, i < n \/ l.args[i] # "hidden"
        PROVE  Offset(l)[i] + z(i) <= total_size(name)
    <3>1. CASE i < n
      BY <3>1, <1>2, <2>1, <2>4, <2>5
    <3>2. CASE i = n
      BY <3>2, <1>2, <2>1, <2>3, <2>6
    <3> QED
      BY <1>1, <3>1, <3>2
  <2>7. ASSUME NEW i \in 1 .. n, i < n \/ l.args[i] # "hidden"
        PROVE  Window(l, i) \subseteq 0 .. total_size(name) - 1
    BY <1>2, <2>5, <2>6, <2>7 DEF Window
  <2> QED
    BY <1>1, <2>5, <2>7
<1> QED
  BY <1>4, <1>5

(* What is written where an argument is, is that argument.                 *)
LEMMA WritesAre ==
  ASSUME NEW k \in Kernels, NEW l \in Kernels, Reads(l, k.name),
         Visible(k) = Visible(l), \A i \in Visible(k) : k.args[i] = l.args[i],
         NEW args \in Arguments(k)
  PROVE  /\ DOMAIN Writes(k.name, args, k.args) =
               (UNION {Window(l, i) : i \in DOMAIN l.args}) \cup 0 .. total_size(k.name) - 1
         /\ \A i \in Visible(k) : \A o \in Window(l, i) :
               Writes(k.name, args, k.args)[o] = <<args[i], o - Offset(l)[i]>>
<1> DEFINE n == Len(l.args)
           C(i) == Copied(k.name, args, k.args, i)
           offs == UNION {DOMAIN C(i) : i \in 0 .. n - 1}
           last(o) == {i \in 0 .. n - 1 : /\ o \in DOMAIN C(i)
                                          /\ \A j \in i + 1 .. n - 1 : o \notin DOMAIN C(j)}
<1>1. DOMAIN l.args = 1 .. n /\ n \in Nat
  BY KernelIs
<1>2. num_args(k.name) = n
  BY DEF Reads
<1>3. Writes(k.name, args, k.args) =
          [o \in offs \cup 0 .. total_size(k.name) - 1 |->
              IF o \in offs THEN LET i == CHOOSE i \in last(o) : TRUE IN C(i)[o] ELSE Zero]
  BY <1>2 DEF Writes
<1>4. \A i \in 1 .. n : DOMAIN C(i - 1) = Window(l, i)
  BY <1>1, CopiedIs
<1>5. \A i \in Visible(k) : \A o \in Window(l, i) : C(i - 1)[o] = <<args[i], o - Offset(l)[i]>>
  <2>1. \A i \in Visible(k) : i \in 1 .. n
    BY <1>1 DEF Visible
  <2> QED
    BY <2>1, CopiedIs
<1> HIDE DEF C, n
<1>6. \A i \in 0 .. n - 1 : DOMAIN C(i) = Window(l, i + 1)
  <2> TAKE i \in 0 .. n - 1
  <2>1. i + 1 \in 1 .. n /\ (i + 1) - 1 = i
    BY <1>1
  <2> QED
    BY <2>1, <1>4
<1>7. offs = UNION {Window(l, i) : i \in DOMAIN l.args}
  <2>1. \A i \in 1 .. n : i - 1 \in 0 .. n - 1
    BY <1>1
  <2>2. \A i \in 0 .. n - 1 : i + 1 \in 1 .. n
    BY <1>1
  <2> QED
    BY <1>1, <1>4, <1>6, <2>1, <2>2
<1>8. ASSUME NEW i \in 1 .. n, NEW o \in Window(l, i)
      PROVE  last(o) = {i - 1}
  <2>1. i - 1 \in 0 .. n - 1 /\ o \in DOMAIN C(i - 1)
    BY <1>1, <1>4
  <2>2. \A j \in 0 .. n - 1 : o \in DOMAIN C(j) => j = i - 1
    <3> SUFFICES ASSUME NEW j \in 0 .. n - 1, o \in DOMAIN C(j) PROVE j = i - 1
      OBVIOUS
    <3>1. o \in Window(l, j + 1) /\ j + 1 \in 1 .. n
      BY <1>1, <1>6
    <3>2. j + 1 = i
      BY <3>1, <1>1, WindowsApart
    <3> QED
      BY <3>2
  <2>3. \A j \in (i - 1) + 1 .. n - 1 : j \in 0 .. n - 1 /\ j # i - 1
    BY <1>1
  <2> QED
    BY <2>1, <2>2, <2>3
<1>9. ASSUME NEW i \in Visible(k), NEW o \in Window(l, i)
      PROVE  Writes(k.name, args, k.args)[o] = <<args[i], o - Offset(l)[i]>>
  <2>1. i \in 1 .. n
    BY <1>1 DEF Visible
  <2>2. o \in offs
    BY <2>1, <1>1, <1>7
  <2>3. (CHOOSE j \in last(o) : TRUE) = i - 1
    BY <2>1, <1>8
  <2> HIDE DEF offs, last
  <2>4. Writes(k.name, args, k.args)[o] = C(i - 1)[o]
    BY <1>3, <2>2, <2>3
  <2> QED
    BY <2>4, <1>5
<1> QED
  <2> HIDE DEF offs, last
  <2> QED
    BY <1>3, <1>7, <1>9

(* The row of a launch has every argument of the program, and at most the  *)
(* last window, that of a hidden argument, is behind the buffer.           *)
LEMMA Packing ==
  ASSUME NEW k \in Kernels, NEW l \in Kernels, Reads(l, k.name),
         Visible(k) = Visible(l), \A i \in Visible(k) : k.args[i] = l.args[i],
         \A i \in Visible(k) : Offset(k)[i] = Offset(l)[i],
         NEW args \in Arguments(k)
  PROVE  /\ Contains(arg_data(k.name, args, k.args), k, args)
         /\ Cardinality(Beyond(k.name, args, k.args)) <= 8
         /\ Beyond(k.name, args, k.args) # {} => Visible(l) # DOMAIN l.args
<1> DEFINE n == Len(l.args)
           T == total_size(k.name)
           W == Writes(k.name, args, k.args)
           B == Beyond(k.name, args, k.args)
<1>1. DOMAIN l.args = 1 .. n /\ n \in Nat /\ l.args \in Seq(Kinds)
  BY KernelIs
<1>2. /\ T \in Nat
      /\ \A i \in DOMAIN l.args : (i < n \/ l.args[i] # "hidden") => Window(l, i) \subseteq 0 .. T - 1
  BY TotalIs
<1>3. /\ DOMAIN W = (UNION {Window(l, i) : i \in DOMAIN l.args}) \cup 0 .. T - 1
      /\ \A i \in Visible(k) : \A o \in Window(l, i) : W[o] = <<args[i], o - Offset(l)[i]>>
  BY WritesAre
<1>4. arg_data(k.name, args, k.args) = [o \in 0 .. T - 1 |-> W[o]] /\ B = DOMAIN W \ (0 .. T - 1)
  BY DEF arg_data, Beyond
<1> HIDE DEF T, W, B, n
<1>5. ASSUME NEW i \in Visible(k), NEW b \in 0 .. sizeof[k.args[i]] - 1
      PROVE  LET o == Offset(k)[i] + b
             IN  /\ o \in DOMAIN arg_data(k.name, args, k.args)
                 /\ arg_data(k.name, args, k.args)[o] = <<args[i], b>>
  <2> DEFINE o == Offset(k)[i] + b
  <2>1. i \in DOMAIN l.args /\ l.args[i] # "hidden" /\ k.args[i] = l.args[i] /\ Offset(k)[i] = Offset(l)[i]
    BY DEF Visible
  <2>2. Offset(l)[i] \in Nat /\ sizeof[l.args[i]] \in Nat
    BY <1>1, <2>1, KernelIs, Sizes, OffsetsRise
  <2>3. o \in Window(l, i) /\ o - Offset(l)[i] = b
    BY <2>1, <2>2 DEF Window
  <2>4. o \in 0 .. T - 1
    BY <1>2, <2>1, <2>3
  <2>5. W[o] = <<args[i], b>>
    BY <1>3, <2>3
  <2> QED
    BY <1>4, <2>4, <2>5
<1>6. \A o \in B : n \in DOMAIN l.args /\ o \in Window(l, n) /\ l.args[n] = "hidden"
  <2> TAKE o \in B
  <2>1. PICK i \in DOMAIN l.args : o \in Window(l, i)
    BY <1>3, <1>4
  <2>2. ~(i < n \/ l.args[i] # "hidden")
    BY <1>2, <1>4, <2>1
  <2>3. i = n
    BY <1>1, <2>2
  <2> QED
    BY <2>1, <2>2, <2>3
<1>7. B # {} => Visible(l) # DOMAIN l.args
  BY <1>6 DEF Visible
<1>8. Cardinality(B) <= 8
  <2>1. CASE B = {}
    <3>1. Cardinality({}) = 0
      BY FS_EmptySet
    <3> QED
      BY <2>1, <3>1
  <2>2. CASE B # {}
    <3>1. n \in DOMAIN l.args /\ l.args[n] = "hidden" /\ B \subseteq Window(l, n)
      BY <1>6, <2>2
    <3>2. Offset(l)[n] \in Nat /\ sizeof[l.args[n]] = 8
      BY <1>1, <3>1, OffsetsRise, KernelIs, Sizes
    <3> DEFINE a == Offset(l)[n]
    <3>3. Window(l, n) = a .. a + 7
      BY <3>2 DEF Window
    <3> HIDE DEF a
    <3>4. a \in Int /\ a + 7 \in Int /\ ~(a > a + 7) /\ (a + 7) - a + 1 = 8
      BY <3>2 DEF a
    <3>5. IsFiniteSet(a .. a + 7) /\ Cardinality(a .. a + 7) = 8
      BY <3>4, FS_Interval
    <3> QED
      BY <3>1, <3>3, <3>5, FS_Subset
  <2> QED
    BY <2>1, <2>2
<1> QED
  BY <1>5, <1>7, <1>8 DEF Contains, B

-----------------------------------------------------------------------------
(* Replaying a launch *)

(* A set of numbers up to n that is not empty has a greatest element.      *)
LEMMA Greatest ==
  ASSUME NEW n \in Nat, NEW S \in SUBSET (1 .. n), S # {}
  PROVE  \E i \in S : \A j \in S : j <= i
<1> DEFINE R == {n - i : i \in S}
<1>1. R \in SUBSET Nat /\ R # {}
  <2>1. \A i \in S : n - i \in Nat
    OBVIOUS
  <2> QED
    BY <2>1
<1>2. PICK r \in R : \A q \in R : r <= q
  <2> HIDE DEF R
  <2> QED
    BY <1>1, Least
<1>3. PICK i \in S : r = n - i
  BY <1>2
<1>4. \A j \in S : n - i <= n - j
  BY <1>2, <1>3
<1> QED
  BY <1>4

(* The metadata and the function that are found under the name of a        *)
(* registered kernel are registered kernels of that name.                  *)
LEMMA FoundByName ==
  ASSUME objects \in Seq(Objects), NEW k \in Registered
  PROVE  /\ DescribedBy(k.name) \in Registered /\ DescribedBy(k.name).name = k.name
         /\ Function(k.name) \in Registered /\ Function(k.name).name = k.name
<1> DEFINE name == k.name
           I == {i \in DOMAIN objects : Has(objects[i], name)}
           f == CHOOSE i \in I : \A j \in I : i <= j
           d == CHOOSE i \in I : \A j \in I : j <= i
<1>1. DOMAIN objects = 1 .. Len(objects) /\ Len(objects) \in Nat
  OBVIOUS
<1>2. I # {}
  BY DEF Registered, Has
<1>3. I \in SUBSET (1 .. Len(objects)) /\ I \in SUBSET Nat
  BY <1>1
<1> HIDE DEF I
<1>4. f \in I
  BY <1>2, <1>3, Least
<1>5. d \in I
  BY <1>1, <1>2, <1>3, Greatest
<1>6. ASSUME NEW i \in I
      PROVE  KernelOf(objects[i], name) \in Registered /\ KernelOf(objects[i], name).name = name
  <2>1. i \in DOMAIN objects /\ \E j \in DOMAIN objects[i] : objects[i][j].name = name
    BY DEF I, Has
  <2>2. PICK j \in DOMAIN objects[i] :
            KernelOf(objects[i], name) = objects[i][j] /\ objects[i][j].name = name
    BY <2>1 DEF KernelOf
  <2> QED
    BY <2>1, <2>2 DEF Registered
<1>7. DescribedBy(name) = KernelOf(objects[d], name)
  BY DEF DescribedBy, I
<1>8. Function(name) = KernelOf(objects[f], name)
  BY DEF Function, I
<1> HIDE DEF f, d
<1> QED
  BY <1>4, <1>5, <1>6, <1>7, <1>8

(* What is right for one kernel of a name is right for all.                *)
LEMMA ContainsSame ==
  ASSUME Shape, SameVisible, NEW k \in Registered, NEW j \in Registered, j.name = k.name,
         NEW data, NEW args, Contains(data, k, args)
  PROVE  Contains(data, j, args)
<1>1. Registered \subseteq Kernels
  BY RegisteredAre DEF Shape
<1>2. Visible(j) = Visible(k) /\ \A i \in Visible(j) : j.args[i] = k.args[i]
  BY DEF SameVisible
<1>3. \A i \in Visible(j) : i \in DOMAIN j.args \cap DOMAIN k.args
  BY <1>2 DEF Visible
<1>4. \A i \in Visible(j) : Offset(j)[i] = Offset(k)[i]
  BY <1>1, <1>3, ArgumentsAgree
<1> QED
  BY <1>2, <1>4 DEF Contains

(* The definition of Translated, by the offsets of the arguments.          *)
At(d, data, i) ==
    {p \in Allocated : \A b \in 0 .. 7 :
        Offset(d)[i] + b \in DOMAIN data /\ data[Offset(d)[i] + b] = <<p, b>>}
Buffers(d, data) == {i \in DOMAIN d.args : d.args[i] = "pointer" /\ At(d, data, i) # {}}
Replacing(d, data) ==
    [o \in DOMAIN data |->
        IF \E i \in Buffers(d, data) : o \in Offset(d)[i] .. Offset(d)[i] + 7
        THEN LET i == CHOOSE i \in Buffers(d, data) : o \in Offset(d)[i] .. Offset(d)[i] + 7
             IN  <<Moved[CHOOSE p \in At(d, data, i) : TRUE], o - Offset(d)[i]>>
        ELSE data[o]]
LEMMA TranslatedIs ==
  ASSUME NEW name, NEW data
  PROVE  Translated(name, data) = Replacing(DescribedBy(name), data)
<1> DEFINE d == DescribedBy(name)
<1> HIDE DEF d
<1> DEFINE offset(i) == ArgInfos(d)[i].offset
           at(i) == {p \in Allocated : \A b \in 0 .. 7 :
                        offset(i) + b \in DOMAIN data /\ data[offset(i) + b] = <<p, b>>}
           buffers == {i \in DOMAIN d.args : d.args[i] = "pointer" /\ at(i) # {}}
<1>1. Translated(name, data) =
            [o \in DOMAIN data |->
                IF \E i \in buffers : o \in offset(i) .. offset(i) + 7
                THEN LET i == CHOOSE i \in buffers : o \in offset(i) .. offset(i) + 7
                     IN  <<Moved[CHOOSE p \in at(i) : TRUE], o - offset(i)>>
                ELSE data[o]]
  BY DEF Translated, d
<1>2. \A i \in DOMAIN d.args : offset(i) = Offset(d)[i]
  BY DEF ArgInfos
<1>3. \A i \in DOMAIN d.args : at(i) = At(d, data, i)
  BY <1>2 DEF At
<1> HIDE DEF at
<1>4. buffers = Buffers(d, data)
  BY <1>3 DEF Buffers
<1> HIDE DEF offset, buffers
<1>5. \A i \in Buffers(d, data) : offset(i) = Offset(d)[i] /\ at(i) = At(d, data, i)
  BY <1>2, <1>3 DEF Buffers
<1>6. \A o : (CHOOSE i \in buffers : o \in offset(i) .. offset(i) + 7)
             = (CHOOSE i \in Buffers(d, data) : o \in Offset(d)[i] .. Offset(d)[i] + 7)
  BY <1>4, <1>5
<1> DEFINE F(o) == IF \E i \in buffers : o \in offset(i) .. offset(i) + 7
                   THEN LET i == CHOOSE i \in buffers : o \in offset(i) .. offset(i) + 7
                        IN  <<Moved[CHOOSE p \in at(i) : TRUE], o - offset(i)>>
                   ELSE data[o]
           G(o) == IF \E i \in Buffers(d, data) : o \in Offset(d)[i] .. Offset(d)[i] + 7
                   THEN LET i == CHOOSE i \in Buffers(d, data) : o \in Offset(d)[i] .. Offset(d)[i] + 7
                        IN  <<Moved[CHOOSE p \in At(d, data, i) : TRUE], o - Offset(d)[i]>>
                   ELSE data[o]
<1>7. ASSUME NEW o
      PROVE  F(o) = G(o)
  <2>1. CASE \E i \in Buffers(d, data) : o \in Offset(d)[i] .. Offset(d)[i] + 7
    <3>1. PICK c : c = CHOOSE i \in Buffers(d, data) : o \in Offset(d)[i] .. Offset(d)[i] + 7
      OBVIOUS
    <3>2. c \in Buffers(d, data)
      BY <2>1, <3>1
    <3>3. offset(c) = Offset(d)[c] /\ at(c) = At(d, data, c)
      BY <1>5, <3>2
    <3>4. c = CHOOSE i \in buffers : o \in offset(i) .. offset(i) + 7
      BY <1>6, <3>1
    <3>5. \E i \in buffers : o \in offset(i) .. offset(i) + 7
      BY <1>4, <1>5, <2>1
    <3>6. F(o) = <<Moved[CHOOSE p \in at(c) : TRUE], o - offset(c)>>
      BY <3>4, <3>5
    <3>7. G(o) = <<Moved[CHOOSE p \in At(d, data, c) : TRUE], o - Offset(d)[c]>>
      BY <2>1, <3>1
    <3> HIDE DEF F, G
    <3> QED
      BY <3>3, <3>6, <3>7
  <2>2. CASE ~ \E i \in Buffers(d, data) : o \in Offset(d)[i] .. Offset(d)[i] + 7
    <3>1. ~ \E i \in buffers : o \in offset(i) .. offset(i) + 7
      BY <1>4, <1>5, <2>2
    <3> QED
      BY <2>2, <3>1
  <2> QED
    BY <2>1, <2>2
<1>8. Translated(name, data) = [o \in DOMAIN data |-> F(o)]
  BY <1>1
<1> HIDE DEF F, G
<1>9. Translated(name, data) = [o \in DOMAIN data |-> G(o)]
  BY <1>7, <1>8
<1> QED
  BY <1>9 DEF G, Replacing, d

(* The replay tool replaces the addresses it knows and leaves the other    *)
(* arguments as they are.                                                  *)
LEMMA Translating ==
  ASSUME Shape, SameVisible, NEW k \in Registered,
         NEW args \in Arguments(k), NEW data, Contains(data, k, args)
  PROVE  Contains(Translated(k.name, data), k, Replaced(k, args))
<1>1. Registered \subseteq Kernels
  BY RegisteredAre DEF Shape
<1>2. PICK d \in Registered : d = DescribedBy(k.name) /\ d.name = k.name
  BY FoundByName DEF Shape
<1> DEFINE off(i) == Offset(d)[i]
           at(i) == At(d, data, i)
           buffers == Buffers(d, data)
           T == Translated(k.name, data)
<1>3. d \in Kernels /\ k \in Kernels /\ d.args \in Seq(Kinds) /\ k.args \in Seq(Kinds)
  BY <1>1, KernelIs
<1>4. Visible(d) = Visible(k) /\ \A i \in Visible(k) : d.args[i] = k.args[i]
  BY <1>2 DEF SameVisible
<1>5. \A i \in Visible(k) : off(i) = Offset(k)[i]
  <2>1. \A i \in Visible(k) : i \in DOMAIN d.args \cap DOMAIN k.args
    BY <1>4 DEF Visible
  <2> QED
    BY <1>1, <1>2, <2>1, ArgumentsAgree
<1>6. T = [o \in DOMAIN data |->
              IF \E i \in buffers : o \in off(i) .. off(i) + 7
              THEN LET i == CHOOSE i \in buffers : o \in off(i) .. off(i) + 7
                   IN  <<Moved[CHOOSE p \in at(i) : TRUE], o - off(i)>>
              ELSE data[o]]
  <2>1. T = Replacing(d, data)
    BY <1>2, TranslatedIs
  <2> HIDE DEF T
  <2> QED
    BY <2>1 DEF Replacing
<1>7. \A i \in Visible(k) : args[i] \in Values(k.args[i])
  BY <1>3, ArgumentsAre
<1>8. \A i \in Visible(k) : /\ sizeof[k.args[i]] \in Nat /\ off(i) \in Nat
                            /\ k.args[i] = "pointer" => sizeof[k.args[i]] = 8
  <2>1. \A i \in Visible(k) : i \in DOMAIN k.args /\ i \in DOMAIN d.args
    BY <1>4 DEF Visible
  <2>2. \A i \in DOMAIN k.args : k.args[i] \in Kinds
    BY <1>3
  <2> QED
    BY <2>1, <2>2, <1>3, Sizes, OffsetsRise
<1>9. ASSUME NEW i \in Visible(k), NEW b \in 0 .. sizeof[k.args[i]] - 1
      PROVE  off(i) + b \in DOMAIN data /\ data[off(i) + b] = <<args[i], b>>
  BY <1>5 DEF Contains
<1>10. ASSUME NEW i \in buffers
       PROVE  i \in Visible(k) /\ k.args[i] = "pointer" /\ args[i] \in Allocated /\ at(i) = {args[i]}
  <2>1. i \in Visible(k) /\ k.args[i] = "pointer"
    BY <1>4 DEF Visible, Buffers
  <2>2. 0 \in 0 .. sizeof[k.args[i]] - 1 /\ 0 .. sizeof[k.args[i]] - 1 = 0 .. 7
    BY <2>1, <1>8
  <2>3. \A b \in 0 .. 7 : off(i) + b \in DOMAIN data /\ data[off(i) + b] = <<args[i], b>>
    BY <2>1, <2>2, <1>9
  <2>4. \A p \in at(i) : p = args[i]
    <3> SUFFICES ASSUME NEW p \in at(i) PROVE p = args[i]
      OBVIOUS
    <3>1. <<p, 0>> = <<args[i], 0>>
      BY <2>3 DEF At
    <3> QED
      BY <3>1
  <2> QED
    BY <2>1, <2>4 DEF Buffers, At
<1>11. ASSUME NEW i \in Visible(k), k.args[i] = "pointer", args[i] \in Allocated
       PROVE  i \in buffers
  <2>1. i \in DOMAIN d.args /\ d.args[i] = "pointer"
    BY <1>4, <1>11 DEF Visible
  <2>2. 0 .. sizeof[k.args[i]] - 1 = 0 .. 7
    BY <1>8, <1>11
  <2>3. args[i] \in at(i)
    BY <2>2, <1>9, <1>11 DEF At
  <2> QED
    BY <2>1, <2>3 DEF Buffers
<1> HIDE DEF off, at, buffers, T
<1>12. ASSUME NEW i \in Visible(k), NEW b \in 0 .. sizeof[k.args[i]] - 1, NEW j \in buffers,
              off(i) + b \in off(j) .. off(j) + 7
       PROVE  i = j
  <2>1. j \in Visible(k) /\ sizeof[k.args[j]] = 8
    BY <1>8, <1>10
  <2>2. off(i) + b \in Window(d, i) /\ off(i) + b \in Window(d, j)
    BY <2>1, <1>4, <1>8, <1>12 DEF Window, off
  <2>3. i \in DOMAIN d.args /\ j \in DOMAIN d.args
    BY <2>1, <1>4 DEF Visible
  <2> QED
    BY <2>2, <2>3, <1>3, WindowsApart
<1>13. ASSUME NEW i \in Visible(k), NEW b \in 0 .. sizeof[k.args[i]] - 1
       PROVE  off(i) + b \in DOMAIN T /\ T[off(i) + b] = <<Replaced(k, args)[i], b>>
  <2> DEFINE o == off(i) + b
  <2>1. o \in DOMAIN data /\ data[o] = <<args[i], b>> /\ o - off(i) = b
    BY <1>8, <1>9
  <2>2. Replaced(k, args)[i] = IF args[i] \in Allocated THEN Moved[args[i]] ELSE args[i]
    BY DEF Replaced
  <2>3. o \in DOMAIN T
    BY <1>6, <2>1
  <2>4. CASE i \in buffers
    <3>1. k.args[i] = "pointer" /\ args[i] \in Allocated /\ at(i) = {args[i]}
      BY <1>10, <2>4
    <3>2. o \in off(i) .. off(i) + 7
      BY <1>8, <3>1
    <3>3. (CHOOSE j \in buffers : o \in off(j) .. off(j) + 7) = i
      BY <1>12, <2>4, <3>2
    <3>4. (CHOOSE p \in at(i) : TRUE) = args[i]
      BY <3>1
    <3> HIDE DEF o
    <3>5. T[o] = <<Moved[args[i]], o - off(i)>>
      BY <1>6, <2>1, <2>4, <3>2, <3>3, <3>4
    <3> QED
      BY <2>1, <2>2, <2>3, <3>1, <3>5 DEF o
  <2>5. CASE i \notin buffers
    <3>1. ~ \E j \in buffers : o \in off(j) .. off(j) + 7
      BY <1>12, <2>5
    <3>2. args[i] \notin Allocated
      <4>1. k.args[i] = "pointer" => args[i] \notin Allocated
        BY <1>11, <2>5
      <4>2. k.args[i] # "pointer" => args[i] \in Numbers
        BY <1>7 DEF Values
      <4> QED
        BY <4>1, <4>2, MovedAssumption, NumbersAssumption
    <3> HIDE DEF o
    <3>3. T[o] = data[o]
      BY <1>6, <2>1, <3>1
    <3> QED
      BY <2>1, <2>2, <2>3, <3>2, <3>3 DEF o
  <2> QED
    BY <2>4, <2>5
<1> QED
  BY <1>5, <1>13 DEF Contains, T

-----------------------------------------------------------------------------
(* The steps *)

(* A sequence of anything with one more element.                           *)
LEMMA AppendAny ==
  ASSUME NEW s, NEW e, \E X : s \in Seq(X)
  PROVE  /\ \E X : Append(s, e) \in Seq(X)
         /\ Len(s) \in Nat /\ Len(Append(s, e)) = Len(s) + 1
         /\ \A n \in 1 .. Len(s) : Append(s, e)[n] = s[n]
         /\ Append(s, e)[Len(s) + 1] = e
<1>1. PICK X : s \in Seq(X)
  OBVIOUS
<1> DEFINE Y == X \cup {e}
<1>2. s \in Seq(Y) /\ e \in Y
  BY <1>1
<1> HIDE DEF Y
<1>3. Append(s, e) \in Seq(Y)
  BY <1>2
<1>4. /\ Len(s) \in Nat /\ Len(Append(s, e)) = Len(s) + 1
      /\ \A n \in 1 .. Len(s) : Append(s, e)[n] = s[n]
      /\ Append(s, e)[Len(s) + 1] = e
  BY <1>2
<1> QED
  BY <1>3, <1>4

(* What a step does to the code objects that are registered.               *)
LEMMA ObjectsStep ==
  ASSUME Shape, [Next]_vars
  PROVE  \/ /\ UNCHANGED objects /\ Registered' = Registered
         \/ \E o \in Objects :
               /\ Register(o)
               /\ objects' \in Seq(Objects) /\ Len(objects') = Len(objects) + 1
               /\ Len(objects) \in Nat
               /\ \A i \in 1 .. Len(objects) : objects'[i] = objects[i]
               /\ objects'[Len(objects) + 1] = o
               /\ Registered' = Registered \cup {o[j] : j \in DOMAIN o}
<1>1. CASE UNCHANGED objects
  BY <1>1 DEF Registered
<1>2. ASSUME NEW o \in Objects, Register(o)
      PROVE  /\ objects' \in Seq(Objects) /\ Len(objects') = Len(objects) + 1
             /\ Len(objects) \in Nat
             /\ \A i \in 1 .. Len(objects) : objects'[i] = objects[i]
             /\ objects'[Len(objects) + 1] = o
             /\ Registered' = Registered \cup {o[j] : j \in DOMAIN o}
  <2>1. objects' = Append(objects, o) /\ objects \in Seq(Objects)
    BY <1>2 DEF Register, Shape
  <2>2. /\ objects' \in Seq(Objects) /\ Len(objects') = Len(objects) + 1
        /\ Len(objects) \in Nat
        /\ \A i \in 1 .. Len(objects) : objects'[i] = objects[i]
        /\ objects'[Len(objects) + 1] = o
        /\ DOMAIN objects = 1 .. Len(objects) /\ DOMAIN objects' = 1 .. Len(objects) + 1
    BY <2>1
  <2>3. DOMAIN objects' = DOMAIN objects \cup {Len(objects) + 1}
    BY <2>2
  <2>4. Registered' = Registered \cup {o[j] : j \in DOMAIN o}
    BY <2>2, <2>3 DEF Registered
  <2> QED
    BY <2>2, <2>4
<1>3. UNCHANGED objects \/ \E o \in Objects : Register(o)
  BY DEF Next, vars, Insert, Launch, LaunchRaces, LaunchFails, Open, ReplayLaunch
<1> QED
  BY <1>1, <1>2, <1>3

(* Once the program is not orderly, it stays so.                           *)
LEMMA OrderlyBack ==
  ASSUME Shape, [Next]_vars
  PROVE  /\ Registered \subseteq Registered'
         /\ Orderly' => Orderly
<1>1. Registered \subseteq Registered'
  BY ObjectsStep
<1>2. raced => raced'
  BY DEF Next, vars, Register, Insert, Launch, LaunchRaces, LaunchFails, Open, ReplayLaunch
<1>3. KeysDistinct' => KeysDistinct
  BY <1>1 DEF KeysDistinct
<1>4. SameVisible' => SameVisible
  BY <1>1 DEF SameVisible
<1> QED
  BY <1>1, <1>2, <1>3, <1>4 DEF Orderly

(* Every step keeps the types.                                             *)
LEMMA ShapeStep ==
  ASSUME Shape, [Next]_vars
  PROVE  Shape'
<1>1. objects' \in Seq(Objects)
  BY ObjectsStep DEF Shape
<1>2. \A i \in DOMAIN objects' : objects'[i] \notin {objects'[j] : j \in 1 .. i - 1}
  <2>1. CASE UNCHANGED objects
    BY <2>1 DEF Shape
  <2>2. ASSUME NEW o \in Objects, Register(o),
               Len(objects') = Len(objects) + 1, Len(objects) \in Nat,
               \A i \in 1 .. Len(objects) : objects'[i] = objects[i],
               objects'[Len(objects) + 1] = o,
               NEW i \in DOMAIN objects', NEW j \in 1 .. i - 1, objects'[i] = objects'[j]
        PROVE  FALSE
    <3>1. DOMAIN objects' = 1 .. Len(objects) + 1 /\ DOMAIN objects = 1 .. Len(objects)
      BY <1>1, <2>2 DEF Shape
    <3>2. j \in 1 .. Len(objects) /\ objects'[j] = objects[j]
      BY <2>2, <3>1
    <3>3. CASE i = Len(objects) + 1
      <4>1. objects[j] # o
        BY <2>2, <3>1, <3>2 DEF Register
      <4> QED
        BY <2>2, <3>2, <3>3, <4>1
    <3>4. CASE i \in 1 .. Len(objects)
      <4>1. objects[i] # objects[j]
        BY <2>2, <3>1, <3>4 DEF Shape
      <4> QED
        BY <2>2, <3>2, <3>4, <4>1
    <3> QED
      BY <2>2, <3>1, <3>3, <3>4
  <2> QED
    BY <2>1, <2>2, ObjectsStep
<1>3. todo' \in Seq(Items)
  <2>1. CASE UNCHANGED todo
    BY <2>1 DEF Shape
  <2>2. ASSUME NEW o \in Objects, Register(o)
        PROVE  todo' \in Seq(Items)
    BY <2>2, InsertionsStem DEF Register
  <2>3. CASE Insert
    BY <2>3 DEF Insert, Shape
  <2> QED
    BY <2>1, <2>2, <2>3 DEF Next, vars, Launch, LaunchRaces, LaunchFails, Open, ReplayLaunch
<1>4. raced' \in BOOLEAN
  BY DEF Next, vars, Shape, Register, Insert, Launch, LaunchRaces, LaunchFails, Open,
     ReplayLaunch,
         Moving
<1>5. phase' \in {"record", "replay", "gone"}
  BY DEF Next, vars, Shape, Register, Insert, Launch, LaunchRaces, LaunchFails, Open,
     ReplayLaunch
<1> QED
  BY <1>1, <1>2, <1>3, <1>4, <1>5 DEF Shape

(* More kernels and more keys in the table keep what Stems says.           *)
LEMMA StemsGrow ==
  ASSUME NEW s, NEW p, NEW ks, NEW js, NEW have, NEW has, ks \subseteq js, have \subseteq has,
         Stems(s, p, ks, have)
  PROVE  Stems(s, p, js, has)
  BY DEF Stems

(* A code object is registered.                                            *)
LEMMA EnteredRegister ==
  ASSUME Shape, Entered, NEW o \in Objects, Register(o),
         objects' \in Seq(Objects), Len(objects') = Len(objects) + 1, Len(objects) \in Nat,
         \A i \in 1 .. Len(objects) : objects'[i] = objects[i],
         objects'[Len(objects) + 1] = o,
         Registered' = Registered \cup {o[j] : j \in DOMAIN o}
  PROVE  Entered'
<1>1. todo = << >> /\ todo' = Insertions(o) /\ table' = table
  BY DEF Register
<1>2. TodoStems'
  <2>1. \A p \in 1 .. Len(todo') : Stems(todo', p, {o[j] : j \in DOMAIN o}, {})
    BY <1>1, InsertionsStem
  <2>2. {o[j] : j \in DOMAIN o} \subseteq Registered' /\ {} \subseteq DOMAIN table'
    OBVIOUS
  <2>3. ASSUME NEW p \in 1 .. Len(todo')
        PROVE  Stems(todo', p, Registered', DOMAIN table')
    <3>1. PICK t, ks, js, has :
              /\ t = todo' /\ ks = {o[j] : j \in DOMAIN o} /\ js = Registered'
              /\ has = DOMAIN table'
      OBVIOUS
    <3>2. Stems(t, p, ks, {})
      BY <2>1, <3>1
    <3>3. Stems(t, p, js, has)
      BY <2>2, <3>1, <3>2, StemsGrow
    <3> QED
      BY <3>1, <3>3
  <2> QED
    BY <2>3 DEF TodoStems
<1>3. TableStems'
  BY <1>1 DEF Entered, TableStems
<1>4. NamesEntered'
  <2> SUFFICES ASSUME NEW i \in DOMAIN objects', NEW j \in DOMAIN objects'[i]
               PROVE  \/ objects'[i][j].name \in DOMAIN table'
                      \/ /\ i = Len(objects')
                         /\ \E q \in 1 .. Len(todo') : todo'[q].key = objects'[i][j].name
    BY DEF NamesEntered
  <2>1. i \in 1 .. Len(objects) + 1 /\ DOMAIN objects = 1 .. Len(objects)
    BY DEF Shape
  <2>2. CASE i = Len(objects) + 1
    BY <2>2, <1>1, InsertionsStem
  <2>3. CASE i \in 1 .. Len(objects)
    <3>1. objects'[i] = objects[i] /\ i \in DOMAIN objects
      BY <2>1, <2>3
    <3>2. Len(todo) = 0
      BY <1>1
    <3>3. objects[i][j].name \in DOMAIN table
      BY <3>1, <3>2 DEF Entered, NamesEntered
    <3> QED
      BY <1>1, <3>1, <3>3
  <2> QED
    BY <2>1, <2>2, <2>3
<1> QED
  BY <1>2, <1>3, <1>4 DEF Entered

(* An entry is made.                                                       *)
LEMMA EnteredInsert ==
  ASSUME Shape, Entered, Insert
  PROVE  Entered'
<1>1. /\ todo # << >> /\ todo' = Tail(todo) /\ objects' = objects
      /\ table' = [key \in DOMAIN table \cup {todo[1].key} |->
                      IF key = todo[1].key THEN todo[1].entry ELSE table[key]]
  BY DEF Insert, Shape
<1>2. Registered' = Registered
  BY <1>1 DEF Registered
<1>3. /\ Len(todo) \in Nat /\ Len(todo) # 0 /\ Len(todo') = Len(todo) - 1
      /\ \A p \in 1 .. Len(todo') : p + 1 \in 1 .. Len(todo) /\ todo'[p] = todo[p + 1]
  BY <1>1 DEF Shape
<1>4. \A q \in 1 .. Len(todo) : q # 1 => q - 1 \in 1 .. Len(todo') /\ todo'[q - 1] = todo[q]
  <2> TAKE q \in 1 .. Len(todo)
  <2> HAVE q # 1
  <2>1. q - 1 \in 1 .. Len(todo') /\ (q - 1) + 1 = q
    BY <1>3
  <2> QED
    BY <2>1, <1>3
<1>5. todo[1] \in Items /\ 1 \in 1 .. Len(todo)
  BY <1>3 DEF Shape
<1>6. todo[1] = [key |-> todo[1].key, entry |-> todo[1].entry]
  BY <1>5 DEF Items
<1>7. /\ DOMAIN table' = DOMAIN table \cup {todo[1].key}
      /\ table'[todo[1].key] = todo[1].entry
      /\ \A key \in DOMAIN table : key # todo[1].key => table'[key] = table[key]
  BY <1>1
<1>8. TodoStems'
  <2> SUFFICES ASSUME NEW p \in 1 .. Len(todo')
               PROVE  Stems(todo', p, Registered', DOMAIN table')
    BY DEF TodoStems
  <2>1. Stems(todo, p + 1, Registered, DOMAIN table)
    BY <1>3 DEF Entered, TodoStems
  <2>a. PICK l \in Registered : \E i \in 1 .. Len(l.args) + 1 :
            /\ todo[p + 1] = KernelEntries(l)[i]
            /\ i = Len(l.args) + 1 =>
                  \A j \in 1 .. Len(l.args) :
                      \/ Key(l.name, j - 1) \in DOMAIN table
                      \/ \E q \in 1 .. (p + 1) - 1 : todo[q].key = Key(l.name, j - 1)
    BY <2>1 DEF Stems
  <2>2. PICK i \in 1 .. Len(l.args) + 1 :
            /\ todo[p + 1] = KernelEntries(l)[i]
            /\ i = Len(l.args) + 1 =>
                  \A j \in 1 .. Len(l.args) :
                      \/ Key(l.name, j - 1) \in DOMAIN table
                      \/ \E q \in 1 .. (p + 1) - 1 : todo[q].key = Key(l.name, j - 1)
    BY <2>a
  <2>3. todo'[p] = KernelEntries(l)[i]
    BY <2>2, <1>3
  <2>4. ASSUME i = Len(l.args) + 1, NEW j \in 1 .. Len(l.args)
        PROVE  \/ Key(l.name, j - 1) \in DOMAIN table'
               \/ \E q \in 1 .. p - 1 : todo'[q].key = Key(l.name, j - 1)
    <3>1. CASE Key(l.name, j - 1) \in DOMAIN table
      BY <3>1, <1>7
    <3>2. ASSUME NEW q \in 1 .. (p + 1) - 1, todo[q].key = Key(l.name, j - 1)
          PROVE  \/ Key(l.name, j - 1) \in DOMAIN table'
                 \/ \E r \in 1 .. p - 1 : todo'[r].key = Key(l.name, j - 1)
      <4>1. CASE q = 1
        BY <4>1, <3>2, <1>7
      <4>2. CASE q # 1
        <5>1. q \in 1 .. Len(todo) /\ q - 1 \in 1 .. p - 1
          BY <1>3, <3>2, <4>2
        <5>2. todo'[q - 1] = todo[q]
          BY <5>1, <4>2, <1>4
        <5> QED
          BY <5>1, <5>2, <3>2
      <4> QED
        BY <4>1, <4>2
    <3> QED
      BY <2>2, <2>4, <3>1, <3>2
  <2> QED
    BY <2>3, <2>4, <1>2 DEF Stems
<1>9. TableStems'
  <2> SUFFICES ASSUME NEW key \in DOMAIN table'
               PROVE  \E l \in Registered : \E i \in 1 .. Len(l.args) + 1 :
                         /\ KernelEntries(l)[i] = [key |-> key, entry |-> table'[key]]
                         /\ i = Len(l.args) + 1 =>
                               \A j \in 1 .. Len(l.args) : Key(l.name, j - 1) \in DOMAIN table'
    BY <1>2 DEF TableStems
  <2>1. CASE key = todo[1].key
    <3>1. Stems(todo, 1, Registered, DOMAIN table)
      BY <1>5 DEF Entered, TodoStems
    <3>2. 1 .. 1 - 1 = {}
      OBVIOUS
    <3>3. \E l \in Registered : \E i \in 1 .. Len(l.args) + 1 :
              /\ todo[1] = KernelEntries(l)[i]
              /\ i = Len(l.args) + 1 =>
                    \A j \in 1 .. Len(l.args) : Key(l.name, j - 1) \in DOMAIN table
      BY <3>1, <3>2 DEF Stems
    <3>4. todo[1] = [key |-> key, entry |-> table'[key]]
      BY <1>6, <1>7, <2>1
    <3> QED
      BY <3>3, <3>4, <1>7
  <2>2. CASE key # todo[1].key
    <3>1. key \in DOMAIN table /\ table'[key] = table[key]
      BY <1>7, <2>2
    <3> QED
      BY <3>1, <1>7 DEF Entered, TableStems
  <2> QED
    BY <2>1, <2>2
<1>10. NamesEntered'
  <2> SUFFICES ASSUME NEW i \in DOMAIN objects, NEW j \in DOMAIN objects[i]
               PROVE  \/ objects[i][j].name \in DOMAIN table'
                      \/ /\ i = Len(objects)
                         /\ \E q \in 1 .. Len(todo') : todo'[q].key = objects[i][j].name
    BY <1>1 DEF NamesEntered
  <2>1. CASE objects[i][j].name \in DOMAIN table
    BY <2>1, <1>7
  <2>2. ASSUME i = Len(objects), NEW q \in 1 .. Len(todo), todo[q].key = objects[i][j].name
        PROVE  \/ objects[i][j].name \in DOMAIN table'
               \/ \E r \in 1 .. Len(todo') : todo'[r].key = objects[i][j].name
    BY <2>2, <1>4, <1>7
  <2> QED
    BY <2>1, <2>2 DEF Entered, NamesEntered
<1> QED
  BY <1>8, <1>9, <1>10 DEF Entered

(* Every step keeps what the table and the insertions left are.            *)
LEMMA EnteredStep ==
  ASSUME Shape, Entered, [Next]_vars
  PROVE  Entered'
<1>1. CASE UNCHANGED objects /\ UNCHANGED <<todo, table>>
  <2>1. Registered' = Registered
    BY <1>1 DEF Registered
  <2>2. TodoStems'
    <3>1. \A p \in 1 .. Len(todo) : Stems(todo, p, Registered, DOMAIN table)
      BY DEF Entered, TodoStems
    <3> QED
      BY <1>1, <2>1, <3>1 DEF TodoStems
  <2>3. TableStems'
    BY <1>1, <2>1 DEF Entered, TableStems
  <2>4. NamesEntered'
    BY <1>1 DEF Entered, NamesEntered
  <2> QED
    BY <2>2, <2>3, <2>4 DEF Entered
<1>2. CASE Insert
  BY <1>2, EnteredInsert
<1>3. ASSUME NEW o \in Objects, Register(o)
      PROVE  Entered'
  <2>1. objects' # objects
    <3>1. objects' = Append(objects, o) /\ objects \in Seq(Objects)
      BY <1>3 DEF Register, Shape
    <3>2. Len(objects') = Len(objects) + 1 /\ Len(objects) \in Nat
      BY <3>1
    <3> QED
      BY <3>2
  <2>2. PICK r \in Objects :
               /\ Register(r)
               /\ objects' \in Seq(Objects) /\ Len(objects') = Len(objects) + 1
               /\ Len(objects) \in Nat
               /\ \A i \in 1 .. Len(objects) : objects'[i] = objects[i]
               /\ objects'[Len(objects) + 1] = r
               /\ Registered' = Registered \cup {r[j] : j \in DOMAIN r}
    BY <2>1, ObjectsStep
  <2> QED
    BY <2>2, EnteredRegister
<1> QED
  BY <1>1, <1>2, <1>3 DEF Next, vars, Launch, LaunchRaces, LaunchFails, Open, ReplayLaunch

(* A kernel the program launches is registered, and its name entered.      *)
LEMMA Launchable ==
  ASSUME Shape, Entered, NEW k, Program(k)
  PROVE  k \in Registered /\ k.name \in DOMAIN table
<1>1. PICK i \in DOMAIN objects : /\ k \in {objects[i][j] : j \in DOMAIN objects[i]}
                                  /\ i = Len(objects) => todo = << >>
  BY DEF Program
<1>2. PICK j \in DOMAIN objects[i] : k = objects[i][j]
  BY <1>1
<1>3. k \in Registered
  BY <1>1 DEF Registered
<1>4. Len(<< >>) = 0
  OBVIOUS
<1> QED
  BY <1>1, <1>2, <1>3, <1>4 DEF Entered, NamesEntered

(* Looking up the arguments of a kernel finds them all, and none more than *)
(* the program has.                                                        *)
LEMMA NoFailure ==
  ASSUME Shape, Entered, Orderly, NEW k \in Kernels
  PROVE  ~ LaunchFails(k)
<1> SUFFICES ASSUME LaunchFails(k) PROVE FALSE
  OBVIOUS
<1>1. k \in Registered /\ k.name \in DOMAIN table
  BY Launchable DEF LaunchFails
<1>2. PICK i \in 0 .. num_args(k.name) - 1 :
          Key(k.name, i) \in DOMAIN table =>
              (i >= Cardinality(Visible(k)) /\ Entry(k.name, i).size # 0)
  BY DEF LaunchFails
<1>3. PICK l \in Registered : l.name = k.name /\ Reads(l, k.name)
  BY <1>1, TableReads DEF Entered, Orderly
<1>4. l \in Kernels
  BY RegisteredAre DEF Shape
<1>5. Len(l.args) \in Nat /\ DOMAIN l.args = 1 .. Len(l.args)
  BY <1>4, KernelIs
<1>6. i + 1 \in 1 .. Len(l.args) /\ (i + 1) - 1 = i
  BY <1>2, <1>3, <1>5 DEF Reads
<1>7. Key(k.name, i) \in DOMAIN table /\ Entry(k.name, i) = ArgEntry(l, i + 1)
  BY <1>3, <1>6 DEF Reads
<1>8. l.args[i + 1] # "hidden"
  BY <1>2, <1>7 DEF ArgEntry
<1>9. i + 1 \in Visible(k)
  BY <1>1, <1>3, <1>5, <1>6, <1>8 DEF Orderly, SameVisible, Visible
<1>10. PICK c \in Nat : Visible(k) = 1 .. c /\ Cardinality(Visible(k)) = c
  <2>1. PICK c \in Nat : Visible(k) = 1 .. c
    BY VisibleFirst
  <2>2. Cardinality(1 .. c) = IF 1 > c THEN 0 ELSE c - 1 + 1
    BY FS_Interval
  <2>3. Cardinality(1 .. c) = c
    BY <2>2
  <2> QED
    BY <2>1, <2>3
<1> QED
  BY <1>2, <1>6, <1>7, <1>9, <1>10

(* The row of a launch by an orderly program is right.                     *)
LEMMA LaunchPacks ==
  ASSUME Shape, Entered, Orderly, NEW k \in Kernels, NEW args \in Arguments(k), Program(k)
  PROVE  /\ Contains(arg_data(k.name, args, k.args), k, args)
         /\ Cardinality(Beyond(k.name, args, k.args)) <= 8
         /\ Beyond(k.name, args, k.args) # {} =>
               \E l \in Registered : l.name = k.name /\ Visible(l) # DOMAIN l.args
<1>1. k \in Registered /\ k.name \in DOMAIN table
  BY Launchable
<1>2. PICK l \in Registered : l.name = k.name /\ Reads(l, k.name)
  BY <1>1, TableReads DEF Entered, Orderly
<1>3. Registered \subseteq Kernels
  BY RegisteredAre DEF Shape
<1>4. Visible(k) = Visible(l) /\ \A i \in Visible(k) : k.args[i] = l.args[i]
  BY <1>1, <1>2 DEF Orderly, SameVisible
<1>5. \A i \in Visible(k) : i \in DOMAIN k.args \cap DOMAIN l.args
  BY <1>4 DEF Visible
<1>6. \A i \in Visible(k) : Offset(k)[i] = Offset(l)[i]
  BY <1>1, <1>2, <1>3, <1>5, ArgumentsAgree DEF Orderly
<1> QED
  BY <1>2, <1>3, <1>4, <1>6, Packing

(* What a step does to the rows.                                           *)
LEMMA RowsStep ==
  ASSUME Shape, Entered, RowsTrue, [Next]_vars
  PROVE  \/ UNCHANGED rows
         \/ \E k \in Kernels : \E args \in Arguments(k) :
               /\ Program(k) /\ UNCHANGED <<objects, launched, phase>>
               /\ Len(rows) \in Nat /\ Len(rows') = Len(rows) + 1
               /\ \E X : rows' \in Seq(X)
               /\ \A n \in 1 .. Len(rows) : rows'[n] = rows[n]
               /\ LET r == rows'[Len(rows) + 1]
                  IN  /\ r.kernel = k /\ r.kernel_name = k.name /\ r.args = args
                      /\ \/ raced'
                         \/ /\ r.argdata = arg_data(k.name, args, k.args)
                            /\ r.beyond = Beyond(k.name, args, k.args)
<1>1. ASSUME NEW k \in Kernels, NEW args \in Arguments(k), Launch(k, args)
      PROVE  /\ Program(k) /\ UNCHANGED <<objects, launched, phase>>
             /\ Len(rows) \in Nat /\ Len(rows') = Len(rows) + 1
             /\ \E X : rows' \in Seq(X)
             /\ \A n \in 1 .. Len(rows) : rows'[n] = rows[n]
             /\ LET r == rows'[Len(rows) + 1]
                IN  /\ r.kernel = k /\ r.kernel_name = k.name /\ r.args = args
                    /\ r.argdata = arg_data(k.name, args, k.args)
                    /\ r.beyond = Beyond(k.name, args, k.args)
  <2>1. PICK r : r = Row(k, args, arg_data(k.name, args, k.args), Beyond(k.name, args, k.args))
    OBVIOUS
  <2>2. rows' = Append(rows, r) /\ Program(k) /\ UNCHANGED <<objects, launched, phase>>
    BY <1>1, <2>1 DEF Launch
  <2>3. \E X : rows \in Seq(X)
    BY DEF RowsTrue
  <2>4. /\ \E X : rows' \in Seq(X)
        /\ Len(rows) \in Nat /\ Len(rows') = Len(rows) + 1
        /\ \A n \in 1 .. Len(rows) : rows'[n] = rows[n]
        /\ rows'[Len(rows) + 1] = r
    <3>1. PICK s : s = rows
      OBVIOUS
    <3>2. \E X : s \in Seq(X)
      BY <2>3, <3>1
    <3>3. /\ \E X : Append(s, r) \in Seq(X)
          /\ Len(s) \in Nat /\ Len(Append(s, r)) = Len(s) + 1
          /\ \A n \in 1 .. Len(s) : Append(s, r)[n] = s[n]
          /\ Append(s, r)[Len(s) + 1] = r
      BY <3>2, AppendAny
    <3>4. Append(s, r) = rows'
      BY <2>2, <3>1
    <3> QED
      BY <3>1, <3>3, <3>4
  <2>5. /\ r.kernel = k /\ r.kernel_name = k.name /\ r.args = args
        /\ r.argdata = arg_data(k.name, args, k.args) /\ r.beyond = Beyond(k.name, args, k.args)
    BY <2>1 DEF Row
  <2> QED
    BY <2>2, <2>4, <2>5
<1>2. ASSUME NEW k \in Kernels, NEW args \in Arguments(k), LaunchRaces(k, args)
      PROVE  \/ UNCHANGED rows
             \/ /\ Program(k) /\ UNCHANGED <<objects, launched, phase>>
                /\ Len(rows) \in Nat /\ Len(rows') = Len(rows) + 1
                /\ \E X : rows' \in Seq(X)
                /\ \A n \in 1 .. Len(rows) : rows'[n] = rows[n]
                /\ LET r == rows'[Len(rows) + 1]
                   IN  r.kernel = k /\ r.kernel_name = k.name /\ r.args = args /\ raced'
  <2> SUFFICES ASSUME ~ UNCHANGED rows
               PROVE  /\ Program(k) /\ UNCHANGED <<objects, launched, phase>>
                      /\ Len(rows) \in Nat /\ Len(rows') = Len(rows) + 1
                      /\ \E X : rows' \in Seq(X)
                      /\ \A n \in 1 .. Len(rows) : rows'[n] = rows[n]
                      /\ LET r == rows'[Len(rows) + 1]
                         IN  r.kernel = k /\ r.kernel_name = k.name /\ r.args = args /\ raced'
    OBVIOUS
  <2>1. PICK r : r = Row(k, args, << >>, {})
    OBVIOUS
  <2>2. rows' = Append(rows, r) /\ Program(k) /\ UNCHANGED <<objects, launched, phase>> /\ raced'
    BY <1>2, <2>1 DEF LaunchRaces
  <2>3. \E X : rows \in Seq(X)
    BY DEF RowsTrue
  <2>4. /\ \E X : rows' \in Seq(X)
        /\ Len(rows) \in Nat /\ Len(rows') = Len(rows) + 1
        /\ \A n \in 1 .. Len(rows) : rows'[n] = rows[n]
        /\ rows'[Len(rows) + 1] = r
    <3>1. PICK s : s = rows
      OBVIOUS
    <3>2. \E X : s \in Seq(X)
      BY <2>3, <3>1
    <3>3. /\ \E X : Append(s, r) \in Seq(X)
          /\ Len(s) \in Nat /\ Len(Append(s, r)) = Len(s) + 1
          /\ \A n \in 1 .. Len(s) : Append(s, r)[n] = s[n]
          /\ Append(s, r)[Len(s) + 1] = r
      BY <3>2, AppendAny
    <3>4. Append(s, r) = rows'
      BY <2>2, <3>1
    <3> QED
      BY <3>1, <3>3, <3>4
  <2>5. r.kernel = k /\ r.kernel_name = k.name /\ r.args = args
    BY <2>1 DEF Row
  <2> QED
    BY <2>2, <2>4, <2>5
<1>3. \/ UNCHANGED rows
      \/ \E k \in Kernels : \E args \in Arguments(k) : Launch(k, args) \/ LaunchRaces(k, args)
  BY DEF Next, vars, Register, Insert, LaunchFails, Open, ReplayLaunch
<1> QED
  BY <1>1, <1>2, <1>3

(* Every step keeps the rows right.                                        *)
LEMMA RowsTrueStep ==
  ASSUME Shape, Entered, RowsTrue, [Next]_vars
  PROVE  RowsTrue'
<1>1. Registered \subseteq Registered'
  BY OrderlyBack
<1>2. CASE UNCHANGED rows
  BY <1>1, <1>2 DEF RowsTrue
<1>3. ASSUME NEW k \in Kernels, NEW args \in Arguments(k),
             Program(k), Len(rows) \in Nat, Len(rows') = Len(rows) + 1,
             \E X : rows' \in Seq(X), \A n \in 1 .. Len(rows) : rows'[n] = rows[n],
             LET r == rows'[Len(rows) + 1]
             IN  r.kernel = k /\ r.kernel_name = k.name /\ r.args = args
      PROVE  RowsTrue'
  <2>1. k \in Registered'
    BY <1>1, <1>3, Launchable
  <2>2. ASSUME NEW n \in 1 .. Len(rows')
        PROVE  /\ rows'[n].kernel \in Registered'
               /\ rows'[n].kernel_name = rows'[n].kernel.name
               /\ rows'[n].args \in Arguments(rows'[n].kernel)
    <3>1. CASE n = Len(rows) + 1
      BY <1>3, <2>1, <3>1
    <3>2. CASE n \in 1 .. Len(rows)
      <4>1. rows'[n] = rows[n]
        BY <1>3, <3>2
      <4>2. /\ rows[n].kernel \in Registered
            /\ rows[n].kernel_name = rows[n].kernel.name
            /\ rows[n].args \in Arguments(rows[n].kernel)
        BY <3>2 DEF RowsTrue
      <4> QED
        BY <1>1, <4>1, <4>2
    <3> QED
      BY <1>3, <3>1, <3>2
  <2> QED
    BY <1>3, <2>2 DEF RowsTrue
<1> QED
  BY <1>2, <1>3, RowsStep

(* ... and packed right.                                                   *)
LEMMA RowsPackedStep ==
  ASSUME Shape, Entered, RowsTrue, RowsPacked, [Next]_vars
  PROVE  RowsPacked'
<1>1. Registered \subseteq Registered' /\ (Orderly' => Orderly)
  BY OrderlyBack
<1> SUFFICES ASSUME Orderly', NEW n \in 1 .. Len(rows')
             PROVE  Contains(rows'[n].argdata, rows'[n].kernel, rows'[n].args) /\ Spared(rows[n])'
  BY DEF RowsPacked
<1>2. ASSUME n \in 1 .. Len(rows), rows'[n] = rows[n]
      PROVE  Contains(rows'[n].argdata, rows'[n].kernel, rows'[n].args) /\ Spared(rows[n])'
  <2>1. Contains(rows[n].argdata, rows[n].kernel, rows[n].args) /\ Spared(rows[n])
    BY <1>1, <1>2 DEF RowsPacked
  <2>2. Spared(rows[n])'
    BY <1>1, <1>2, <2>1 DEF Spared
  <2> QED
    BY <1>2, <2>1, <2>2
<1>3. CASE UNCHANGED rows
  BY <1>2, <1>3
<1>4. ASSUME NEW k \in Kernels, NEW args \in Arguments(k),
             Program(k), Len(rows) \in Nat, Len(rows') = Len(rows) + 1,
             \A m \in 1 .. Len(rows) : rows'[m] = rows[m],
             LET r == rows'[Len(rows) + 1]
             IN  /\ r.kernel = k /\ r.kernel_name = k.name /\ r.args = args
                 /\ \/ raced'
                    \/ /\ r.argdata = arg_data(k.name, args, k.args)
                       /\ r.beyond = Beyond(k.name, args, k.args)
      PROVE  Contains(rows'[n].argdata, rows'[n].kernel, rows'[n].args) /\ Spared(rows[n])'
  <2>1. CASE n \in 1 .. Len(rows)
    BY <1>2, <1>4, <2>1
  <2>2. CASE n = Len(rows) + 1
    <3>1. /\ rows'[n].kernel = k /\ rows'[n].kernel_name = k.name /\ rows'[n].args = args
          /\ rows'[n].argdata = arg_data(k.name, args, k.args)
          /\ rows'[n].beyond = Beyond(k.name, args, k.args)
      BY <1>4, <2>2 DEF Orderly
    <3>2. /\ Contains(arg_data(k.name, args, k.args), k, args)
          /\ Cardinality(Beyond(k.name, args, k.args)) <= 8
          /\ Beyond(k.name, args, k.args) # {} =>
               \E l \in Registered : l.name = k.name /\ Visible(l) # DOMAIN l.args
      BY <1>1, <1>4, LaunchPacks
    <3>3. Spared(rows[n])'
      BY <1>1, <3>1, <3>2 DEF Spared
    <3> QED
      BY <3>1, <3>2, <3>3
  <2> QED
    BY <1>4, <2>1, <2>2
<1> QED
  BY <1>3, <1>4, RowsStep

(* A replayed launch is given what the program passed.                     *)
LEMMA ReplayedLaunch ==
  ASSUME Shape, RowsTrue, RowsPacked, Replayed, ReplayLaunch
  PROVE  Replayed'
<1> DEFINE m == Len(launched) + 1
           r == rows[m]
           t == Translated(r.kernel_name, r.argdata)
<1>1. /\ phase = "replay" /\ Len(launched) < Len(rows)
      /\ launched' = Append(launched, t)
      /\ UNCHANGED <<objects, rows, raced, phase>>
  BY DEF ReplayLaunch
<1>2. Registered' = Registered /\ Orderly' = Orderly
  BY <1>1 DEF Registered, Orderly, KeysDistinct, SameVisible
<1>3. /\ \E X : launched' \in Seq(X)
      /\ Len(launched) \in Nat /\ Len(launched') = Len(launched) + 1
      /\ \A n \in 1 .. Len(launched) : launched'[n] = launched[n]
      /\ launched'[Len(launched) + 1] = t
  <2>1. PICK s, e : s = launched /\ e = t
    OBVIOUS
  <2>2. \E X : s \in Seq(X)
    BY <2>1 DEF Replayed
  <2>3. /\ \E X : Append(s, e) \in Seq(X)
        /\ Len(s) \in Nat /\ Len(Append(s, e)) = Len(s) + 1
        /\ \A n \in 1 .. Len(s) : Append(s, e)[n] = s[n]
        /\ Append(s, e)[Len(s) + 1] = e
    BY <2>2, AppendAny
  <2>4. Append(s, e) = launched'
    BY <1>1, <2>1
  <2> HIDE DEF t
  <2> QED
    BY <2>1, <2>3, <2>4
<1>4. Len(rows) \in Nat
  <2>1. PICK X : rows \in Seq(X)
    BY DEF RowsTrue
  <2> QED
    BY <2>1
<1>5. m \in 1 .. Len(rows)
  BY <1>1, <1>3, <1>4
<1> HIDE DEF m
<1>6. ASSUME Orderly, NEW k \in Registered, k.name = rows[m].kernel_name
      PROVE  Contains(t, k, Replaced(k, rows[m].args))
  <2>1. PICK j : j = r.kernel
    OBVIOUS
  <2>2. /\ j \in Registered /\ r.kernel_name = j.name /\ r.args \in Arguments(j)
        /\ Contains(r.argdata, j, r.args)
    BY <1>5, <1>6, <2>1 DEF RowsTrue, RowsPacked
  <2>3. Contains(Translated(j.name, r.argdata), j, Replaced(j, r.args))
    BY <1>6, <2>2, Translating DEF Orderly
  <2>4. Contains(t, j, Replaced(j, r.args))
    BY <2>2, <2>3
  <2>5. Replaced(j, r.args) = Replaced(k, r.args)
    <3>1. Visible(j) = Visible(k)
      BY <1>6, <2>2 DEF Orderly, SameVisible
    <3> QED
      BY <3>1 DEF Replaced
  <2>6. Contains(t, j, Replaced(k, r.args))
    BY <2>4, <2>5
  <2> HIDE DEF t
  <2> QED
    BY <1>6, <2>2, <2>6, ContainsSame DEF Orderly
<1> HIDE DEF t
<1>7. ASSUME Orderly, NEW n \in 1 .. Len(launched'), NEW k \in Registered,
             k.name = rows[n].kernel_name
      PROVE  Contains(launched'[n], k, Replaced(k, rows[n].args))
  <2>1. CASE n \in 1 .. Len(launched)
    <3>1. launched'[n] = launched[n]
      BY <1>3, <2>1
    <3>2. Contains(launched[n], k, Replaced(k, rows[n].args))
      BY <1>7, <2>1 DEF Replayed
    <3> QED
      BY <3>1, <3>2
  <2>2. CASE n = m
    <3>1. launched'[n] = t
      BY <1>3, <2>2 DEF m
    <3> QED
      BY <1>6, <1>7, <2>2, <3>1
  <2> QED
    BY <1>3, <2>1, <2>2 DEF m
<1> QED
  BY <1>1, <1>2, <1>3, <1>4, <1>7 DEF Replayed

(* Every step keeps what has been replayed right.                          *)
LEMMA ReplayedStep ==
  ASSUME Shape, Entered, RowsTrue, RowsPacked, Replayed, [Next]_vars
  PROVE  Replayed'
<1>1. CASE ReplayLaunch
  BY <1>1, ReplayedLaunch
<1>2. CASE UNCHANGED launched
  <2>1. PICK X : launched \in Seq(X)
    BY DEF Replayed
  <2>2. CASE launched = << >>
    <3>1. Len(<< >>) = 0 /\ << >> \in Seq({})
      OBVIOUS
    <3>2. Len(rows') \in Nat
      <4>1. PICK Y : rows' \in Seq(Y)
        BY RowsTrueStep DEF RowsTrue
      <4> QED
        BY <4>1
    <3>3. Len(launched') = 0 /\ launched' \in Seq({})
      BY <1>2, <2>2, <3>1
    <3>4. 1 .. Len(launched') = {}
      BY <3>3
    <3> QED
      BY <1>2, <2>2, <3>2, <3>3, <3>4 DEF Replayed
  <2>3. CASE launched # << >>
    <3>1. phase = "replay"
      BY <2>3 DEF Replayed
    <3>2. UNCHANGED <<objects, rows, phase>> /\ (raced => raced')
      BY <1>2, <3>1 DEF Next, vars, Register, Insert, Launch, LaunchRaces, LaunchFails,
         Program,
                        Open, ReplayLaunch
    <3>3. Registered' = Registered /\ (Orderly' => Orderly)
      BY <3>2 DEF Registered, Orderly, KeysDistinct, SameVisible
    <3>4. /\ \E Y : launched \in Seq(Y)
          /\ Len(launched) <= Len(rows)
          /\ Orderly => \A n \in 1 .. Len(launched) : \A k \in Registered :
                k.name = rows[n].kernel_name => Contains(launched[n], k, Replaced(k, rows[n].args))
      BY DEF Replayed
    <3> QED
      BY <1>2, <3>1, <3>2, <3>3, <3>4 DEF Replayed
  <2> QED
    BY <2>2, <2>3
<1> QED
  BY <1>1, <1>2 DEF Next, vars, Register, Insert, Launch, LaunchRaces, LaunchFails, Open

(* The recorded program goes on.                                           *)
LEMMA GoesOnStep ==
  ASSUME Shape, Entered, LaunchGoesOn, [Next]_vars
  PROVE  LaunchGoesOn'
<1> SUFFICES ASSUME Orderly' PROVE phase' # "gone"
  BY DEF LaunchGoesOn
<1>1. Orderly /\ phase # "gone"
  BY OrderlyBack DEF LaunchGoesOn
<1>2. \A k \in Kernels : ~ LaunchFails(k)
  BY <1>1, NoFailure
<1>3. \A k \in Kernels : \A args \in Arguments(k) : ~ LaunchRaces(k, args)
  BY DEF LaunchRaces, Orderly
<1> QED
  BY <1>1, <1>2, <1>3 DEF Next, vars, Register, Insert, Launch, Open, ReplayLaunch

(* At the start nothing is registered.                                     *)
LEMMA InitInv ==
  ASSUME Init
  PROVE  IInv
<1>1. /\ objects = << >> /\ todo = << >> /\ rows = << >> /\ launched = << >> /\ table = << >>
      /\ phase = "record" /\ raced = FALSE
  BY DEF Init
<1>2. /\ Len(<< >>) = 0 /\ DOMAIN << >> = {} /\ \A X : << >> \in Seq(X)
      /\ 1 .. 0 = {}
  OBVIOUS
<1>3. Shape
  BY <1>1, <1>2 DEF Shape
<1>4. Entered
  BY <1>1, <1>2 DEF Entered, TodoStems, TableStems, NamesEntered
<1>5. RowsTrue /\ RowsPacked
  BY <1>1, <1>2 DEF RowsTrue, RowsPacked
<1>6. Replayed
  BY <1>1, <1>2 DEF Replayed
<1>7. LaunchGoesOn
  BY <1>1 DEF LaunchGoesOn
<1> QED
  BY <1>3, <1>4, <1>5, <1>6, <1>7 DEF IInv

(* IInv is inductive.                                                      *)
THEOREM InvHolds == Spec => []IInv
<1>1. Init => IInv
  BY InitInv
<1>2. IInv /\ [Next]_vars => IInv'
  BY ShapeStep, EnteredStep, RowsTrueStep, RowsPackedStep, ReplayedStep, GoesOnStep DEF IInv
<1> QED
  BY <1>1, <1>2, PTL DEF Spec

-----------------------------------------------------------------------------
(* The properties *)

(* The variables keep their types: no code object is registered twice, and *)
(* the table has only sizes and offsets.                                   *)
THEOREM TypeCorrect == Spec => []TypeOK
<1>1. ASSUME IInv PROVE TypeOK
  <2>1. Shape /\ Entered /\ RowsTrue /\ Replayed
    BY <1>1 DEF IInv
  <2>2. \A i \in DOMAIN objects : objects[i] \in Objects \ {objects[j] : j \in 1 .. i - 1}
    BY <2>1 DEF Shape
  <2>3. \A i \in DOMAIN todo : todo[i].entry \in [size : Nat, offset : Nat]
    <3>1. todo \in Seq(Items)
      BY <2>1 DEF Shape
    <3>2. \A i \in DOMAIN todo : todo[i] \in Items
      BY <3>1
    <3> QED
      BY <3>2 DEF Items
  <2>4. ASSUME NEW key \in DOMAIN table
        PROVE  table[key] \in [size : Nat, offset : Nat]
    <3>1. PICK l \in Registered : \E i \in 1 .. Len(l.args) + 1 :
              KernelEntries(l)[i] = [key |-> key, entry |-> table[key]]
      BY <2>1 DEF Entered, TableStems
    <3>2. PICK i \in 1 .. Len(l.args) + 1 :
              KernelEntries(l)[i] = [key |-> key, entry |-> table[key]]
      BY <3>1
    <3>3. l \in Kernels
      BY <2>1, RegisteredAre DEF Shape
    <3>4. KernelEntries(l)[i] \in Items
      <4>1. KernelEntries(l) \in Seq(Items) /\ Len(KernelEntries(l)) = Len(l.args) + 1
        BY <3>3, EntriesAre
      <4> QED
        BY <4>1
    <3> QED
      BY <3>2, <3>4 DEF Items
  <2>5. \A i \in DOMAIN rows : rows[i].kernel \in Registered
    <3>1. PICK X : rows \in Seq(X)
      BY <2>1 DEF RowsTrue
    <3>2. DOMAIN rows = 1 .. Len(rows)
      BY <3>1
    <3> QED
      BY <2>1, <3>2 DEF RowsTrue
  <2> QED
    BY <2>1, <2>2, <2>3, <2>4, <2>5 DEF TypeOK, Shape, Replayed
<1> QED
  BY <1>1, InvHolds, PTL

(* Every argument of a replayed kernel stands where the function that is   *)
(* launched looks for it, addresses replaced by those replay has for them. *)
THEOREM ArgumentsArriveHolds == Spec => []ArgumentsArrive
<1>1. ASSUME IInv PROVE ArgumentsArrive
  <2>1. Shape /\ RowsTrue /\ Replayed
    BY <1>1 DEF IInv
  <2> SUFFICES ASSUME Orderly, NEW n \in DOMAIN launched,
                      NEW k, k = Function(rows[n].kernel_name),
                      NEW i \in Visible(k), NEW b \in 0 .. sizeof[k.args[i]] - 1
               PROVE  /\ Offset(k)[i] + b \in DOMAIN launched[n]
                      /\ launched[n][Offset(k)[i] + b] =
                            <<IF rows[n].args[i] \in Allocated THEN Moved[rows[n].args[i]]
                              ELSE rows[n].args[i], b>>
    BY DEF ArgumentsArrive
  <2>2. n \in 1 .. Len(launched) /\ n \in 1 .. Len(rows)
    <3>1. PICK X, Y : launched \in Seq(X) /\ rows \in Seq(Y)
      BY <2>1 DEF RowsTrue, Replayed
    <3>2. DOMAIN launched = 1 .. Len(launched) /\ Len(launched) \in Nat /\ Len(rows) \in Nat
      BY <3>1
    <3> QED
      BY <2>1, <3>2 DEF Replayed
  <2>3. PICK j : j = rows[n].kernel
    OBVIOUS
  <2>4. j \in Registered /\ rows[n].kernel_name = j.name
    BY <2>1, <2>2, <2>3 DEF RowsTrue
  <2>5. k \in Registered /\ k.name = rows[n].kernel_name
    BY <2>1, <2>4, FoundByName DEF Shape
  <2>6. Contains(launched[n], k, Replaced(k, rows[n].args))
    BY <2>1, <2>2, <2>5 DEF Replayed
  <2> QED
    BY <2>6 DEF Contains, Replaced
<1> QED
  BY <1>1, InvHolds, PTL

(* Packing writes nothing behind the buffer but for one hidden argument.   *)
THEOREM WithinBufferHolds == Spec => []WithinBuffer
<1>1. ASSUME IInv PROVE WithinBuffer
  <2>1. RowsTrue /\ RowsPacked
    BY <1>1 DEF IInv
  <2>2. PICK X : rows \in Seq(X)
    BY <2>1 DEF RowsTrue
  <2>3. DOMAIN rows = 1 .. Len(rows)
    BY <2>2
  <2> QED
    BY <2>1, <2>3 DEF RowsPacked, Spared, WithinBuffer
<1> QED
  BY <1>1, InvHolds, PTL

(* Looking up the arguments does not bring the recorded program down.      *)
THEOREM LaunchGoesOnHolds == Spec => []LaunchGoesOn
<1>1. IInv => LaunchGoesOn
  BY DEF IInv
<1> QED
  BY <1>1, InvHolds, PTL

=============================================================================
