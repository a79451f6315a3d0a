--------------------------- MODULE IndexRemapProofs ---------------------------
(***************************************************************************)
(* Proofs about IndexRemap, for unsigned numbers of up to 32 bits and any  *)
(* SIZE and cache line: that rounding up gives the least power of two, and *)
(* that the exclusive ors permute the places and part neighbours.          *)
(*                                                                         *)
(* An unsigned is told by its bits (WordIs, UnsignedBits), so C's          *)
(* operations are what they do place by place (OrIs and the lemmas after   *)
(* it).  Smear follows the ones of a number through a step of              *)
(* round_up_to_power_of_2; RemapIs compares remap_index with Exchanged     *)
(* bit for bit, and the facts about digits in ModArithmetic do the rest.   *)
(***************************************************************************)
EXTENDS IndexRemap

-----------------------------------------------------------------------------
(* Powers of two *)

(* There is a function that is as PowerOf2 says.                           *)
LEMMA PowerIs ==
  PowerOf2 = [k \in 0 .. 32 |-> IF k = 0 THEN 1 ELSE 2 * PowerOf2[k - 1]]
<1> DEFINE Step(f, k) == IF k = 0 THEN 1 ELSE 2 * f[k - 1]
           Good == {n \in Nat : \E f : f = [k \in 0 .. n |-> Step(f, k)]}
<1>1. 0 \in Good
  <2> DEFINE f == [k \in 0 .. 0 |-> 1]
  <2>1. f = [k \in 0 .. 0 |-> Step(f, k)]
    OBVIOUS
  <2> HIDE DEF f
  <2> QED
    BY <2>1
<1>2. ASSUME NEW n \in Nat, n \in Good
      PROVE  n + 1 \in Good
  <2>1. PICK f : f = [k \in 0 .. n |-> Step(f, k)]
    BY <1>2
  <2> DEFINE g == [k \in 0 .. n + 1 |-> IF k <= n THEN f[k] ELSE 2 * f[n]]
  <2>2. \A k \in 0 .. n : g[k] = f[k]
    OBVIOUS
  <2>3. g[n + 1] = 2 * f[n]
    OBVIOUS
  <2>4. g = [k \in 0 .. n + 1 |-> g[k]]
    OBVIOUS
  <2> HIDE DEF g
  <2>5. ASSUME NEW k \in 0 .. n + 1
        PROVE  g[k] = Step(g, k)
    <3>1. CASE k = 0
      BY <3>1, <2>1, <2>2
    <3>2. CASE k # 0 /\ k <= n
      <4>1. f[k] = Step(f, k) /\ k - 1 \in 0 .. n
        BY <2>1, <3>2
      <4> QED
        BY <4>1, <3>2, <2>2
    <3>3. CASE k = n + 1
      <4>1. k - 1 = n /\ k # 0
        BY <3>3
      <4>2. g[n] = f[n]
        BY <2>2
      <4> QED
        BY <4>1, <4>2, <2>3, <3>3
    <3> QED
      BY <3>1, <3>2, <3>3
  <2>6. g = [k \in 0 .. n + 1 |-> Step(g, k)]
    BY <2>4, <2>5
  <2>7. \E h : h = [k \in 0 .. n + 1 |-> Step(h, k)]
    <3> HIDE DEF Step
    <3> QED
      BY <2>6
  <2>8. n + 1 \in Nat
    OBVIOUS
  <2> HIDE DEF Step
  <2> QED
    BY <2>7, <2>8
<1>3. 32 \in Good
  <2> HIDE DEF Good
  <2> QED
    BY <1>1, <1>2, NatSet
<1>4. \E f : f = [k \in 0 .. 32 |-> Step(f, k)]
  BY <1>3
<1> QED
  BY <1>4 DEF PowerOf2

(* What is proved of 0, and of k + 1 when of k, is proved of all of them.  *)
LEMMA UpTo32 ==
  ASSUME NEW S, 0 \in S, \A k \in 0 .. 31 : k \in S => k + 1 \in S
  PROVE  \A k \in 0 .. 32 : k \in S
<1> DEFINE T == {n \in Nat : n <= 32 => n \in S}
<1>1. 0 \in T
  OBVIOUS
<1>2. \A n \in Nat : n \in T => n + 1 \in T
  OBVIOUS
<1>3. Nat \subseteq T
  <2> HIDE DEF T
  <2> QED
    BY <1>1, <1>2, NatSet
<1> QED
  BY <1>3

LEMMA Powers ==
  /\ PowerOf2[0] = 1
  /\ \A k \in 0 .. 31 : PowerOf2[k + 1] = 2 * PowerOf2[k]
  /\ \A k \in 0 .. 32 : PowerOf2[k] \in Nat \ {0}
<1>1. PowerOf2[0] = 1
  BY PowerIs
<1>2. ASSUME NEW k \in 0 .. 31
      PROVE  PowerOf2[k + 1] = 2 * PowerOf2[k]
  <2>1. k + 1 \in 0 .. 32 /\ k + 1 # 0 /\ (k + 1) - 1 = k
    OBVIOUS
  <2> QED
    BY <2>1, PowerIs
<1> DEFINE S == {k \in 0 .. 32 : PowerOf2[k] \in Nat \ {0}}
<1>3. 0 \in S
  BY <1>1
<1>4. ASSUME NEW k \in 0 .. 31, k \in S
      PROVE  k + 1 \in S
  BY <1>2, <1>4
<1>5. \A k \in 0 .. 32 : k \in S
  <2> HIDE DEF S
  <2> QED
    BY <1>3, <1>4, UpTo32
<1> QED
  BY <1>1, <1>2, <1>5

(* To shift twice is to shift by the sum.                                  *)
LEMMA PowerSum ==
  ASSUME NEW a \in 0 .. 32, NEW b \in 0 .. 32, a + b <= 32
  PROVE  PowerOf2[a + b] = PowerOf2[a] * PowerOf2[b]
<1> DEFINE S == {k \in 0 .. 32 : a + k <= 32 => PowerOf2[a + k] = PowerOf2[a] * PowerOf2[k]}
<1>1. 0 \in S
  <2>1. PICK p \in Nat : p = PowerOf2[a]
    BY Powers
  <2>2. a + 0 = a /\ p * 1 = p
    OBVIOUS
  <2> QED
    BY <2>1, <2>2, Powers
<1>2. ASSUME NEW k \in 0 .. 31, k \in S
      PROVE  k + 1 \in S
  <2> SUFFICES ASSUME a + (k + 1) <= 32
               PROVE  PowerOf2[a + (k + 1)] = PowerOf2[a] * PowerOf2[k + 1]
    OBVIOUS
  <2>1. a + k \in 0 .. 31 /\ a + (k + 1) = (a + k) + 1
    OBVIOUS
  <2>2. PICK p \in Nat, q \in Nat : p = PowerOf2[a] /\ q = PowerOf2[k]
    <3>1. PowerOf2[a] \in Nat /\ PowerOf2[k] \in Nat
      <4>1. a \in 0 .. 32 /\ k \in 0 .. 32
        OBVIOUS
      <4> HIDE DEF S
      <4> QED
        BY <4>1, Powers
    <3> QED
      BY <3>1
  <2>3. PowerOf2[a + k] = p * q
    BY <1>2, <2>1, <2>2
  <2>4. PowerOf2[(a + k) + 1] = 2 * (p * q)
    BY <2>1, <2>3, Powers
  <2>5. PowerOf2[k + 1] = 2 * q
    BY <2>2, Powers
  <2>6. 2 * (p * q) = p * (2 * q)
    OBVIOUS
  <2> QED
    BY <2>1, <2>2, <2>4, <2>5, <2>6
<1>3. \A k \in 0 .. 32 : k \in S
  <2> HIDE DEF S
  <2> QED
    BY <1>1, <1>2, UpTo32
<1> QED
  BY <1>3

(* The power below b, with what is left of b.                              *)
LEMMA PowerSplit ==
  ASSUME NEW a \in 0 .. 32, NEW b \in 0 .. 32, a <= b
  PROVE  PowerOf2[b] = PowerOf2[a] * PowerOf2[b - a]
<1>1. b - a \in 0 .. 32 /\ a + (b - a) = b
  OBVIOUS
<1>2. PowerOf2[a + (b - a)] = PowerOf2[a] * PowerOf2[b - a]
  BY <1>1, PowerSum
<1> QED
  BY <1>1, <1>2

(* Powers of two grow, by a factor of two at least.                        *)
LEMMA PowerOrder ==
  ASSUME NEW a \in 0 .. 32, NEW b \in 0 .. 32, a <= b
  PROVE  /\ PowerOf2[a] <= PowerOf2[b]
         /\ a < b => 2 * PowerOf2[a] <= PowerOf2[b]
<1>1. b - a \in 0 .. 32
  OBVIOUS
<1>2. PowerOf2[b] = PowerOf2[a] * PowerOf2[b - a]
  BY PowerSplit
<1>3. PICK p \in Nat \ {0}, q \in Nat \ {0} : p = PowerOf2[a] /\ q = PowerOf2[b - a]
  BY <1>1, Powers
<1>4. p <= p * q
  <2>1. PICK r \in Nat : q = r + 1
    <3>1. q - 1 \in Nat /\ q = (q - 1) + 1
      OBVIOUS
    <3> QED
      BY <3>1
  <2>2. p * r + p * 1 = p * q /\ p * r \in Nat
    BY <2>1, Distr
  <2> QED
    BY <2>2
<1>5. ASSUME a < b PROVE 2 * p <= p * q
  <2>1. b - a - 1 \in 0 .. 31 /\ (b - a - 1) + 1 = b - a
    BY <1>5
  <2>2. PICK r \in Nat \ {0} : r = PowerOf2[b - a - 1] /\ q = 2 * r
    BY <1>3, <2>1, Powers
  <2>3. PICK s \in Nat : r = s + 1
    <3>1. r - 1 \in Nat /\ r = (r - 1) + 1
      OBVIOUS
    <3> QED
      BY <3>1
  <2>4. p * s + p * 1 = p * r /\ p * s \in Nat
    BY <2>3, Distr
  <2>5. p * q = 2 * (p * r)
    BY <2>2
  <2> QED
    BY <2>4, <2>5
<1> QED
  BY <1>2, <1>3, <1>4, <1>5

-----------------------------------------------------------------------------
(* The bits of a number *)

(* A bit is 0 or 1, and 0 from where the powers exceed the number.         *)
LEMMA BitIs ==
  ASSUME NEW x \in Nat, NEW i \in 0 .. 32
  PROVE  /\ Bit(x, i) \in {0, 1}
         /\ x < PowerOf2[i] => Bit(x, i) = 0
<1>1. PICK p \in Nat \ {0} : p = PowerOf2[i]
  BY Powers
<1>2. x \div p \in Nat
  BY <1>1
<1>3. Bit(x, i) = (x \div p) % 2
  BY <1>1 DEF Bit
<1>4. ASSUME x < p PROVE x \div p = 0
  <2>1. x \in 0 .. p - 1
    BY <1>4
  <2>2. (p * 0 + x) \div p = 0
    BY <2>1, Digits
  <2>3. p * 0 + x = x
    OBVIOUS
  <2> QED
    BY <2>2, <2>3
<1>5. \A m \in Nat : m % 2 \in {0, 1}
  OBVIOUS
<1>6. x < PowerOf2[i] => (x \div p) % 2 = 0
  BY <1>1, <1>4
<1> QED
  BY <1>1, <1>2, <1>3, <1>5, <1>6

(* y is q with a lowest digit of b bits.                                   *)
Written(y, b, q, low) ==
    /\ y \in Nat /\ q \in Nat /\ low \in 0 .. PowerOf2[b] - 1
    /\ y = PowerOf2[b] * q + low

(* The bits of a number written with a digit of b bits.                    *)
LEMMA BitsOfDigits ==
  ASSUME NEW b \in 0 .. 32, NEW q, NEW low, NEW y, Written(y, b, q, low), NEW i \in 0 .. 32
  PROVE  /\ i < b => Bit(y, i) = Bit(low, i)
         /\ i >= b => Bit(y, i) = Bit(q, i - b)
<1>1. PICK B \in Nat \ {0} : B = PowerOf2[b]
  BY Powers
<1>2. PICK I \in Nat \ {0} : I = PowerOf2[i]
  BY Powers
<1>3. y \in Nat /\ q \in Nat /\ low \in 0 .. B - 1 /\ y = B * q + low
  BY <1>1 DEF Written
<1>q. q \in Nat /\ low \in 0 .. B - 1
  BY <1>3
<1>4. ASSUME i < b PROVE Bit(y, i) = Bit(low, i)
  <2>1. b - i \in 0 .. 32 /\ b - i - 1 \in 0 .. 31 /\ (b - i - 1) + 1 = b - i /\ i <= b
    BY <1>4
  <2>2. PICK h \in Nat : h = PowerOf2[b - i - 1] /\ PowerOf2[b - i] = 2 * h
    BY <2>1, Powers
  <2>3. B = I * (2 * h)
    BY <1>1, <1>2, <2>1, <2>2, PowerSplit
  <2>4. PICK c \in Nat, r \in 0 .. I - 1 : low = I * c + r /\ c = low \div I
    <3>1. low \in Nat /\ low \div I \in Nat
      BY <1>q
    <3> QED
      BY <3>1, DivMod
  <2>5. PICK d \in Nat : d = h * q
    BY <1>q, <2>2
  <2>6. B * q = I * (2 * d)
    <3>1. (I * (2 * h)) * q = I * ((2 * h) * q)
      BY <1>q, <2>2, Assoc
    <3>2. (2 * h) * q = 2 * (h * q)
      BY <1>q, <2>2, Assoc
    <3> QED
      BY <2>3, <2>5, <3>1, <3>2
  <2>7. PICK e \in Nat : e = 2 * d + c
    BY <2>4, <2>5
  <2>8. I * (2 * d) + I * c = I * e
    <3>1. PICK g \in Nat : g = 2 * d
      BY <2>5
    <3>2. I * g + I * c = I * (g + c)
      <4>1. I \in Int /\ g \in Int /\ c \in Int
        OBVIOUS
      <4> QED
        BY <4>1, Distr
    <3> QED
      BY <2>7, <3>1, <3>2
  <2>9. y = I * e + r
    <3>1. I * (2 * d) \in Nat /\ I * c \in Nat
      BY <2>4, <2>5
    <3> QED
      BY <1>3, <2>4, <2>6, <2>8, <3>1
  <2>10. y \div I = e
    BY <2>4, <2>7, <2>9, Digits
  <2>11. e % 2 = c % 2
    BY <2>4, <2>5, <2>7
  <2> QED
    BY <1>2, <2>4, <2>10, <2>11 DEF Bit
<1>5. ASSUME i >= b PROVE Bit(y, i) = Bit(q, i - b)
  <2>1. i - b \in 0 .. 32 /\ b <= i
    BY <1>5
  <2>2. PICK J \in Nat \ {0} : J = PowerOf2[i - b] /\ I = B * J
    BY <1>1, <1>2, <2>1, Powers, PowerSplit
  <2>3. PICK c \in Nat, r \in 0 .. J - 1 : q = J * c + r /\ c = q \div J
    <3>1. q \div J \in Nat
      BY <1>q, <2>2
    <3> QED
      BY <1>q, <2>2, <3>1, DivMod
  <2>4. B * q = B * (J * c) + B * r /\ B * (J * c) = I * c
    <3>1. J * c \in Nat
      BY <2>2, <2>3
    <3>2. (B * J) * c = B * (J * c)
      BY <2>2, <2>3, Assoc
    <3> QED
      BY <2>2, <2>3, <3>1, <3>2, Distr
  <2>5. PICK s \in Nat : s = B * r + low
    <3>1. B * r \in Nat /\ low \in Nat
      BY <1>q, <2>3
    <3> QED
      BY <3>1
  <2>6. s < I
    <3>1. PICK t \in Nat : J = r + 1 + t
      <4>1. J - r - 1 \in Nat /\ J = r + 1 + (J - r - 1)
        BY <2>3
      <4> QED
        BY <4>1
    <3>2. B * J = B * (r + 1) + B * t /\ B * (r + 1) = B * r + B * 1
      BY <2>3, <3>1, Distr
    <3>3. B * t \in Nat /\ B * r \in Nat /\ B * 1 = B
      BY <2>3, <3>1
    <3>4. low \in Nat /\ low < B
      BY <1>q
    <3>5. PICK u \in Nat, v \in Nat : u = B * t /\ v = B * r
      BY <3>3
    <3>6. I = v + B + u /\ s = v + low
      BY <2>2, <2>5, <3>2, <3>3, <3>5
    <3> QED
      BY <3>4, <3>5, <3>6
  <2>7. y = I * c + s
    <3>1. I * c \in Nat /\ B * r \in Nat
      BY <2>3
    <3> QED
      BY <1>3, <2>4, <2>5, <3>1
  <2>8. y \div I = c
    <3>1. s \in 0 .. I - 1
      BY <2>5, <2>6
    <3> QED
      BY <2>3, <2>7, <3>1, Digits
  <2> QED
    BY <1>2, <2>2, <2>3, <2>8 DEF Bit
<1> QED
  BY <1>1, <1>3, <1>4, <1>5

(* Halving shifts the bits by one place.                                   *)
LEMMA BitsOfHalf ==
  ASSUME NEW x \in Nat, NEW i \in 0 .. 31
  PROVE  /\ x \div 2 \in Nat /\ x = 2 * (x \div 2) + Bit(x, 0)
         /\ Bit(x, i + 1) = Bit(x \div 2, i)
<1>1. PowerOf2[0] = 1 /\ PowerOf2[1] = 2
  <2>1. PowerOf2[0 + 1] = 2 * PowerOf2[0]
    BY Powers
  <2> QED
    BY <2>1, Powers
<1>2. x \div 1 = x
  OBVIOUS
<1>3. PICK h \in Nat, l \in 0 .. 1 : x = 2 * h + l /\ h = x \div 2 /\ l = x % 2
  OBVIOUS
<1>4. Bit(x, 0) = l
  BY <1>1, <1>2, <1>3 DEF Bit
<1>5. i + 1 \in 0 .. 32 /\ i + 1 >= 1 /\ (i + 1) - 1 = i
  OBVIOUS
<1>6. Bit(x, i + 1) = Bit(h, i)
  <2>1. Written(x, 1, h, l) /\ 1 \in 0 .. 32
    BY <1>1, <1>3 DEF Written
  <2>2. Bit(x, i + 1) = Bit(h, (i + 1) - 1)
    BY <1>5, <2>1, BitsOfDigits
  <2> QED
    BY <1>1, <1>5, <2>2
<1> QED
  BY <1>3, <1>4, <1>6

(* Numbers with the same bits are the same.                                *)
LEMMA SameBits ==
  ASSUME NEW w \in 0 .. 32, NEW x \in 0 .. PowerOf2[w] - 1, NEW y \in 0 .. PowerOf2[w] - 1,
         \A i \in 0 .. w - 1 : Bit(x, i) = Bit(y, i)
  PROVE  x = y
<1> DEFINE S == {k \in 0 .. 32 : \A a, c \in 0 .. PowerOf2[k] - 1 :
                    (\A i \in 0 .. k - 1 : Bit(a, i) = Bit(c, i)) => a = c}
<1>1. 0 \in S
  BY Powers
<1>2. ASSUME NEW k \in 0 .. 31, k \in S
      PROVE  k + 1 \in S
  <2>1. PICK p \in Nat \ {0} : p = PowerOf2[k] /\ PowerOf2[k + 1] = 2 * p
    BY Powers
  <2>2. ASSUME NEW a \in 0 .. PowerOf2[k + 1] - 1, NEW c \in 0 .. PowerOf2[k + 1] - 1,
               \A i \in 0 .. (k + 1) - 1 : Bit(a, i) = Bit(c, i)
        PROVE  a = c
    <3>1. a \in Nat /\ a < 2 * p /\ c \in Nat /\ c < 2 * p
      BY <2>1
    <3>2. a \div 2 \in 0 .. p - 1 /\ c \div 2 \in 0 .. p - 1
      BY <3>1
    <3>3. ASSUME NEW i \in 0 .. k - 1
          PROVE  Bit(a \div 2, i) = Bit(c \div 2, i)
      <4>1. i \in 0 .. 31 /\ i + 1 \in 0 .. (k + 1) - 1
        OBVIOUS
      <4> QED
        BY <2>2, <3>1, <4>1, BitsOfHalf
    <3>4. a \div 2 = c \div 2
      BY <1>2, <2>1, <3>2, <3>3
    <3>5. Bit(a, 0) = Bit(c, 0)
      <4>1. 0 \in 0 .. (k + 1) - 1
        OBVIOUS
      <4> QED
        BY <2>2, <4>1
    <3>6. a = 2 * (a \div 2) + Bit(a, 0) /\ c = 2 * (c \div 2) + Bit(c, 0)
      <4>1. 0 \in 0 .. 31
        OBVIOUS
      <4> QED
        BY <3>1, <4>1, BitsOfHalf
    <3> QED
      BY <3>4, <3>5, <3>6
  <2>3. k + 1 \in 0 .. 32
    OBVIOUS
  <2> QED
    BY <2>2, <2>3
<1>3. \A k \in 0 .. 32 : k \in S
  <2> HIDE DEF S
  <2> QED
    BY <1>1, <1>2, UpTo32
<1> QED
  BY <1>3

(* The bits of the mask of m ones.                                         *)
LEMMA BitsOfMask ==
  ASSUME NEW m \in 0 .. 32, NEW i \in 0 .. 32
  PROVE  /\ PowerOf2[m] - 1 \in Nat
         /\ Bit(PowerOf2[m] - 1, i) = IF i < m THEN 1 ELSE 0
<1>1. PICK M \in Nat \ {0} : M = PowerOf2[m]
  BY Powers
<1>2. PICK I \in Nat \ {0} : I = PowerOf2[i]
  BY Powers
<1>3. M - 1 \in Nat
  OBVIOUS
<1>4. ASSUME i < m PROVE Bit(M - 1, i) = 1
  <2>1. m - i - 1 \in 0 .. 31 /\ (m - i - 1) + 1 = m - i /\ i <= m
    BY <1>4
  <2>2. PICK h \in Nat \ {0} : h = PowerOf2[m - i - 1] /\ PowerOf2[m - i] = 2 * h
    BY <2>1, Powers
  <2>3. M = I * (2 * h)
    BY <1>1, <1>2, <2>1, <2>2, PowerSplit
  <2>4. PICK e \in Nat : e = 2 * (h - 1) + 1 /\ e + 1 = 2 * h /\ e % 2 = 1
    BY <2>2
  <2>5. I * e + I * 1 = I * (2 * h)
    BY <2>4, Distr
  <2>6. PICK r \in 0 .. I - 1 : r = I - 1
    OBVIOUS
  <2>7. M - 1 = I * e + r
    <3>1. I * e \in Nat
      OBVIOUS
    <3> QED
      BY <2>3, <2>5, <2>6, <3>1
  <2>8. (M - 1) \div I = e
    BY <2>7, Digits
  <2> QED
    BY <1>2, <2>4, <2>8 DEF Bit
<1>5. ASSUME ~(i < m) PROVE Bit(M - 1, i) = 0
  <2>1. M <= I
    <3>1. m <= i
      BY <1>5
    <3> QED
      BY <1>1, <1>2, <3>1, PowerOrder
  <2>2. M - 1 < PowerOf2[i]
    BY <1>2, <2>1
  <2> QED
    BY <1>3, <2>2, BitIs
<1> QED
  BY <1>1, <1>3, <1>4, <1>5

-----------------------------------------------------------------------------
(* The number with given bits *)

(* The value of the bits of a word from place i on.                        *)
Above(bit) ==
    CHOOSE f : f = [i \in 0 .. Width |-> IF i = Width THEN 0 ELSE bit[i] + 2 * f[i + 1]]

(* There is a function that is as Above says.                              *)
LEMMA AboveIs ==
  ASSUME NEW bit
  PROVE  Above(bit) = [i \in 0 .. Width |->
             IF i = Width THEN 0 ELSE bit[i] + 2 * Above(bit)[i + 1]]
<1>w. Width \in 1 .. 32
  BY RemapBounds
<1> DEFINE Step(f, i) == IF i = Width THEN 0 ELSE bit[i] + 2 * f[i + 1]
           Good == {n \in 0 .. 32 : n <= Width =>
                       \E f : f = [i \in Width - n .. Width |-> Step(f, i)]}
<1>1. 0 \in Good
  <2> DEFINE f == [i \in Width - 0 .. Width |-> 0]
  <2>1. \A i \in Width - 0 .. Width : i = Width
    BY <1>w
  <2>2. f = [i \in Width - 0 .. Width |-> Step(f, i)]
    BY <2>1
  <2> HIDE DEF f
  <2>3. \E g : g = [i \in Width - 0 .. Width |-> Step(g, i)]
    <3> HIDE DEF Step
    <3> QED
      BY <2>2
  <2>4. 0 \in 0 .. 32
    OBVIOUS
  <2> HIDE DEF Step
  <2> QED
    BY <2>3, <2>4
<1>2. ASSUME NEW n \in 0 .. 31, n \in Good
      PROVE  n + 1 \in Good
  <2>1. n + 1 \in 0 .. 32
    OBVIOUS
  <2>2. ASSUME n + 1 <= Width
        PROVE  \E f : f = [i \in Width - (n + 1) .. Width |-> Step(f, i)]
    <3>0. n <= Width
      BY <1>w, <2>2
    <3>1. \E f : f = [i \in Width - n .. Width |-> Step(f, i)]
      <4> HIDE DEF Step
      <4> QED
        BY <1>2, <3>0
    <3>2. PICK f : f = [i \in Width - n .. Width |-> Step(f, i)]
      <4> HIDE DEF Step
      <4> QED
        BY <3>1
    <3> DEFINE k == Width - (n + 1)
               g == [i \in k .. Width |->
                        IF i > k THEN f[i] ELSE bit[k] + 2 * f[Width - n]]
    <3>3. k \in Nat /\ k + 1 = Width - n /\ k < Width
      BY <1>w, <2>2
    <3>4. \A i \in Width - n .. Width : g[i] = f[i]
      BY <1>w, <3>3
    <3>5. g[k] = bit[k] + 2 * f[Width - n]
      BY <1>w, <3>3
    <3>6. g = [i \in k .. Width |-> g[i]]
      OBVIOUS
    <3> HIDE DEF g, k
    <3>7. ASSUME NEW i \in k .. Width
          PROVE  g[i] = Step(g, i)
      <4>1. CASE i = k
        <5>1. Width - n \in Width - n .. Width
          BY <1>w
        <5>2. g[k + 1] = f[Width - n]
          BY <3>3, <3>4, <5>1
        <5> QED
          BY <4>1, <1>w, <3>3, <3>5, <5>2
      <4>2. CASE i # k
        <5>1. i \in Width - n .. Width
          BY <4>2, <3>3, <1>w
        <5>2. f[i] = Step(f, i)
          BY <3>2, <5>1
        <5>3. i # Width => i + 1 \in Width - n .. Width
          BY <5>1, <1>w
        <5> QED
          BY <5>1, <5>2, <5>3, <3>4
      <4> QED
        BY <4>1, <4>2
    <3>8. g = [i \in k .. Width |-> Step(g, i)]
      <4> HIDE DEF Step
      <4> QED
        BY <3>6, <3>7
    <3> HIDE DEF Step
    <3> QED
      BY <3>8 DEF k
  <2> HIDE DEF Step
  <2> QED
    BY <2>1, <2>2
<1>3. Width \in Good
  <2> HIDE DEF Good
  <2>1. \A k \in 0 .. 32 : k \in Good
    BY <1>1, <1>2, UpTo32
  <2> QED
    BY <1>w, <2>1
<1>4. \E f : f = [i \in 0 .. Width |-> Step(f, i)]
  <2> HIDE DEF Step
  <2>1. Width - Width = 0 /\ Width <= Width
    BY <1>w
  <2> QED
    BY <1>3, <2>1
<1> QED
  BY <1>4 DEF Above

Unsigned == 0 .. MaxUnsigned - 1

(* Word makes the unsigned that has the given bits.                        *)
LEMMA WordIs ==
  ASSUME NEW bit \in [Places -> {0, 1}]
  PROVE  /\ Word(bit) \in Unsigned
         /\ \A i \in Places : Bit(Word(bit), i) = bit[i]
<1>w. Width \in 1 .. 32
  BY RemapBounds
<1> DEFINE S == {n \in 0 .. 32 : n <= Width =>
                    /\ Above(bit)[Width - n] \in 0 .. PowerOf2[n] - 1
                    /\ \A j \in 0 .. n - 1 : Bit(Above(bit)[Width - n], j) = bit[(Width - n) + j]}
<1>1. 0 \in S
  <2>1. Above(bit)[Width - 0] = 0
    <3>1. Width - 0 = Width /\ Width \in 0 .. Width
      BY <1>w
    <3> QED
      BY <3>1, AboveIs
  <2> QED
    BY <2>1, Powers
<1>2. ASSUME NEW n \in 0 .. 31, n \in S
      PROVE  n + 1 \in S
  <2>1. n + 1 \in 0 .. 32
    OBVIOUS
  <2>2. ASSUME n + 1 <= Width
        PROVE  /\ Above(bit)[Width - (n + 1)] \in 0 .. PowerOf2[n + 1] - 1
               /\ \A j \in 0 .. (n + 1) - 1 :
                     Bit(Above(bit)[Width - (n + 1)], j) = bit[(Width - (n + 1)) + j]
    <3>1. PICK k \in Places : k = Width - (n + 1) /\ k + 1 = Width - n
      BY <1>w, <2>2 DEF Places
    <3>2. PICK a \in 0 .. PowerOf2[n] - 1 : a = Above(bit)[Width - n]
      BY <1>2, <1>w, <2>2
    <3>3. \A j \in 0 .. n - 1 : Bit(a, j) = bit[(k + 1) + j]
      BY <1>2, <1>w, <2>2, <3>1, <3>2
    <3>4. PICK l \in 0 .. 1 : l = bit[k]
      OBVIOUS
    <3>5. PICK p \in Nat \ {0} : p = PowerOf2[n] /\ PowerOf2[n + 1] = 2 * p
      BY Powers
    <3>6. PICK c \in Nat : c = l + 2 * a /\ c = Above(bit)[k]
      <4>1. k \in 0 .. Width /\ k # Width
        BY <1>w DEF Places
      <4>2. Above(bit)[k] = bit[k] + 2 * Above(bit)[k + 1]
        BY <4>1, AboveIs
      <4> QED
        BY <4>2, <3>1, <3>2, <3>4, <3>5
    <3>7. c \in 0 .. PowerOf2[n + 1] - 1
      BY <3>2, <3>4, <3>5, <3>6
    <3>8. c \div 2 = a /\ Bit(c, 0) = l
      <4>1. a \in Nat
        BY <3>2, <3>5
      <4>2. 0 \in 0 .. 31
        OBVIOUS
      <4>3. c \div 2 \in Nat /\ c = 2 * (c \div 2) + Bit(c, 0)
        BY <4>2, <3>6, BitsOfHalf
      <4>4. PICK h \in Nat, d \in 0 .. 1 : h = c \div 2 /\ d = Bit(c, 0)
        <5>1. 0 \in 0 .. 32
          OBVIOUS
        <5> QED
          BY <5>1, <4>3, <3>6, BitIs
      <4>5. c = 2 * h + d
        BY <4>3, <4>4
      <4>6. h = a /\ d = l
        BY <4>1, <4>5, <3>4, <3>6
      <4> QED
        BY <4>4, <4>6
    <3>9. ASSUME NEW j \in 0 .. (n + 1) - 1
          PROVE  Bit(c, j) = bit[k + j]
      <4>1. CASE j = 0
        <5>1. k + 0 = k
          BY DEF Places
        <5> QED
          BY <4>1, <5>1, <3>8, <3>4
      <4>2. CASE j # 0
        <5>1. PICK i \in 0 .. n - 1 : i + 1 = j /\ i \in 0 .. 31
          <6>1. j - 1 \in 0 .. n - 1 /\ (j - 1) + 1 = j /\ j - 1 \in 0 .. 31
            BY <4>2
          <6> QED
            BY <6>1
        <5>2. Bit(c, i + 1) = Bit(a, i)
          BY <5>1, <3>6, <3>8, BitsOfHalf
        <5>3. (k + 1) + i = k + j
          BY <5>1 DEF Places
        <5> QED
          BY <5>1, <5>2, <5>3, <3>3
      <4> QED
        BY <4>1, <4>2
    <3> QED
      BY <3>1, <3>6, <3>7, <3>9
  <2> QED
    BY <2>1, <2>2
<1>3. Width \in S
  <2> HIDE DEF S
  <2>1. \A k \in 0 .. 32 : k \in S
    BY <1>1, <1>2, UpTo32
  <2> QED
    BY <1>w, <2>1
<1>4. Word(bit) = Above(bit)[0]
  BY DEF Word, Above
<1>5. Width - Width = 0 /\ Width <= Width /\ \A j \in Places : 0 + j = j
  BY <1>w DEF Places
<1>6. /\ Above(bit)[0] \in 0 .. PowerOf2[Width] - 1
      /\ \A j \in 0 .. Width - 1 : Bit(Above(bit)[0], j) = bit[0 + j]
  BY <1>3, <1>5
<1> QED
  BY <1>4, <1>5, <1>6 DEF Places, Unsigned, MaxUnsigned

-----------------------------------------------------------------------------
(* The operations *)

(* The bits of an unsigned are in its places, and tell it.                 *)
LEMMA UnsignedBits ==
  ASSUME NEW x \in Unsigned
  PROVE  /\ x \in Nat
         /\ \A i \in 0 .. 32 : Bit(x, i) \in {0, 1} /\ (i >= Width => Bit(x, i) = 0)
         /\ \A i \in Places : i \in 0 .. 31 /\ Bit(x, i) \in {0, 1}
         /\ \A y \in Unsigned : (\A i \in Places : Bit(x, i) = Bit(y, i)) => x = y
<1>w. Width \in 1 .. 32 /\ MaxUnsigned \in Nat \ {0}
  BY RemapBounds, Powers DEF MaxUnsigned
<1>1. x \in Nat /\ x < MaxUnsigned
  BY <1>w DEF Unsigned
<1>2. ASSUME NEW i \in 0 .. 32
      PROVE  Bit(x, i) \in {0, 1} /\ (i >= Width => Bit(x, i) = 0)
  <2>1. Bit(x, i) \in {0, 1}
    BY <1>1, BitIs
  <2>2. ASSUME i >= Width PROVE Bit(x, i) = 0
    <3>1. PowerOf2[Width] <= PowerOf2[i]
      <4>1. Width \in 0 .. 32 /\ Width <= i
        BY <1>w, <2>2
      <4> QED
        BY <4>1, PowerOrder
    <3>2. x < PowerOf2[i]
      BY <1>w, <1>1, <3>1, Powers DEF MaxUnsigned
    <3> QED
      BY <1>1, <3>2, BitIs
  <2> QED
    BY <2>1, <2>2
<1>3. ASSUME NEW i \in Places
      PROVE  i \in 0 .. 31 /\ i \in 0 .. 32
  BY <1>w DEF Places
<1>4. ASSUME NEW y \in Unsigned, \A i \in Places : Bit(x, i) = Bit(y, i)
      PROVE  x = y
  <2>1. Width \in 0 .. 32
    BY <1>w
  <2>2. x \in 0 .. PowerOf2[Width] - 1 /\ y \in 0 .. PowerOf2[Width] - 1
    BY DEF Unsigned, MaxUnsigned
  <2>3. \A i \in 0 .. Width - 1 : Bit(x, i) = Bit(y, i)
    BY <1>4 DEF Places
  <2> QED
    BY <2>1, <2>2, <2>3, SameBits
<1> QED
  BY <1>1, <1>2, <1>3, <1>4

(* Or, place by place.                                                     *)
LEMMA OrIs ==
  ASSUME NEW x \in Unsigned, NEW y \in Unsigned
  PROVE  /\ Or(x, y) \in Unsigned
         /\ \A i \in Places : Bit(Or(x, y), i) = IF Bit(x, i) = 1 THEN 1 ELSE Bit(y, i)
<1> DEFINE bit == [i \in Places |-> IF Bit(x, i) = 1 THEN 1 ELSE Bit(y, i)]
<1>1. bit \in [Places -> {0, 1}]
  BY UnsignedBits
<1>2. Or(x, y) = Word(bit)
  BY DEF Or
<1>3. \A i \in Places : bit[i] = IF Bit(x, i) = 1 THEN 1 ELSE Bit(y, i)
  OBVIOUS
<1> HIDE DEF bit
<1> QED
  BY <1>1, <1>2, <1>3, WordIs

(* And, place by place.                                                    *)
LEMMA AndIs ==
  ASSUME NEW x \in Unsigned, NEW y \in Unsigned
  PROVE  /\ And(x, y) \in Unsigned
         /\ \A i \in Places : Bit(And(x, y), i) = Bit(x, i) * Bit(y, i)
<1> DEFINE bit == [i \in Places |-> Bit(x, i) * Bit(y, i)]
<1>1. bit \in [Places -> {0, 1}]
  <2>1. \A i \in Places : Bit(x, i) \in {0, 1} /\ Bit(y, i) \in {0, 1}
    BY UnsignedBits
  <2> QED
    BY <2>1
<1>2. And(x, y) = Word(bit)
  BY DEF And
<1>3. \A i \in Places : bit[i] = Bit(x, i) * Bit(y, i)
  OBVIOUS
<1> HIDE DEF bit
<1> QED
  BY <1>1, <1>2, <1>3, WordIs

(* Exclusive or, place by place.                                           *)
LEMMA XorIs ==
  ASSUME NEW x \in Unsigned, NEW y \in Unsigned
  PROVE  /\ Xor(x, y) \in Unsigned
         /\ \A i \in Places : Bit(Xor(x, y), i) = (Bit(x, i) + Bit(y, i)) % 2
<1> DEFINE bit == [i \in Places |-> (Bit(x, i) + Bit(y, i)) % 2]
<1>1. bit \in [Places -> {0, 1}]
  <2>1. \A i \in Places : Bit(x, i) \in {0, 1} /\ Bit(y, i) \in {0, 1}
    BY UnsignedBits
  <2>2. \A c, d \in {0, 1} : (c + d) % 2 \in {0, 1}
    OBVIOUS
  <2> QED
    BY <2>1, <2>2
<1>2. Xor(x, y) = Word(bit)
  BY DEF Xor
<1>3. \A i \in Places : bit[i] = (Bit(x, i) + Bit(y, i)) % 2
  OBVIOUS
<1> HIDE DEF bit
<1> QED
  BY <1>1, <1>2, <1>3, WordIs

(* The shifts, place by place.                                             *)
LEMMA ShiftRightIs ==
  ASSUME NEW x \in Unsigned, NEW u \in Nat
  PROVE  /\ ShiftRight(x, u) \in Unsigned
         /\ \A i \in Places :
               Bit(ShiftRight(x, u), i) = IF i + u < Width THEN Bit(x, i + u) ELSE 0
<1> DEFINE bit == [i \in Places |-> IF i + u < Width THEN Bit(x, i + u) ELSE 0]
<1>1. bit \in [Places -> {0, 1}]
  <2>1. \A i \in Places : i + u < Width => i + u \in Places
    BY RemapBounds DEF Places
  <2> QED
    BY <2>1, UnsignedBits
<1>2. ShiftRight(x, u) = Word(bit)
  BY DEF ShiftRight
<1>3. \A i \in Places : bit[i] = IF i + u < Width THEN Bit(x, i + u) ELSE 0
  OBVIOUS
<1> HIDE DEF bit
<1> QED
  BY <1>1, <1>2, <1>3, WordIs

LEMMA ShiftLeftIs ==
  ASSUME NEW x \in Unsigned, NEW u \in Nat
  PROVE  /\ ShiftLeft(x, u) \in Unsigned
         /\ \A i \in Places : Bit(ShiftLeft(x, u), i) = IF i >= u THEN Bit(x, i - u) ELSE 0
<1> DEFINE bit == [i \in Places |-> IF i >= u THEN Bit(x, i - u) ELSE 0]
<1>1. bit \in [Places -> {0, 1}]
  <2>1. \A i \in Places : i >= u => i - u \in Places
    BY RemapBounds DEF Places
  <2> QED
    BY <2>1, UnsignedBits
<1>2. ShiftLeft(x, u) = Word(bit)
  BY DEF ShiftLeft
<1>3. \A i \in Places : bit[i] = IF i >= u THEN Bit(x, i - u) ELSE 0
  OBVIOUS
<1> HIDE DEF bit
<1> QED
  BY <1>1, <1>2, <1>3, WordIs

-----------------------------------------------------------------------------
(* Rounding up *)

(* A bit of y is set when one of the n bits of x from there on is.         *)
Covers(y, x, n) ==
    \A i \in Places :
        Bit(y, i) = 1 <=> \E j \in Places : i <= j /\ j < i + n /\ Bit(x, j) = 1

(* Each step of round_up_to_power_of_2 doubles how far the ones reach.     *)
LEMMA Smear ==
  ASSUME NEW x \in Unsigned, NEW y \in Unsigned, NEW n \in Nat, Covers(y, x, n)
  PROVE  or_equal(y, n) \in Unsigned /\ Covers(or_equal(y, n), x, n + n)
<1>w. Width \in 1 .. 32
  BY RemapBounds
<1>1. ShiftRight(y, n) \in Unsigned
  BY ShiftRightIs
<1>2. or_equal(y, n) \in Unsigned
  BY <1>1, OrIs DEF or_equal
<1>3. ASSUME NEW i \in Places
      PROVE  Bit(or_equal(y, n), i) = 1 <=>
                 \E j \in Places : i <= j /\ j < i + (n + n) /\ Bit(x, j) = 1
  <2>1. Bit(or_equal(y, n), i) = 1 <=>
            \/ Bit(y, i) = 1
            \/ i + n < Width /\ Bit(y, i + n) = 1
    <3>1. Bit(or_equal(y, n), i)
              = IF Bit(y, i) = 1 THEN 1 ELSE Bit(ShiftRight(y, n), i)
      BY <1>1, OrIs DEF or_equal
    <3>2. Bit(ShiftRight(y, n), i) = IF i + n < Width THEN Bit(y, i + n) ELSE 0
      BY ShiftRightIs
    <3> QED
      BY <3>1, <3>2
  <2>2. Bit(y, i) = 1 <=> \E j \in Places : i <= j /\ j < i + n /\ Bit(x, j) = 1
    BY DEF Covers
  <2>3. i + n < Width =>
            (Bit(y, i + n) = 1 <=>
                \E j \in Places : i + n <= j /\ j < (i + n) + n /\ Bit(x, j) = 1)
    <3>1. i + n < Width => i + n \in Places
      BY <1>w DEF Places
    <3> QED
      BY <3>1 DEF Covers
  <2>4. ~(i + n < Width) => ~ \E j \in Places : i + n <= j
    BY <1>w DEF Places
  <2>5. \A j \in Places :
            (i <= j /\ j < i + (n + n)) <=> \/ i <= j /\ j < i + n
                                            \/ i + n <= j /\ j < (i + n) + n
    BY <1>w DEF Places
  <2> QED
    BY <2>1, <2>2, <2>3, <2>4, <2>5
<1> QED
  BY <1>2, <1>3 DEF Covers

(* The place of the highest one of a number.                               *)
LEMMA HighestOne ==
  ASSUME NEW x \in Nat \ {0}, NEW m \in 0 .. 32, x < PowerOf2[m]
  PROVE  \E k \in 0 .. m - 1 : PowerOf2[k] <= x /\ x < PowerOf2[k + 1]
<1> DEFINE S == {n \in 0 .. 32 : x < PowerOf2[n]}
<1>1. S \in SUBSET Nat /\ m \in S
  OBVIOUS
<1>2. PICK n \in S : \A l \in S : n <= l
  <2> HIDE DEF S
  <2> QED
    BY <1>1, Least
<1>3. n # 0
  BY Powers
<1>4. PICK k \in 0 .. m - 1 : n = k + 1
  <2>1. n - 1 \in 0 .. m - 1 /\ n = (n - 1) + 1
    BY <1>1, <1>2, <1>3
  <2> QED
    BY <2>1
<1>5. k \in 0 .. 32 /\ k \notin S
  BY <1>2, <1>4
<1>6. PowerOf2[k] <= x
  BY <1>5, Powers
<1> QED
  BY <1>4, <1>6

(* The ring's size is the least power of two that is not below SIZE.       *)
LEMMA RoundedUp ==
  ASSUME NEW a \in 1 .. PowerOf2[Width - 1]
  PROVE  \E k \in 0 .. Width - 1 :
            /\ round_up_to_power_of_2(a) = PowerOf2[k]
            /\ a <= PowerOf2[k] /\ PowerOf2[k] < 2 * a
<1>w. Width \in 1 .. 32 /\ Width - 1 \in 0 .. 31 /\ (Width - 1) + 1 = Width
  BY RemapBounds
<1>1. PICK top \in Nat \ {0} : top = PowerOf2[Width - 1] /\ MaxUnsigned = 2 * top
  BY <1>w, Powers DEF MaxUnsigned
<1>2. PICK x \in Nat : x = a - 1 /\ x < top /\ x \in Unsigned
  <2>1. a - 1 \in Nat /\ a - 1 < top /\ a - 1 < 2 * top
    BY <1>1
  <2> QED
    BY <1>1, <2>1 DEF Unsigned
<1>3. decrement(a) = x
  <2>1. x % (2 * top) = x
    <3>1. x \in 0 .. 2 * top - 1 /\ x = (2 * top) * 0 + x /\ 2 * top \in Nat \ {0}
      BY <1>1, <1>2
    <3> QED
      BY <3>1, DivUnique
  <2> QED
    BY <1>1, <1>2, <2>1 DEF decrement
<1>4. Covers(x, x, 1)
  <2>1. \A i, j \in Places : (i <= j /\ j < i + 1) <=> i = j
    BY <1>w DEF Places
  <2> QED
    BY <2>1 DEF Covers
<1>5. PICK y \in Unsigned :
          /\ Covers(y, x, 32)
          /\ round_up_to_power_of_2(a) = increment(y)
  <2>1. PICK b \in Unsigned : b = or_equal(x, 1) /\ Covers(b, x, 2)
    <3>1. or_equal(x, 1) \in Unsigned /\ Covers(or_equal(x, 1), x, 1 + 1) /\ 1 + 1 = 2
      BY <1>2, <1>4, Smear
    <3> QED
      BY <3>1
  <2>2. PICK c \in Unsigned : c = or_equal(b, 2) /\ Covers(c, x, 4)
    <3>1. or_equal(b, 2) \in Unsigned /\ Covers(or_equal(b, 2), x, 2 + 2) /\ 2 + 2 = 4
      BY <1>2, <2>1, Smear
    <3> QED
      BY <3>1
  <2>3. PICK d \in Unsigned : d = or_equal(c, 4) /\ Covers(d, x, 8)
    <3>1. or_equal(c, 4) \in Unsigned /\ Covers(or_equal(c, 4), x, 4 + 4) /\ 4 + 4 = 8
      BY <1>2, <2>2, Smear
    <3> QED
      BY <3>1
  <2>4. PICK e \in Unsigned : e = or_equal(d, 8) /\ Covers(e, x, 16)
    <3>1. or_equal(d, 8) \in Unsigned /\ Covers(or_equal(d, 8), x, 8 + 8) /\ 8 + 8 = 16
      BY <1>2, <2>3, Smear
    <3> QED
      BY <3>1
  <2>5. PICK f \in Unsigned : f = or_equal(e, 16) /\ Covers(f, x, 32)
    <3>1. or_equal(e, 16) \in Unsigned /\ Covers(or_equal(e, 16), x, 16 + 16) /\ 16 + 16 = 32
      BY <1>2, <2>4, Smear
    <3> QED
      BY <3>1
  <2>6. round_up_to_power_of_2(a) = increment(f)
    BY <1>3, <2>1, <2>2, <2>3, <2>4, <2>5 DEF round_up_to_power_of_2
  <2> QED
    BY <2>5, <2>6
<1>6. PICK k \in 0 .. Width - 1 :
          /\ \A i \in Places : Bit(y, i) = 1 <=> i < k
          /\ x < PowerOf2[k] /\ PowerOf2[k] < 2 * (x + 1)
  <2>1. CASE x = 0
    <3>1. \A j \in Places : Bit(x, j) = 0
      <4>1. \A j \in Places : j \in 0 .. 32 /\ 0 < PowerOf2[j]
        <5>1. \A j \in Places : j \in 0 .. 32
          BY <1>w DEF Places
        <5> QED
          BY <5>1, Powers
      <4> QED
        BY <2>1, <4>1, BitIs
    <3>2. \A i \in Places : ~(Bit(y, i) = 1) /\ ~(i < 0)
      BY <1>5, <3>1, <1>w DEF Covers, Places
    <3>3. 0 \in 0 .. Width - 1
      BY <1>w
    <3> QED
      BY <2>1, <3>2, <3>3, Powers
  <2>2. CASE x # 0
    <3>1. PICK h \in 0 .. (Width - 1) - 1 : PowerOf2[h] <= x /\ x < PowerOf2[h + 1]
      <4>1. x \in Nat \ {0} /\ Width - 1 \in 0 .. 32 /\ x < PowerOf2[Width - 1]
        BY <2>2, <1>1, <1>2, <1>w
      <4> QED
        BY <4>1, HighestOne
    <3>2. /\ h \in 0 .. 31 /\ h \in 0 .. 32 /\ h \in Places
          /\ h + 1 \in 0 .. Width - 1 /\ h + 1 \in 0 .. 32
      BY <1>w DEF Places
    <3>3. PICK p \in Nat \ {0} : p = PowerOf2[h] /\ PowerOf2[h + 1] = 2 * p
      BY <3>2, Powers
    <3>4. Bit(x, h) = 1
      <4>1. PICK l \in 0 .. p - 1 : x = p * 1 + l
        <5>1. x - p \in 0 .. p - 1 /\ x = p * 1 + (x - p)
          BY <3>1, <3>3
        <5> QED
          BY <5>1
      <4>2. x \div p = 1
        BY <4>1, Digits
      <4> QED
        BY <4>2, <3>3 DEF Bit
    <3>5. ASSUME NEW j \in Places, j >= h + 1
          PROVE  Bit(x, j) = 0
      <4>1. j \in 0 .. 32
        BY <1>w DEF Places
      <4>2. PowerOf2[h + 1] <= PowerOf2[j]
        BY <3>2, <3>5, <4>1, PowerOrder
      <4>3. x < PowerOf2[j]
        BY <3>1, <3>3, <4>1, <4>2, Powers
      <4> QED
        BY <4>1, <4>3, BitIs
    <3>6. ASSUME NEW i \in Places
          PROVE  Bit(y, i) = 1 <=> i < h + 1
      <4>1. CASE i < h + 1
        <5>1. i <= h /\ h < i + 32
          BY <4>1, <3>2, <1>w DEF Places
        <5> QED
          BY <5>1, <4>1, <3>2, <3>4, <1>5 DEF Covers
      <4>2. CASE ~(i < h + 1)
        <5>1. \A j \in Places : i <= j => j >= h + 1
          BY <4>2, <3>2 DEF Places
        <5>2. \A j \in Places : i <= j => Bit(x, j) = 0
          BY <5>1, <3>5
        <5> QED
          BY <5>2, <4>2, <1>5 DEF Covers
      <4> QED
        BY <4>1, <4>2
    <3>7. x < PowerOf2[h + 1] /\ PowerOf2[h + 1] < 2 * (x + 1)
      BY <3>1, <3>3
    <3> QED
      BY <3>2, <3>6, <3>7
  <2> QED
    BY <2>1, <2>2
<1>7. PICK q \in Nat \ {0} : q = PowerOf2[k] /\ q <= top
  <2>1. k \in 0 .. 32 /\ Width - 1 \in 0 .. 32 /\ k <= Width - 1
    BY <1>w
  <2> QED
    BY <2>1, <1>1, Powers, PowerOrder
<1>8. y = q - 1
  <2>1. q - 1 \in Unsigned
    BY <1>1, <1>7 DEF Unsigned
  <2>2. ASSUME NEW i \in Places
        PROVE  Bit(y, i) = Bit(q - 1, i)
    <3>1. Bit(q - 1, i) = IF i < k THEN 1 ELSE 0
      <4>1. i \in 0 .. 32 /\ k \in 0 .. 32
        BY <1>w DEF Places
      <4> QED
        BY <4>1, <1>7, BitsOfMask
    <3>2. Bit(y, i) \in {0, 1}
      BY UnsignedBits
    <3> QED
      BY <3>1, <3>2, <1>6
  <2> QED
    BY <2>1, <2>2, UnsignedBits
<1>9. increment(y) = q
  <2>1. q % (2 * top) = q
    <3>1. q \in 0 .. 2 * top - 1 /\ q = (2 * top) * 0 + q /\ 2 * top \in Nat \ {0}
      BY <1>1, <1>7
    <3> QED
      BY <3>1, DivUnique
  <2>2. y + 1 = q
    BY <1>7, <1>8
  <2> QED
    BY <1>1, <2>1, <2>2 DEF increment
<1> QED
  BY <1>2, <1>5, <1>6, <1>7, <1>9

-----------------------------------------------------------------------------
(* The remapping *)

(* The bits of a number written with two digits of b bits.                 *)
LEMMA BitsOfTwoDigits ==
  ASSUME NEW b \in 0 .. 32, NEW q, NEW high, NEW low, NEW m, NEW x,
         Written(m, b, q, high), Written(x, b, m, low), NEW i \in 0 .. 32
  PROVE  /\ i < b => Bit(x, i) = Bit(low, i)
         /\ (i >= b /\ i < 2 * b) => Bit(x, i) = Bit(high, i - b)
         /\ i >= 2 * b => Bit(x, i) = Bit(q, i - 2 * b)
<1>1. /\ i < b => Bit(x, i) = Bit(low, i)
      /\ i >= b => Bit(x, i) = Bit(m, i - b)
  BY BitsOfDigits
<1>2. ASSUME i >= b
      PROVE  /\ i < 2 * b => Bit(m, i - b) = Bit(high, i - b)
             /\ i >= 2 * b => Bit(m, i - b) = Bit(q, i - 2 * b)
  <2>1. PICK j \in 0 .. 32 : j = i - b /\ (j < b <=> i < 2 * b) /\ (j >= b <=> i >= 2 * b)
                            /\ j - b = i - 2 * b
    <3>1. i - b \in 0 .. 32
      BY <1>2
    <3> QED
      BY <3>1
  <2>2. /\ j < b => Bit(m, j) = Bit(high, j)
        /\ j >= b => Bit(m, j) = Bit(q, j - b)
    BY BitsOfDigits
  <2> QED
    BY <2>1, <2>2
<1>3. i >= 2 * b => i >= b
  OBVIOUS
<1> QED
  BY <1>1, <1>2, <1>3

(* The two exclusive ors exchange the digits.                              *)
LEMMA RemapIs ==
  ASSUME NEW bits \in 0 .. 32, 2 * bits <= Width, NEW n \in Unsigned
  PROVE  remap_index(bits, n) = Exchanged(PowerOf2[bits], n)
<1>w. Width \in 1 .. 32 /\ MaxUnsigned \in Nat \ {0}
  BY RemapBounds, Powers DEF MaxUnsigned
<1>1. PICK base \in Nat \ {0} : base = PowerOf2[bits]
  BY Powers
<1>2. PICK q \in Nat, low \in 0 .. base - 1, next \in 0 .. base - 1 :
          /\ low = n % base
          /\ n = base * (base * q + next) + low
          /\ Exchanged(base, n) = base * (base * q + low) + next
          /\ Exchanged(base, n) \in Nat
  <2>1. n \in Nat
    BY UnsignedBits
  <2> QED
    BY <2>1, ExchangedIs
<1>3. PICK e \in Unsigned : e = Exchanged(base, n)
  <2>1. PICK K \in Nat : MaxUnsigned = base * (base * K)
    <3>1. Width - bits \in 0 .. 32 /\ bits <= Width - bits /\ bits <= Width
      BY <1>w
    <3>2. PICK r \in Nat : r = PowerOf2[Width - bits] /\ MaxUnsigned = base * r
      <4>1. PowerOf2[Width] = PowerOf2[bits] * PowerOf2[Width - bits]
        <5>1. Width \in 0 .. 32
          BY <1>w
        <5> QED
          BY <3>1, <5>1, PowerSplit
      <4>2. PowerOf2[Width - bits] \in Nat
        BY <3>1, Powers
      <4> QED
        BY <1>1, <4>1, <4>2 DEF MaxUnsigned
    <3>3. (Width - bits) - bits \in 0 .. 32
      BY <1>w
    <3>4. PICK K \in Nat : K = PowerOf2[(Width - bits) - bits] /\ r = base * K
      BY <1>1, <3>1, <3>2, <3>3, Powers, PowerSplit
    <3> QED
      BY <3>2, <3>4
  <2>2. n \in Nat /\ n < base * (base * K)
    BY <1>w, <2>1 DEF Unsigned
  <2>3. Exchanged(base, n) \in Nat /\ Exchanged(base, n) < base * (base * K)
    BY <2>2, ExchangedWithin
  <2> QED
    BY <1>w, <2>1, <2>3 DEF Unsigned
<1>4. ASSUME NEW i \in 0 .. 32
      PROVE  /\ i < bits => Bit(n, i) = Bit(low, i)
             /\ (i >= bits /\ i < 2 * bits) => Bit(n, i) = Bit(next, i - bits)
             /\ i >= 2 * bits => Bit(n, i) = Bit(q, i - 2 * bits)
             /\ i < bits => Bit(e, i) = Bit(next, i)
             /\ (i >= bits /\ i < 2 * bits) => Bit(e, i) = Bit(low, i - bits)
             /\ i >= 2 * bits => Bit(e, i) = Bit(q, i - 2 * bits)
  <2>1. n \in Nat /\ e \in Nat
    BY <1>2, <1>3, UnsignedBits
  <2>m. PICK m \in Nat, d \in Nat : m = base * q + next /\ d = base * q + low
    BY Digits
  <2>2. /\ Written(m, bits, q, next) /\ Written(n, bits, m, low)
        /\ Written(d, bits, q, low) /\ Written(e, bits, d, next)
    BY <1>1, <1>2, <1>3, <2>1, <2>m DEF Written
  <2>3. /\ i < bits => Bit(n, i) = Bit(low, i)
        /\ (i >= bits /\ i < 2 * bits) => Bit(n, i) = Bit(next, i - bits)
        /\ i >= 2 * bits => Bit(n, i) = Bit(q, i - 2 * bits)
    BY <2>2, BitsOfTwoDigits
  <2>4. /\ i < bits => Bit(e, i) = Bit(next, i)
        /\ (i >= bits /\ i < 2 * bits) => Bit(e, i) = Bit(low, i - bits)
        /\ i >= 2 * bits => Bit(e, i) = Bit(q, i - 2 * bits)
    BY <2>2, BitsOfTwoDigits
  <2> QED
    BY <2>3, <2>4
<1>5. PICK s \in Unsigned :
          /\ s = ShiftRight(n, bits)
          /\ \A i \in Places : Bit(s, i) = IF i + bits < Width THEN Bit(n, i + bits) ELSE 0
  BY ShiftRightIs
<1>6. PICK x \in Unsigned :
          /\ x = Xor(n, s)
          /\ \A i \in Places : Bit(x, i) = (Bit(n, i) + Bit(s, i)) % 2
  BY XorIs
<1>7. PICK mask \in Unsigned :
          /\ mask = PowerOf2[bits] - 1
          /\ \A i \in Places : Bit(mask, i) = IF i < bits THEN 1 ELSE 0
  <2>1. base <= MaxUnsigned
    <3>1. Width \in 0 .. 32 /\ bits <= Width
      BY <1>w
    <3> QED
      BY <1>1, <3>1, PowerOrder DEF MaxUnsigned
  <2>2. base - 1 \in Unsigned
    BY <1>w, <2>1 DEF Unsigned
  <2>3. \A i \in Places : i \in 0 .. 32
    BY <1>w DEF Places
  <2>4. \A i \in Places : Bit(base - 1, i) = IF i < bits THEN 1 ELSE 0
    BY <1>1, <2>3, BitsOfMask
  <2> QED
    BY <1>1, <2>2, <2>4
<1>8. PICK mix \in Unsigned :
          /\ mix = And(x, mask)
          /\ \A i \in Places : Bit(mix, i) = Bit(x, i) * Bit(mask, i)
  BY AndIs
<1>9. PICK u \in Unsigned :
          /\ u = Xor(n, mix)
          /\ \A i \in Places : Bit(u, i) = (Bit(n, i) + Bit(mix, i)) % 2
  BY XorIs
<1>10. PICK v \in Unsigned :
          /\ v = ShiftLeft(mix, bits)
          /\ \A i \in Places : Bit(v, i) = IF i >= bits THEN Bit(mix, i - bits) ELSE 0
  BY ShiftLeftIs
<1>11. PICK r \in Unsigned :
          /\ r = Xor(u, v)
          /\ \A i \in Places : Bit(r, i) = (Bit(u, i) + Bit(v, i)) % 2
  BY XorIs
<1>12. remap_index(bits, n) = r
  BY <1>5, <1>6, <1>7, <1>8, <1>9, <1>10, <1>11 DEF remap_index
<1>13. ASSUME NEW i \in Places
       PROVE  /\ Bit(n, i) \in {0, 1} /\ Bit(x, i) \in {0, 1}
              /\ i < bits => Bit(mix, i) = (Bit(n, i) + Bit(n, i + bits)) % 2
              /\ ~(i < bits) => Bit(mix, i) = 0
  <2>1. Bit(n, i) \in {0, 1} /\ Bit(x, i) \in {0, 1}
    BY UnsignedBits
  <2>2. ASSUME i < bits PROVE Bit(mix, i) = (Bit(n, i) + Bit(n, i + bits)) % 2
    <3>1. i + bits < Width
      BY <2>2, <1>w DEF Places
    <3>2. Bit(mask, i) = 1 /\ Bit(s, i) = Bit(n, i + bits)
      BY <2>2, <3>1, <1>5, <1>7
    <3>3. Bit(mix, i) = Bit(x, i)
      BY <2>1, <3>2, <1>8
    <3> QED
      BY <3>2, <3>3, <1>6
  <2>3. ASSUME ~(i < bits) PROVE Bit(mix, i) = 0
    BY <2>1, <2>3, <1>7, <1>8
  <2> QED
    BY <2>1, <2>2, <2>3
(* adding a bit twice leaves the other *)
<1>14. \A c, d \in {0, 1} : (c + ((c + d) % 2)) % 2 = d /\ (c + ((d + c) % 2)) % 2 = d
  OBVIOUS
<1>15. \A c \in {0, 1} : (c + 0) % 2 = c
  OBVIOUS
<1>16. ASSUME NEW i \in Places
       PROVE  Bit(r, i) = Bit(e, i)
  <2>1. i \in 0 .. 32 /\ Bit(n, i) \in {0, 1}
    BY <1>13, <1>w DEF Places
  <2>2. CASE i < bits
    <3>1. i + bits \in Places /\ i + bits \in 0 .. 32 /\ i + bits >= bits /\ i + bits < 2 * bits
          /\ (i + bits) - bits = i
      BY <2>2, <1>w DEF Places
    <3>2. Bit(v, i) = 0
      <4>1. ~(i >= bits)
        BY <2>2, <2>1
      <4> QED
        BY <4>1, <1>10
    <3>3. Bit(mix, i) = (Bit(n, i) + Bit(n, i + bits)) % 2
      BY <2>2, <1>13
    <3>4. Bit(n, i + bits) \in {0, 1}
      BY <3>1, <1>13
    <3>5. Bit(u, i) = Bit(n, i + bits)
      BY <1>9, <1>14, <2>1, <3>3, <3>4
    <3>6. Bit(r, i) = Bit(n, i + bits)
      BY <1>11, <1>15, <3>2, <3>4, <3>5
    <3>7. Bit(n, i + bits) = Bit(next, i)
      BY <1>4, <3>1
    <3> QED
      BY <1>4, <2>1, <2>2, <3>6, <3>7
  <2>3. CASE i >= bits /\ i < 2 * bits
    <3>1. i - bits \in Places /\ i - bits \in 0 .. 32 /\ i - bits < bits /\ (i - bits) + bits = i
      BY <2>3, <1>w DEF Places
    <3>2. Bit(mix, i) = 0 /\ Bit(v, i) = Bit(mix, i - bits)
      <4>1. i >= bits /\ ~(i < bits)
        BY <2>3, <2>1
      <4> QED
        BY <4>1, <1>10, <1>13
    <3>3. Bit(mix, i - bits) = (Bit(n, i - bits) + Bit(n, i)) % 2
      BY <3>1, <1>13
    <3>4. Bit(n, i - bits) \in {0, 1}
      BY <3>1, <1>13
    <3>5. Bit(u, i) = Bit(n, i)
      BY <1>9, <1>15, <2>1, <3>2
    <3>6. Bit(r, i) = Bit(n, i - bits)
      BY <1>11, <1>14, <2>1, <3>2, <3>3, <3>4, <3>5
    <3>7. Bit(n, i - bits) = Bit(low, i - bits)
      BY <1>4, <3>1
    <3> QED
      BY <1>4, <2>1, <2>3, <3>6, <3>7
  <2>4. CASE i >= 2 * bits
    <3>1. i - bits \in Places /\ ~(i - bits < bits) /\ i >= bits /\ ~(i < bits)
      BY <2>4, <1>w DEF Places
    <3>2. Bit(mix, i) = 0 /\ Bit(v, i) = 0
      BY <3>1, <1>10, <1>13
    <3>3. Bit(u, i) = Bit(n, i)
      BY <1>9, <1>15, <2>1, <3>2
    <3>4. Bit(r, i) = Bit(n, i)
      BY <1>11, <1>15, <2>1, <3>2, <3>3
    <3> QED
      BY <1>4, <2>1, <2>4, <3>4
  <2> QED
    BY <2>1, <2>2, <2>3, <2>4
<1>17. r = e
  BY <1>16, UnsignedBits
<1> QED
  BY <1>1, <1>3, <1>12, <1>17

(* The ring of an asked size: how large it is, which digits are exchanged. *)
LEMMA RingIs ==
  ASSUME asked \in Sizes, line \in PerLine
  PROVE  /\ size_ \in Nat \ {0}
         /\ SizeIsLeastPower
         /\ \E base \in Nat \ {0}, K \in Nat \ {0} :
               /\ base = PowerOf2[SHUFFLE_BITS]
               /\ size_ = base * (base * K)
               /\ SHUFFLE_BITS > 0 => base = line /\ base \in Nat \ {0, 1}
               /\ \A n \in Nat : PlaceOf(n) = Exchanged(base, n % size_)
<1>w. Width \in 1 .. 32
  BY RemapBounds
<1>1. asked \in 1 .. PowerOf2[Width - 1]
  BY RemapBounds
<1>2. PICK k \in 0 .. Width - 1 : size_ = PowerOf2[k] /\ asked <= size_ /\ size_ < 2 * asked
  BY <1>1, RoundedUp DEF size_
<1>3. k \in 0 .. 32 /\ Width \in 0 .. 32 /\ k <= Width
  BY <1>w
<1>4. size_ \in Nat \ {0} /\ size_ <= MaxUnsigned
  BY <1>2, <1>3, Powers, PowerOrder DEF MaxUnsigned
<1>5. PICK bits \in 0 .. 8 :
          /\ bits = SHUFFLE_BITS
          /\ PowerOf2[bits * 2] <= size_
          /\ bits > 0 => PowerOf2[bits] = line
  <2> DEFINE b == GetCacheLineIndexBits(line)
  <2>1. b \in 0 .. 8 /\ (b > 0 => PowerOf2[b] = line)
    <3>1. CASE \E c \in 1 .. 8 : PowerOf2[c] = line
      BY <3>1 DEF GetCacheLineIndexBits
    <3>2. CASE ~ \E c \in 1 .. 8 : PowerOf2[c] = line
      BY <3>2 DEF GetCacheLineIndexBits
    <3> QED
      BY <3>1, <3>2
  <2>2. SHUFFLE_BITS = IF size_ < PowerOf2[b * 2] THEN 0 ELSE b
    BY DEF SHUFFLE_BITS, GetIndexShuffleBits
  <2> HIDE DEF b
  <2>3. CASE size_ < PowerOf2[b * 2]
    <3>1. 0 * 2 = 0 /\ PowerOf2[0] = 1 /\ 0 \in 0 .. 8
      BY Powers
    <3>2. PowerOf2[0 * 2] <= size_
      BY <3>1, <1>4
    <3> QED
      BY <2>2, <2>3, <3>1, <3>2
  <2>4. CASE ~(size_ < PowerOf2[b * 2])
    <3>1. b * 2 \in 0 .. 32
      BY <2>1
    <3>2. PowerOf2[b * 2] <= size_
      BY <2>4, <3>1, <1>4, Powers
    <3> QED
      BY <2>1, <2>2, <2>4, <3>2
  <2> QED
    BY <2>3, <2>4
<1>6. bits * 2 <= k
  <2> SUFFICES ASSUME k < bits * 2 PROVE FALSE
    BY <1>3
  <2>1. bits * 2 \in 0 .. 32 /\ k <= bits * 2
    OBVIOUS
  <2>2. 2 * PowerOf2[k] <= PowerOf2[bits * 2]
    BY <1>3, <2>1, PowerOrder
  <2> QED
    BY <2>1, <2>2, <1>2, <1>4, <1>5, Powers
<1>7. PICK base \in Nat \ {0} : base = PowerOf2[bits]
  BY Powers
<1>8. PICK K \in Nat \ {0} : size_ = base * (base * K)
  <2>1. /\ bits \in 0 .. 32 /\ bits <= k
        /\ k - bits \in 0 .. 32 /\ bits <= k - bits
        /\ (k - bits) - bits \in 0 .. 32
    BY <1>3, <1>6
  <2>2. PICK r \in Nat : r = PowerOf2[k - bits]
    BY <2>1, Powers
  <2>3. PICK K \in Nat \ {0} : K = PowerOf2[(k - bits) - bits]
    BY <2>1, Powers
  <2>4. PowerOf2[k] = PowerOf2[bits] * PowerOf2[k - bits]
    BY <1>3, <2>1, PowerSplit
  <2>5. PowerOf2[k - bits] = PowerOf2[bits] * PowerOf2[(k - bits) - bits]
    BY <2>1, PowerSplit
  <2> QED
    BY <1>2, <1>7, <2>2, <2>3, <2>4, <2>5
<1>9. ASSUME NEW n \in Nat
      PROVE  PlaceOf(n) = Exchanged(base, n % size_)
  <2>1. PICK x \in Unsigned : x = n % size_
    <3>1. n % size_ \in 0 .. size_ - 1
      BY <1>4, DivMod
    <3>2. MaxUnsigned \in Nat
      BY <1>3, Powers DEF MaxUnsigned
    <3> QED
      BY <1>4, <3>1, <3>2 DEF Unsigned
  <2>2. bits \in 0 .. 32 /\ 2 * bits <= Width
    BY <1>3, <1>6
  <2>3. remap_index(bits, x) = Exchanged(PowerOf2[bits], x)
    BY <2>2, RemapIs
  <2> QED
    BY <1>5, <1>7, <2>1, <2>3 DEF PlaceOf
<1>10. ASSUME bits > 0 PROVE base = line /\ base \in Nat \ {0, 1}
  <2>1. 2 * PowerOf2[0] <= PowerOf2[bits]
    <3>1. 0 \in 0 .. 32 /\ bits \in 0 .. 32 /\ 0 <= bits /\ 0 < bits
      BY <1>10
    <3> QED
      BY <3>1, PowerOrder
  <2> QED
    BY <1>5, <1>7, <1>10, <2>1, Powers
<1>11. SizeIsLeastPower
  BY <1>2 DEF SizeIsLeastPower
<1> QED
  BY <1>4, <1>5, <1>7, <1>8, <1>9, <1>10, <1>11

(* The places of the tickets of a lap are a permutation of the slots, as   *)
(* AtomicQueue assumes of its constant Remap.                              *)
THEOREM PlacesPermute ==
  ASSUME asked \in Sizes, line \in PerLine,
         NEW Remap, Remap = [n \in 0 .. size_ - 1 |-> PlaceOf(n)]
  PROVE  /\ Remap \in [0 .. size_ - 1 -> 0 .. size_ - 1]
         /\ \A i, j \in 0 .. size_ - 1 : Remap[i] = Remap[j] => i = j
<1>1. PICK base \in Nat \ {0}, K \in Nat \ {0} :
          /\ size_ = base * (base * K)
          /\ \A n \in Nat : PlaceOf(n) = Exchanged(base, n % size_)
  BY RingIs
<1>2. PICK size \in Nat \ {0} : size = size_
  BY RingIs
<1>3. ASSUME NEW n \in 0 .. size - 1 PROVE PlaceOf(n) = Exchanged(base, n)
  <2>1. n = size * 0 + n /\ n \in Nat
    OBVIOUS
  <2>2. n % size = n
    BY <2>1, DivUnique
  <2> QED
    BY <1>1, <1>2, <2>1, <2>2
<1>4. Remap = [n \in 0 .. base * (base * K) - 1 |-> Exchanged(base, n)]
  BY <1>1, <1>2, <1>3
<1>5. /\ Remap \in [0 .. base * (base * K) - 1 -> 0 .. base * (base * K) - 1]
      /\ \A i, j \in 0 .. base * (base * K) - 1 : Remap[i] = Remap[j] => i = j
  BY <1>4, ExchangePermutes
<1> QED
  BY <1>1, <1>5

-----------------------------------------------------------------------------
(* The walk *)

(* What has been used is what the tickets of this lap stand for.           *)
Walked ==
    /\ asked \in Sizes
    /\ line \in PerLine
    /\ ticket \in Nat
    /\ used = {PlaceOf(i) : i \in 0 .. (ticket % size_) - 1}

(* The remainder counts up to the end of the lap and starts again.         *)
LEMMA NextRemainder ==
  ASSUME NEW S \in Nat \ {0}, NEW n \in Nat
  PROVE  \/ (n + 1) % S = 0
         \/ (n + 1) % S = (n % S) + 1
<1>1. PICK q \in Int, r \in 0 .. S - 1 : n = S * q + r /\ r = n % S
  BY DivMod
<1>2. PICK p \in Int, m \in Int : p = S * q /\ m = n + 1 /\ m = p + r + 1
  <2>1. S * q \in Int
    OBVIOUS
  <2> QED
    BY <1>1, <2>1
<1>3. CASE r + 1 = S
  <2>1. PICK c \in Int : c = q + 1
    OBVIOUS
  <2>2. S * q + S * 1 = S * (q + 1)
    BY Distr
  <2>3. m = S * c + 0 /\ 0 \in 0 .. S - 1
    BY <1>2, <1>3, <2>1, <2>2
  <2>4. m % S = 0
    BY <2>3, DivUnique
  <2> QED
    BY <1>2, <2>4
<1>4. CASE r + 1 # S
  <2>1. PICK t \in 0 .. S - 1 : t = r + 1
    BY <1>4
  <2>2. m = S * q + t
    BY <1>2, <2>1
  <2>3. m % S = t
    BY <2>2, DivUnique
  <2> QED
    BY <1>1, <1>2, <2>1, <2>3
<1> QED
  BY <1>3, <1>4

LEMMA WalkStarts == Init => Walked
<1> SUFFICES ASSUME Init PROVE Walked
  OBVIOUS
<1>1. size_ \in Nat \ {0}
  BY RingIs DEF Init
<1>2. 0 % size_ = 0
  <2>1. 0 = size_ * 0 + 0 /\ 0 \in 0 .. size_ - 1
    BY <1>1
  <2> QED
    BY <1>1, <2>1, DivUnique
<1>3. {PlaceOf(i) : i \in 0 .. (0 % size_) - 1} = {}
  BY <1>2
<1> QED
  BY <1>3 DEF Init, Walked

LEMMA WalkStep == Walked /\ [NextTicket]_vars => Walked'
<1> SUFFICES ASSUME Walked, [NextTicket]_vars PROVE Walked'
  OBVIOUS
<1>1. size_ \in Nat \ {0}
  BY RingIs DEF Walked
<1>2. ASSUME asked' = asked, line' = line
      PROVE  size_' = size_ /\ \A i : PlaceOf(i)' = PlaceOf(i)
  BY <1>2 DEF size_, PlaceOf, SHUFFLE_BITS
<1>3. ASSUME NextTicket PROVE Walked'
  <2>1. /\ asked' = asked /\ line' = line /\ ticket' = ticket + 1
        /\ used' = IF ticket' % size_ = 0 THEN {} ELSE used \cup {PlaceOf(ticket)}
    BY <1>3 DEF NextTicket
  <2>2. PICK r \in Nat : r = ticket % size_
    BY <1>1, DivMod DEF Walked
  <2>3. used' = {PlaceOf(i) : i \in 0 .. (ticket' % size_) - 1}
    <3>1. CASE ticket' % size_ = 0
      BY <2>1, <3>1
    <3>2. CASE ticket' % size_ # 0
      <4>1. ticket' % size_ = r + 1
        BY <1>1, <2>1, <2>2, <3>2, NextRemainder DEF Walked
      <4>2. 0 .. (r + 1) - 1 = (0 .. r - 1) \cup {r}
        BY <2>2
      <4>3. PlaceOf(ticket) = PlaceOf(r)
        <5>1. r % size_ = r
          <6>1. r \in 0 .. size_ - 1 /\ r = size_ * 0 + r
            BY <1>1, <2>2, DivMod DEF Walked
          <6> QED
            BY <1>1, <6>1, DivUnique
        <5> QED
          BY <2>2, <5>1 DEF PlaceOf
      <4>4. used = {PlaceOf(i) : i \in 0 .. r - 1}
        BY <2>2 DEF Walked
      <4>5. used' = {PlaceOf(i) : i \in 0 .. (r + 1) - 1}
        BY <2>1, <3>2, <4>2, <4>3, <4>4
      <4> QED
        BY <4>1, <4>5
    <3> QED
      BY <3>1, <3>2
  <2>4. size_' = size_ /\ \A i : PlaceOf(i)' = PlaceOf(i)
    BY <1>2, <2>1
  <2>5. used' = {PlaceOf(i)' : i \in 0 .. (ticket' % size_') - 1}
    BY <2>3, <2>4
  <2>6. asked' \in Sizes /\ line' \in PerLine /\ ticket' \in Nat
    BY <2>1 DEF Walked
  <2> QED
    BY <2>5, <2>6 DEF Walked
<1>4. ASSUME UNCHANGED vars PROVE Walked'
  <2>1. size_' = size_ /\ \A i : PlaceOf(i)' = PlaceOf(i)
    BY <1>2, <1>4 DEF vars
  <2>2. used' = {PlaceOf(i)' : i \in 0 .. (ticket' % size_') - 1}
    BY <1>4, <2>1 DEF vars, Walked
  <2> QED
    BY <1>4, <2>2 DEF vars, Walked
<1> QED
  BY <1>3, <1>4

LEMMA WalkHolds == Spec => []Walked
BY WalkStarts, WalkStep, PTL DEF Spec

(* The ring has the least power of two of slots that is enough for SIZE,   *)
(* as round_up_to_power_of_2 is meant to give, for every SIZE that has one *)
(* among the unsigned numbers.                                             *)
THEOREM SizeIsLeastPowerHolds == Spec => []SizeIsLeastPower
<1>1. Walked => SizeIsLeastPower
  BY RingIs DEF Walked
<1> QED
  BY <1>1, WalkHolds, PTL

(* The exclusive ors of remap_index exchange the two lowest digits of the  *)
(* ticket, whose number of bits is that of a line's states.                *)
THEOREM SwapsDigitsHolds == Spec => []SwapsDigits
<1>1. ASSUME Walked PROVE SwapsDigits
  <2>1. PICK base \in Nat \ {0}, K \in Nat \ {0} :
            /\ base = PowerOf2[SHUFFLE_BITS]
            /\ size_ = base * (base * K)
            /\ \A n \in Nat : PlaceOf(n) = Exchanged(base, n % size_)
    BY <1>1, RingIs DEF Walked
  <2>2. PICK S \in Nat \ {0} : S = base * base
    BY PosProd
  <2>3. size_ % S = 0
    <3>1. size_ = S * K
      BY <2>1, <2>2, Assoc
    <3>2. size_ = S * K + 0 /\ size_ \in Int /\ 0 \in 0 .. S - 1
      BY <2>2, <3>1
    <3> QED
      BY <3>2, DivUnique
  <2> QED
    BY <1>1, <2>1, <2>2, <2>3 DEF SwapsDigits, Walked
<1> QED
  BY <1>1, WalkHolds, PTL

(* Within a lap every ticket has a place of its own in the ring, which is  *)
(* what AtomicQueue assumes of its constant Remap.                         *)
THEOREM EachPlaceOnceHolds == Spec => []EachPlaceOnce
<1>1. ASSUME Walked PROVE EachPlaceOnce
  <2>1. PICK base \in Nat \ {0}, K \in Nat \ {0} :
            /\ size_ = base * (base * K)
            /\ \A n \in Nat : PlaceOf(n) = Exchanged(base, n % size_)
    BY <1>1, RingIs DEF Walked
  <2>2. PICK size \in Nat \ {0} : size = size_
    BY <1>1, RingIs DEF Walked
  <2>3. PICK r \in Nat : r = ticket % size_ /\ r < size_
    BY <1>1, <2>2, DivMod DEF Walked
  <2>4. PlaceOf(ticket) = Exchanged(base, r)
    BY <1>1, <2>1, <2>3 DEF Walked
  <2>5. PlaceOf(ticket) \in 0 .. size_ - 1
    <3>1. r < base * (base * K)
      BY <2>1, <2>3
    <3>2. Exchanged(base, r) \in Nat /\ Exchanged(base, r) < base * (base * K)
      BY <3>1, ExchangedWithin
    <3> QED
      BY <2>1, <2>2, <2>4, <3>2
  <2>6. ASSUME NEW i \in 0 .. r - 1
        PROVE  PlaceOf(i) # PlaceOf(ticket)
    <3>1. i \in Nat /\ i < r
      OBVIOUS
    <3>2. i % size_ = i
      <4>1. i \in 0 .. size_ - 1 /\ i = size_ * 0 + i
        BY <2>2, <2>3, <3>1
      <4> QED
        BY <2>2, <4>1, DivUnique
    <3>3. PlaceOf(i) = Exchanged(base, i)
      BY <2>1, <3>1, <3>2
    <3>4. Exchanged(base, Exchanged(base, i)) = i /\ Exchanged(base, Exchanged(base, r)) = r
      BY <3>1, ExchangedTwice
    <3> QED
      BY <2>4, <3>1, <3>3, <3>4
  <2>7. used = {PlaceOf(i) : i \in 0 .. r - 1}
    BY <1>1, <2>3 DEF Walked
  <2>8. PlaceOf(ticket) \notin used
    BY <2>6, <2>7
  <2> QED
    BY <2>5, <2>8 DEF EachPlaceOnce
<1> QED
  BY <1>1, WalkHolds, PTL

(* Consecutive tickets have their states in different cache lines, also    *)
(* round the end of the ring: threads that push one after the other do not *)
(* contend for a line.                                                     *)
THEOREM NeighboursApartHolds == Spec => NeighboursApart
<1>1. ASSUME Walked, [NextTicket]_vars
      PROVE  [SHUFFLE_BITS > 0 => PlaceOf(ticket) \div line # PlaceOf(ticket') \div line]_vars
  <2>1. ASSUME NextTicket, SHUFFLE_BITS > 0
        PROVE  PlaceOf(ticket) \div line # PlaceOf(ticket') \div line
    <3>1. PICK base \in Nat \ {0, 1}, K \in Nat \ {0} :
              /\ size_ = base * (base * K) /\ base = line
              /\ \A n \in Nat : PlaceOf(n) = Exchanged(base, n % size_)
      BY <1>1, <2>1, RingIs DEF Walked
    <3>2. PICK n \in Nat : n = ticket /\ ticket' = n + 1 /\ n + 1 \in Nat
      BY <1>1, <2>1 DEF Walked, NextTicket
    <3>3. Exchanged(base, n % size_) \div base # Exchanged(base, (n + 1) % size_) \div base
      BY <3>1, NeighboursPart
    <3> QED
      BY <3>1, <3>2, <3>3
  <2> QED
    BY <1>1, <2>1
<1> QED
  BY <1>1, WalkHolds, PTL DEF Spec, NeighboursApart

=============================================================================
