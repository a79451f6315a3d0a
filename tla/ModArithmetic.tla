---------------------------- MODULE ModArithmetic ----------------------------
(***************************************************************************)
(* Facts about numbers that the proofs need: induction over sets of them,  *)
(* division and remainder, and exchanging two digits, which is how the     *)
(* ring places its elements.                                               *)
(***************************************************************************)
EXTENDS Integers, WellFoundedInduction, TLAPS

-----------------------------------------------------------------------------
(* Induction *)

(* The order of the natural numbers, as a relation. *)
Less == OpToRel(<, Nat)

(* A set of natural numbers that is not empty has a least element.         *)
LEMMA Least ==
  ASSUME NEW S \in SUBSET Nat, S # {}
  PROVE  \E n \in S : \A m \in S : n <= m
<1>1. IsWellFoundedOn(Less, Nat)
  BY NatLessThanWellFounded DEF Less
<1>2. \A m, n \in Nat : m < n => <<m, n>> \in Less
  BY DEF OpToRel, Less
<1>3. PICK n \in S : \A m \in S : <<m, n>> \notin Less
  BY <1>1, WFMin
<1>4. \A m \in S : ~(m < n)
  BY <1>2, <1>3
<1> QED
  BY <1>4

(* A set that has 0 and with n also n + 1 has every natural number.        *)
LEMMA NatSet ==
  ASSUME NEW S, 0 \in S, \A n \in Nat : n \in S => n + 1 \in S
  PROVE  Nat \subseteq S
<1> SUFFICES ASSUME Nat \ S # {} PROVE FALSE
  OBVIOUS
<1>1. PICK n \in Nat \ S : \A m \in Nat \ S : n <= m
  <2> DEFINE T == Nat \ S
  <2>1. T \in SUBSET Nat /\ T # {}
    OBVIOUS
  <2> HIDE DEF T
  <2>2. \E n \in T : \A m \in T : n <= m
    BY <2>1, Least
  <2> QED
    BY <2>2 DEF T
<1>2. n # 0 /\ n - 1 \in Nat
  BY <1>1
<1>3. n - 1 \in S
  BY <1>1, <1>2
<1>4. (n - 1) + 1 = n
  BY <1>1
<1> QED
  BY <1>1, <1>2, <1>3, <1>4

-----------------------------------------------------------------------------
(* Division and remainder *)

(* A remainder is the only number below the divisor at a multiple of it.   *)
LEMMA DivUnique ==
  ASSUME NEW S \in Nat \ {0}, NEW q \in Int, NEW r \in 0 .. S - 1, NEW a \in Int, a = S * q + r
  PROVE  a % S = r
  OBVIOUS

(* Division with remainder of a natural number.                            *)
LEMMA DivMod ==
  ASSUME NEW W \in Nat \ {0}, NEW n \in Nat
  PROVE  /\ n % W \in 0 .. W - 1
         /\ n \div W \in Int
         /\ n = W * (n \div W) + (n % W)
<1>1. n % W \in 0 .. W - 1
  OBVIOUS
<1>2. n \div W \in Int
  OBVIOUS
<1>3. n = W * (n \div W) + (n % W)
  OBVIOUS
<1> QED
  BY <1>1, <1>2, <1>3

(* Multiplication is associative, in the form the solver can be asked for. *)
LEMMA Assoc == ASSUME NEW S \in Int, NEW k \in Int, NEW q \in Int
  PROVE (S * k) * q = S * (k * q) /\ k * q \in Int
  OBVIOUS

(* Multiplication distributes over addition, in the same form.             *)
LEMMA Distr == ASSUME NEW S \in Int, NEW x \in Int, NEW y \in Int
  PROVE S * x + S * y = S * (x + y) 
  OBVIOUS

(* The product of positive numbers is positive.                            *)
LEMMA PosProd == ASSUME NEW S \in Nat \ {0}, NEW k \in Nat \ {0} PROVE S * k \in Nat \ {0}
  OBVIOUS

(* A remainder modulo a multiple of S has the remainder of the number      *)
(* itself modulo S: a ring of S slots can be indexed by a counter that     *)
(* wraps at S * k.                                                         *)
LEMMA ModMod ==
  ASSUME NEW S \in Nat \ {0}, NEW k \in Nat \ {0}, NEW n \in Nat
  PROVE  (n % (S * k)) % S = n % S
<1>1. PICK W \in Nat \ {0} : W = S * k
  BY PosProd
<1>2. PICK a \in 0 .. W - 1, q \in Int : a = n % W /\ n = W * q + a
  BY DivMod
<1>3. PICK r \in 0 .. S - 1, b \in Int : r = a % S /\ a = S * b + r
  <2>1. a \in Nat
    OBVIOUS
  <2>2. a % S \in 0 .. S - 1 /\ a \div S \in Int /\ a = S * (a \div S) + (a % S)
    BY <2>1, DivMod
  <2> QED
    BY <2>2
<1>4. PICK c \in Int : W * q = S * c
  BY <1>1, Assoc
<1>5. PICK d \in Int : d = c + b /\ S * c + S * b = S * d
  BY Distr
<1>6. n = S * d + r
  <2>1. S * c \in Int /\ S * b \in Int
    OBVIOUS
  <2> QED
    BY <1>2, <1>3, <1>4, <1>5, <2>1
<1>7. n % S = r
  BY <1>6, DivUnique
<1> QED
  BY <1>1, <1>2, <1>3, <1>7

(* The next number with the same remainder is S further on.                *)
LEMMA ModNext == ASSUME NEW S \in Nat \ {0}, NEW n \in Nat PROVE (n + S) % S = n % S
<1>1. PICK q \in Int, r \in 0 .. S - 1 : n = S * q + r /\ r = n % S
  BY DivMod
<1>2. PICK d \in Int : d = q + 1 /\ S * d = S * q + S
  <2>1. S * q + S * 1 = S * (q + 1)
    BY Distr
  <2> QED
    BY <2>1
<1>3. PICK a \in Int : a = n + S /\ a = S * d + r
  <2>1. S * q \in Int
    OBVIOUS
  <2> QED
    BY <1>1, <1>2, <2>1
<1>4. a % S = r
  <2>1. a = S * d + r
    BY <1>3
  <2> QED
    BY <2>1, DivUnique
<1> QED
  BY <1>1, <1>3, <1>4

(* Two numbers with the same remainder are equal or at least S apart.      *)
LEMMA ModApart ==
  ASSUME NEW S \in Nat \ {0}, NEW m \in Nat, NEW n \in Nat, m % S = n % S, m < n
  PROVE  m + S <= n
<1>1. PICK a \in Int, r \in 0 .. S - 1 : m = S * a + r /\ r = m % S
  BY DivMod
<1>2. PICK b \in Int : n = S * b + r
  BY DivMod, <1>1
<1>3. S * a < S * b
  BY <1>1, <1>2
<1>4. a < b
  <2> SUFFICES ASSUME b <= a PROVE FALSE
    BY <1>1, <1>2
  <2>1. CASE a = b
    BY <1>3, <2>1
  <2>2. CASE a - b \in Nat \ {0}
    <3>1. S * (a - b) \in Nat \ {0}
      BY <2>2, PosProd
    <3>2. S * (a - b) + S * b = S * ((a - b) + b)
      BY Distr
    <3> QED
      BY <1>3, <3>1, <3>2
  <2> QED
    BY <2>1, <2>2
<1>5. S * b >= S * a + S
  <2>1. CASE b = a + 1
    BY <2>1, Distr
  <2>2. CASE b - a - 1 \in Nat \ {0}
    <3>1. S * (b - a - 1) \in Nat \ {0}
      BY <2>2, PosProd
    <3>2. S * (b - a - 1) + S * (a + 1) = S * ((b - a - 1) + (a + 1))
      BY Distr
    <3>3. S * (a + 1) = S * a + S * 1
      BY Distr
    <3> QED
      BY <3>1, <3>2, <3>3
  <2> QED
    BY <1>4, <2>1, <2>2
<1> QED
  BY <1>1, <1>2, <1>5

(* The difference of two remainders is that of the numbers, up to a        *)
(* multiple of the divisor.                                                *)
LEMMA ModDifference ==
  ASSUME NEW S \in Nat \ {0}, NEW m \in Nat, NEW n \in Nat
  PROVE  \E q \in Int : (m % S) - (n % S) = S * q + (m - n)
<1>1. PICK a \in Int, u \in 0 .. S - 1 : m = S * a + u /\ u = m % S
  BY DivMod
<1>2. PICK b \in Int, w \in 0 .. S - 1 : n = S * b + w /\ w = n % S
  BY DivMod
<1>3. PICK q \in Int : q + a = b
  <2>1. b - a \in Int /\ (b - a) + a = b
    OBVIOUS
  <2> QED
    BY <2>1
<1>4. S * q + S * a = S * b
  BY <1>3, Distr
<1>5. PICK A \in Int, B \in Int, Q \in Int : A = S * a /\ B = S * b /\ Q = S * q
  <2>1. S * q \in Int /\ S * a \in Int /\ S * b \in Int
    OBVIOUS
  <2> QED
    BY <2>1
<1>6. m = A + u /\ n = B + w /\ Q + A = B
  BY <1>1, <1>2, <1>4, <1>5
<1>7. u - w = Q + (m - n)
  BY <1>6
<1> QED
  BY <1>1, <1>2, <1>5, <1>7

(* A difference that is at most half the divisor, either way, can be told  *)
(* from the difference of the remainders.                                  *)
LEMMA NearDifference ==
  ASSUME NEW S \in Nat \ {0}, NEW m \in Nat, NEW n \in Nat
  PROVE  /\ m - n \in 0 .. S - 1 => ((m % S) - (n % S)) % S = m - n
         /\ n - m \in 1 .. S => ((m % S) - (n % S)) % S = S - (n - m)
<1>1. PICK q \in Int, x \in Int : x = (m % S) - (n % S) /\ x = S * q + (m - n)
  <2>1. (m % S) - (n % S) \in Int
    BY DivMod
  <2> QED
    BY <2>1, ModDifference
<1>2. ASSUME m - n \in 0 .. S - 1 PROVE x % S = m - n
  <2>1. x = S * q + (m - n)
    BY <1>1
  <2> QED
    BY <1>2, <2>1, DivUnique
<1>3. ASSUME n - m \in 1 .. S PROVE x % S = S - (n - m)
  <2>1. PICK p \in Int : p + 1 = q
    <3>1. q - 1 \in Int /\ (q - 1) + 1 = q
      OBVIOUS
    <3> QED
      BY <3>1
  <2>2. S * p + S * 1 = S * q /\ S * 1 = S
    BY <2>1, Distr
  <2>3. PICK r \in 0 .. S - 1 : r = S - (n - m)
    BY <1>3
  <2>4. x = S * p + r
    <3>1. S * p \in Int /\ S * q \in Int
      OBVIOUS
    <3>2. x = S * q + (m - n)
      BY <1>1
    <3> QED
      BY <2>2, <2>3, <3>1, <3>2
  <2>5. x % S = r
    BY <2>4, DivUnique
  <2> QED
    BY <2>3, <2>5
<1> QED
  BY <1>1, <1>2, <1>3

(* To take more away leaves less.                                          *)
LEMMA DifferenceLess ==
  ASSUME NEW h \in Nat, NEW t \in Nat, NEW u \in Nat, NEW s \in Nat, h - t < s, t <= u
  PROVE  h - u < s
  OBVIOUS

-----------------------------------------------------------------------------
(* The two lowest digits of n to some base, exchanged: what remap_index in *)
(* atomic_queue.h does with the ticket of a push or a pop (run remap).     *)
Exchanged(base, n) ==
    LET low == n % base
        next == (n \div base) % base
    IN  n - low - base * next + base * low + next

(* Digits tell a number.                                                   *)
LEMMA Digits ==
  ASSUME NEW base \in Nat \ {0}, NEW q \in Nat, NEW low \in 0 .. base - 1
  PROVE  /\ base * q + low \in Nat
         /\ (base * q + low) % base = low
         /\ (base * q + low) \div base = q
<1>1. PICK p \in Nat : p = base * q
  OBVIOUS
<1>2. PICK n \in Nat : n = p + low /\ n = base * q + low
  BY <1>1
<1>3. n % base = low
  <2>1. n = base * q + low /\ n \in Int /\ q \in Int
    BY <1>2
  <2> QED
    BY <2>1, DivUnique
<1>4. n = base * (n \div base) + low /\ n \div base \in Int
  BY <1>3, DivMod
<1>5. n \div base = q
  <2>1. PICK d \in Int : d = n \div base /\ base * d = base * q
    <3>1. base * (n \div base) \in Int
      BY <1>4
    <3> QED
      BY <1>1, <1>2, <1>4, <3>1
  <2>2. PICK e \in Int : e = d - q /\ e + q = d
    BY <2>1
  <2>3. base * e + base * q = base * d
    BY <2>2, Distr
  <2>4. base * e = 0
    BY <1>1, <2>1, <2>3
  <2>5. e \notin Nat \ {0}
    BY <2>4, PosProd
  <2>6. - e \notin Nat \ {0}
    <3>1. base * (- e) = - (base * e)
      OBVIOUS
    <3> QED
      BY <2>4, <3>1, PosProd
  <2> QED
    BY <2>1, <2>2, <2>5, <2>6
<1> QED
  BY <1>2, <1>3, <1>5

(* What is exchanged, digit by digit.                                      *)
LEMMA ExchangedIs ==
  ASSUME NEW base \in Nat \ {0}, NEW n \in Nat
  PROVE  \E q \in Nat, low \in 0 .. base - 1, next \in 0 .. base - 1 :
            /\ low = n % base
            /\ n = base * (base * q + next) + low
            /\ Exchanged(base, n) = base * (base * q + low) + next
            /\ Exchanged(base, n) \in Nat
<1>1. PICK low \in 0 .. base - 1, m \in Nat : n = base * m + low /\ low = n % base /\ m = n \div base
  <2>1. n % base \in 0 .. base - 1 /\ n = base * (n \div base) + (n % base)
    BY DivMod
  <2>2. n \div base \in Nat
    OBVIOUS
  <2> QED
    BY <2>1, <2>2
<1>2. PICK next \in 0 .. base - 1, q \in Nat : m = base * q + next /\ next = m % base
  <2>1. m % base \in 0 .. base - 1 /\ m = base * (m \div base) + (m % base)
    BY DivMod
  <2>2. m \div base \in Nat
    OBVIOUS
  <2> QED
    BY <2>1, <2>2
<1>3. Exchanged(base, n) = n - low - base * next + base * low + next
  BY <1>1, <1>2 DEF Exchanged
<1>4. PICK B \in Nat, N \in Nat, L \in Nat : B = base * (base * q) /\ N = base * next /\ L = base * low
  <2>1. base * q \in Nat /\ base * (base * q) \in Nat /\ base * next \in Nat /\ base * low \in Nat
    OBVIOUS
  <2> QED
    BY <2>1
<1>5. base * (base * q + next) = B + N /\ base * (base * q + low) = B + L
  <2>1. base * q \in Int
    OBVIOUS
  <2> QED
    BY <1>4, <2>1, Distr
<1>6. n = B + N + low
  BY <1>1, <1>2, <1>5
<1>7. Exchanged(base, n) = B + L + next
  <2>1. Exchanged(base, n) = n - low - N + L + next
    BY <1>3, <1>4
  <2> QED
    BY <1>6, <2>1
<1>8. /\ n = base * (base * q + next) + low
      /\ Exchanged(base, n) = base * (base * q + low) + next
  BY <1>5, <1>6, <1>7
<1>9. Exchanged(base, n) \in Nat
  BY <1>7
<1> QED
  BY <1>1, <1>8, <1>9

(* Exchanging twice changes nothing.                                       *)
LEMMA ExchangedTwice ==
  ASSUME NEW base \in Nat \ {0}, NEW n \in Nat
  PROVE  Exchanged(base, Exchanged(base, n)) = n
<1>1. PICK q \in Nat, low \in 0 .. base - 1, next \in 0 .. base - 1 :
          /\ low = n % base
          /\ n = base * (base * q + next) + low
          /\ Exchanged(base, n) = base * (base * q + low) + next
          /\ Exchanged(base, n) \in Nat
  BY ExchangedIs
<1>2. PICK m \in Nat : m = Exchanged(base, n)
  BY <1>1
<1>3. PICK d \in Nat : d = base * q + low /\ d % base = low /\ d \div base = q
  BY Digits
<1>4. m % base = next /\ m \div base = d
  <2>1. m = base * d + next
    BY <1>1, <1>2, <1>3
  <2> QED
    BY <2>1, Digits
<1>5. PICK e \in Nat : e = base * q + next
  BY Digits
<1>6. PICK N \in Int, L \in Int, B \in Int : N = base * next /\ L = base * low /\ B = base * (base * q)
  <2>1. base * next \in Int /\ base * low \in Int /\ base * (base * q) \in Int
    OBVIOUS
  <2> QED
    BY <2>1
<1>7. Exchanged(base, m) = m - next - L + N + low
  BY <1>3, <1>4, <1>6 DEF Exchanged
<1>8. base * d = B + L /\ base * e = B + N
  <2>1. base * q \in Int
    OBVIOUS
  <2> QED
    BY <1>3, <1>5, <1>6, <2>1, Distr
<1>9. m = B + L + next /\ n = B + N + low
  BY <1>1, <1>2, <1>3, <1>5, <1>8
<1> QED
  BY <1>2, <1>7, <1>9

(* What it keeps: which block of base * base numbers it is in.             *)
LEMMA ExchangedWithin ==
  ASSUME NEW base \in Nat \ {0}, NEW K \in Nat, NEW n \in Nat, n < base * (base * K)
  PROVE  Exchanged(base, n) \in Nat /\ Exchanged(base, n) < base * (base * K)
<1>1. PICK q \in Nat, low \in 0 .. base - 1, next \in 0 .. base - 1 :
          /\ low = n % base
          /\ n = base * (base * q + next) + low
          /\ Exchanged(base, n) = base * (base * q + low) + next
          /\ Exchanged(base, n) \in Nat
  BY ExchangedIs
(* base times something, and a digit *)
<1>2. ASSUME NEW x \in Nat, NEW y \in Nat, NEW d \in 0 .. base - 1
      PROVE  base * x + d < base * y <=> x < y
  <2>1. CASE x < y
    <3>1. PICK z \in Nat : x + 1 + z = y
      <4>1. y - x - 1 \in Nat /\ x + 1 + (y - x - 1) = y
        BY <2>1
      <4> QED
        BY <4>1
    <3>2. base * (x + 1) + base * z = base * y /\ base * x + base * 1 = base * (x + 1)
      BY <3>1, Distr
    <3>3. base * z \in Nat /\ base * x \in Nat /\ base * 1 = base
      OBVIOUS
    <3> QED
      BY <2>1, <3>2, <3>3
  <2>2. CASE ~(x < y)
    <3>1. PICK z \in Nat : y + z = x
      <4>1. x - y \in Nat /\ y + (x - y) = x
        BY <2>2
      <4> QED
        BY <4>1
    <3>2. base * y + base * z = base * x
      BY <3>1, Distr
    <3>3. base * z \in Nat /\ base * y \in Nat
      OBVIOUS
    <3> QED
      BY <2>2, <3>2, <3>3
  <2> QED
    BY <2>1, <2>2
<1>3. base * q + next \in Nat /\ base * q + low \in Nat /\ base * K \in Nat
  BY Digits
<1>4. base * q + next < base * K
  BY <1>1, <1>2, <1>3
<1>5. q < K
  BY <1>2, <1>4
<1>6. base * q + low < base * K
  BY <1>2, <1>5
<1>7. base * (base * q + low) + next < base * (base * K)
  BY <1>2, <1>3, <1>6
<1> QED
  BY <1>1, <1>7

(* The exchange is a permutation of the slots of every ring whose size the *)
(* square of the base divides: no two tickets of a lap share a slot.       *)
THEOREM ExchangePermutes ==
  ASSUME NEW base \in Nat \ {0}, NEW K \in Nat,
         NEW Remap, Remap = [i \in 0 .. base * (base * K) - 1 |-> Exchanged(base, i)]
  PROVE  /\ Remap \in [0 .. base * (base * K) - 1 -> 0 .. base * (base * K) - 1]
         /\ \A i, j \in 0 .. base * (base * K) - 1 : Remap[i] = Remap[j] => i = j
<1>1. PICK size \in Nat : size = base * (base * K)
  <2>1. base * K \in Nat /\ base * (base * K) \in Nat
    OBVIOUS
  <2> QED
    BY <2>1
<1>2. ASSUME NEW i \in 0 .. size - 1
      PROVE  i \in Nat /\ Exchanged(base, i) \in 0 .. size - 1
  <2>1. i \in Nat /\ i < base * (base * K)
    BY <1>1
  <2>2. Exchanged(base, i) \in Nat /\ Exchanged(base, i) < size
    BY <1>1, <2>1, ExchangedWithin
  <2> QED
    BY <2>1, <2>2
<1>3. ASSUME NEW i \in 0 .. size - 1, NEW j \in 0 .. size - 1, Exchanged(base, i) = Exchanged(base, j)
      PROVE  i = j
  <2>1. Exchanged(base, Exchanged(base, i)) = i /\ Exchanged(base, Exchanged(base, j)) = j
    BY <1>2, ExchangedTwice
  <2> QED
    BY <1>3, <2>1
<1> QED
  BY <1>1, <1>2, <1>3

(* Numbers whose lowest digits differ go to different lines of base slots. *)
LEMMA ExchangeParts ==
  ASSUME NEW base \in Nat \ {0}, NEW m \in Nat, NEW n \in Nat, m % base # n % base
  PROVE  Exchanged(base, m) \div base # Exchanged(base, n) \div base
<1>1. ASSUME NEW x \in Nat
      PROVE  (Exchanged(base, x) \div base) % base = x % base
  <2>1. PICK q \in Nat, low \in 0 .. base - 1, next \in 0 .. base - 1 :
            /\ low = x % base
            /\ x = base * (base * q + next) + low
            /\ Exchanged(base, x) = base * (base * q + low) + next
            /\ Exchanged(base, x) \in Nat
    BY ExchangedIs
  <2>2. PICK d \in Nat : d = base * q + low /\ d % base = low
    BY Digits
  <2>3. Exchanged(base, x) \div base = d
    <3>1. Exchanged(base, x) = base * d + next
      BY <2>1, <2>2
    <3>2. (base * d + next) \div base = d
      BY Digits
    <3> QED
      BY <3>1, <3>2
  <2> QED
    BY <2>1, <2>2, <2>3
<1> QED
  BY <1>1

(* The slots of a ticket and of the next one are in different cache lines, *)
(* in every ring that is shuffled and also round its end.                  *)
THEOREM NeighboursPart ==
  ASSUME NEW base \in Nat \ {0, 1}, NEW K \in Nat \ {0}, NEW ticket \in Nat,
         NEW size, size = base * (base * K)
  PROVE  Exchanged(base, ticket % size) \div base # Exchanged(base, (ticket + 1) % size) \div base
<1>1. PICK b \in Nat \ {0}, k \in Nat \ {0} : b = base /\ k = base * K /\ size = b * k /\ b > 1
  <2>1. base * K \in Nat \ {0}
    BY PosProd
  <2> QED
    BY <2>1
<1>2. size \in Nat \ {0}
  BY <1>1, PosProd
<1>3. ticket % size \in Nat /\ (ticket + 1) % size \in Nat
  BY <1>2, DivMod
<1>4. PICK next \in Nat : next = ticket + 1
  OBVIOUS
<1>5. \A n \in Nat : (n % size) % b = n % b
  <2>1. \A n \in Nat : (n % (b * k)) % b = n % b
    BY ModMod
  <2> QED
    BY <1>1, <2>1
<1>6. ticket % b # next % b
  <2> SUFFICES ASSUME ticket % b = next % b PROVE FALSE
    OBVIOUS
  <2>1. ticket < next
    BY <1>4
  <2>2. ticket + b <= next
    BY <2>1, ModApart
  <2> QED
    BY <1>1, <1>4, <2>2
<1>7. (ticket % size) % base # (next % size) % base
  BY <1>1, <1>5, <1>6
<1>8. next % size \in Nat
  BY <1>3, <1>4
<1>9. Exchanged(base, ticket % size) \div base # Exchanged(base, next % size) \div base
  BY <1>3, <1>7, <1>8, ExchangeParts
<1> QED
  BY <1>4, <1>9

=============================================================================
