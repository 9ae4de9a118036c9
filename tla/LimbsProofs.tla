----------------------------- MODULE LimbsProofs -----------------------------
(***************************************************************************)
(* Lemmas about words and limbs: division with remainder, the digits of an *)
(* integer, and the multiple of an odd modulus that clears a limb; then    *)
(* about the operations of ModOps: what the modular corrections return,    *)
(* congruences and the residue that a Montgomery form stands for, what the *)
(* routines on forms return, halving, the parameters, repeated squaring;   *)
(* then about long division: the reciprocal of two words, a quotient digit *)
(* and its correction, the loop from the high end, the weights of bits,    *)
(* the inverse of an odd word and the loop of exact division from the low  *)
(* end; then about the rows of products and squares in a buffer; then      *)
(* about sums and differences limb by limb, the bits of words and the      *)
(* leading zeros of an integer.  Every proof about the crate's loops rests *)
(* on these.                                                               *)
(***************************************************************************)
EXTENDS ModOps, WellFoundedInduction, TLAPS

----------------------------------------------------------------------------
(* Division with remainder.                                                *)

\* What \div and % of an integer by a positive number are.
LEMMA DivMod ==
    ASSUME NEW a \in Int, NEW b \in Nat, b > 0
    PROVE  /\ a \div b \in Int /\ a % b \in Nat /\ a % b < b
           /\ a = b * (a \div b) + (a % b)
           /\ a >= 0 => a \div b \in Nat
    BY SMT

\* Multiplication by a number keeps an order, and a strict order comes back.
LEMMA Monotone ==
    ASSUME NEW a \in Int, NEW b \in Int, NEW c \in Nat, a <= b
    PROVE  c * a <= c * b
    BY SMT

\* A positive common factor can be cancelled.
LEMMA Cancel ==
    ASSUME NEW a \in Int, NEW b \in Int, NEW c \in Nat, c * a < c * b
    PROVE  a < b
    BY SMT

\* The same of an equality.
LEMMA CancelEqual ==
    ASSUME NEW a \in Int, NEW b \in Int, NEW c \in Nat, c > 0, c * a = c * b
    PROVE  a = b
    BY SMT

\* Quotient and remainder are unique.
LEMMA UniqueDivision ==
    ASSUME NEW b \in Nat, b > 0,
           NEW q1 \in Int, NEW r1 \in 0..(b - 1),
           NEW q2 \in Int, NEW r2 \in 0..(b - 1),
           b * q1 + r1 = b * q2 + r2
    PROVE  q1 = q2 /\ r1 = r2
<1>1. b * (q1 - q2) = r2 - r1
  BY SMT
<1>2. ~(q1 - q2 >= 1)
  <2>1. ASSUME q1 - q2 >= 1 PROVE FALSE
    <3>1. b * (q1 - q2) >= b
      BY <2>1, SMT
    <3> QED
      BY <3>1, <1>1, SMT
  <2> QED
    BY <2>1
<1>3. ~(q2 - q1 >= 1)
  <2>1. ASSUME q2 - q1 >= 1 PROVE FALSE
    <3>1. b * (q2 - q1) >= b
      BY <2>1, SMT
    <3>2. b * (q2 - q1) = r1 - r2
      BY SMT
    <3> QED
      BY <3>1, <3>2, SMT
  <2> QED
    BY <2>1
<1>4. q1 = q2
  BY <1>2, <1>3, SMT
<1> QED
  BY <1>4, <1>1, SMT

\* So an integer given as quotient and remainder divides that way.
LEMMA DivisionIs ==
    ASSUME NEW a \in Int, NEW b \in Nat, b > 0,
           NEW q \in Int, NEW r \in 0..(b - 1), a = b * q + r
    PROVE  a \div b = q /\ a % b = r
<1>1. /\ a \div b \in Int /\ a % b \in 0..(b - 1)
      /\ a = b * (a \div b) + (a % b)
  BY DivMod, SMT
<1> DEFINE d == a \div b
           e == a % b
<1>2. d \in Int /\ e \in 0..(b - 1) /\ b * d + e = b * q + r
  BY <1>1
<1> HIDE DEF d, e
<1>3. d = q /\ e = r
  BY <1>2, UniqueDivision
<1> QED
  BY <1>3 DEF d, e

\* The remainder by b*w: the low part, and one more digit.
LEMMA RemainderSplits ==
    ASSUME NEW a \in Nat, NEW b \in Nat, NEW w \in Nat, b > 0, w > 0
    PROVE  a % (b * w) = (a % w) + w * ((a \div w) % b)
<1> DEFINE q == a \div w
           r == a % w
           q1 == q \div b
           r1 == q % b
           c == b * w
           s == w * r1 + r
<1>1. q \in Nat /\ r \in Nat /\ r < w /\ a = w * q + r
  BY DivMod
<1>2. q1 \in Nat /\ r1 \in Nat /\ r1 < b /\ q = b * q1 + r1
  BY DivMod, <1>1
<1>3. c \in Nat /\ c > 0
  BY SMT
<1> HIDE DEF q, r, q1, r1
<1>4. a = c * q1 + s
  <2>1. w * q = w * (b * q1 + r1)
    BY <1>2
  <2>2. w * (b * q1 + r1) = (b * w) * q1 + w * r1
    BY <1>1, <1>2, SMT
  <2> QED
    BY <2>1, <2>2, <1>1, <1>2, SMT
<1>5. s \in 0..(c - 1)
  <2>1. w * r1 <= w * (b - 1)
    BY <1>2, Monotone, SMT
  <2>2. w * (b - 1) = b * w - w
    BY SMT
  <2>3. w * r1 \in Nat
    BY <1>2, SMT
  <2> QED
    BY <2>1, <2>2, <1>1, <2>3, SMT
<1> HIDE DEF c, s
<1>6. a % c = s
  BY <1>2, <1>3, <1>4, <1>5, DivisionIs
<1> QED
  BY <1>6 DEF c, s, q, r, r1

----------------------------------------------------------------------------
(* Induction over the natural numbers, stated of a set of numbers.         *)

\* A set of naturals with 0 that is closed under successor holds them all:
\* the least number outside it would have a predecessor in it.
LEMMA SetInduction ==
    ASSUME NEW S \in SUBSET Nat, 0 \in S, \A n \in S : n + 1 \in S
    PROVE  S = Nat
<1> DEFINE T == Nat \ S
           L == OpToRel(<, Nat)
<1> SUFFICES ASSUME T # {} PROVE FALSE
  OBVIOUS
<1>1. IsWellFoundedOn(L, Nat)
  BY NatLessThanWellFounded
<1>2. PICK x \in T : \A y \in T : ~(<<y, x>> \in L)
  <2>1. T \subseteq Nat
    OBVIOUS
  <2> HIDE DEF T, L
  <2> QED
    BY <1>1, <2>1, WFMin
<1>3. x \in Nat /\ x # 0
  OBVIOUS
<1>4. x - 1 \in S
  <2>1. x - 1 \in Nat /\ x - 1 < x
    BY <1>3, SMT
  <2>2. <<x - 1, x>> \in L
    BY <2>1, <1>3 DEF OpToRel
  <2> QED
    BY <2>1, <2>2, <1>2
<1>5. (x - 1) + 1 \in S
  BY <1>4
<1> QED
  BY <1>3, <1>5, SMT

----------------------------------------------------------------------------
(* Functions defined by recursion on 0..n.                                 *)

\* f starts at a, and each of its values is what F makes of the one before.
IsRecursion(f, S, a, n, F) ==
    /\ f \in [0..n -> S]
    /\ f[0] = a
    /\ \A j \in 1..n : f[j] = F[j][f[j - 1]]

\* No step of F leaves S.
Closed(F, S) == \A j \in Nat : \A v \in S : F[j][v] \in S

\* A function that starts in a set and whose steps stay in it has its values
\* there.
LEMMA RecursionStaysIn ==
    ASSUME NEW S, NEW n \in Nat, NEW f, f[0] \in S,
           \A j \in 1..n : f[j - 1] \in S => f[j] \in S
    PROVE  \A j \in 0..n : f[j] \in S
<1> DEFINE T == {j \in Nat : j <= n => f[j] \in S}
<1>1. 0 \in T
  OBVIOUS
<1>2. ASSUME NEW j \in T PROVE j + 1 \in T
  <2>1. CASE j + 1 <= n
    <3>1. j \in Nat /\ j <= n /\ j + 1 \in 1..n /\ (j + 1) - 1 = j
      BY <2>1, SMT
    <3>2. f[(j + 1) - 1] \in S
      BY <3>1
    <3> QED
      BY <3>1, <3>2
  <2>2. CASE ~(j + 1 <= n)
    BY <2>2
  <2> QED
    BY <2>1, <2>2
<1>3. T = Nat
  <2> HIDE DEF T
  <2>1. T \in SUBSET Nat
    BY DEF T
  <2> QED
    BY <1>1, <1>2, <2>1, SetInduction
<1>4. ASSUME NEW j \in 0..n PROVE f[j] \in S
  <2>1. j \in T /\ j <= n
    BY <1>3, SMT
  <2> QED
    BY <2>1
<1> QED
  BY <1>4

\* The function that a recursive definition names exists.
LEMMA RecursionExists ==
    ASSUME NEW S, NEW a \in S, NEW n \in Nat, NEW F, Closed(F, S)
    PROVE  \E f : IsRecursion(f, S, a, n, F)
<1> DEFINE T == {l \in Nat : \E f : IsRecursion(f, S, a, l, F)}
<1>1. 0 \in T
  <2> DEFINE f == [j \in 0..0 |-> a]
  <2>1. f \in [0..0 -> S] /\ f[0] = a
    BY SMT
  <2>2. IsRecursion(f, S, a, 0, F)
    BY <2>1, SMT DEF IsRecursion
  <2> HIDE DEF f
  <2> QED
    BY <2>2
<1>2. ASSUME NEW l \in T PROVE l + 1 \in T
  <2>1. l \in Nat /\ l + 1 \in Nat
    OBVIOUS
  <2>2. PICK f : IsRecursion(f, S, a, l, F)
    OBVIOUS
  <2> DEFINE g == [j \in 0..(l + 1) |->
                      IF j = l + 1 THEN F[l + 1][f[l]] ELSE f[j]]
  <2>3. g \in [0..(l + 1) -> S]
    <3>1. f \in [0..l -> S] /\ f[l] \in S
      BY <2>1, <2>2, SMT DEF IsRecursion
    <3>2. F[l + 1][f[l]] \in S
      BY <2>1, <3>1 DEF Closed
    <3> QED
      BY <2>1, <3>1, <3>2, SMT
  <2>4. g[0] = a
    BY <2>1, <2>2, SMT DEF IsRecursion
  <2>5. ASSUME NEW j \in 1..(l + 1) PROVE g[j] = F[j][g[j - 1]]
    <3>1. CASE j = l + 1
      BY <2>1, <3>1, SMT
    <3>2. CASE j # l + 1
      BY <2>1, <2>2, <3>2, SMT DEF IsRecursion
    <3> QED
      BY <3>1, <3>2
  <2> HIDE DEF g
  <2>6. IsRecursion(g, S, a, l + 1, F)
    BY <2>3, <2>4, <2>5 DEF IsRecursion
  <2> QED
    BY <2>1, <2>6
<1>3. T = Nat
  <2> HIDE DEF T
  <2>1. T \in SUBSET Nat
    BY DEF T
  <2> QED
    BY <1>1, <1>2, <2>1, SetInduction
<1> QED
  BY <1>3

\* And it is the only one, whatever its length.
LEMMA RecursionUnique ==
    ASSUME NEW S, NEW a, NEW n \in Nat, NEW l \in Nat, NEW F, NEW f, NEW g,
           IsRecursion(f, S, a, n, F), IsRecursion(g, S, a, l, F)
    PROVE  \A j \in Nat : j <= n /\ j <= l => f[j] = g[j]
<1> DEFINE T == {j \in Nat : j <= n /\ j <= l => f[j] = g[j]}
<1>1. 0 \in T
  BY DEF IsRecursion
<1>2. ASSUME NEW j \in T PROVE j + 1 \in T
  <2> SUFFICES ASSUME j + 1 <= n, j + 1 <= l PROVE f[j + 1] = g[j + 1]
    OBVIOUS
  <2>1. j \in Nat /\ j <= n /\ j <= l /\ j + 1 \in 1..n /\ j + 1 \in 1..l
        /\ (j + 1) - 1 = j
    BY SMT
  <2>2. f[j] = g[j]
    BY <2>1
  <2> QED
    BY <2>1, <2>2 DEF IsRecursion
<1>3. T = Nat
  <2> HIDE DEF T
  <2>1. T \in SUBSET Nat
    BY DEF T
  <2> QED
    BY <1>1, <1>2, <2>1, SetInduction
<1> QED
  BY <1>3

----------------------------------------------------------------------------
(* Powers of two.                                                          *)

\* One step of the recursion.
Doubling == [j \in Nat |-> [v \in Nat |-> 2 * v]]

\* The function that PowerOfTwo is the last value of.
LEMMA PowersExist ==
    ASSUME NEW n \in Nat
    PROVE  \E p : IsRecursion(p, Nat, 1, n, Doubling) /\ PowerOfTwo(n) = p[n]
<1> DEFINE p == CHOOSE p : p = [e \in 0..n |-> IF e = 0 THEN 1 ELSE 2 * p[e - 1]]
<1>1. Closed(Doubling, Nat)
  BY DEF Closed, Doubling
<1>2. PICK f : IsRecursion(f, Nat, 1, n, Doubling)
  BY <1>1, RecursionExists
<1>3. f = [e \in 0..n |-> IF e = 0 THEN 1 ELSE 2 * f[e - 1]]
  <2>1. f \in [0..n -> Nat] /\ f[0] = 1
        /\ \A j \in 1..n : f[j] = Doubling[j][f[j - 1]]
    BY <1>2 DEF IsRecursion
  <2>2. ASSUME NEW e \in 0..n
        PROVE  f[e] = IF e = 0 THEN 1 ELSE 2 * f[e - 1]
    <3>1. CASE e = 0
      BY <2>1, <3>1
    <3>2. CASE e # 0
      <4>1. e \in Nat /\ e \in 1..n /\ e - 1 \in 0..n
        BY <3>2, SMT
      <4> QED
        BY <2>1, <3>2, <4>1 DEF Doubling
    <3> QED
      BY <3>1, <3>2
  <2> QED
    BY <2>1, <2>2
<1>4. p = [e \in 0..n |-> IF e = 0 THEN 1 ELSE 2 * p[e - 1]]
  BY <1>3
<1>5. PowerOfTwo(n) = p[n]
  BY DEF PowerOfTwo
<1> HIDE DEF p
<1>6. p[0] = 1
  BY <1>4
<1>7. ASSUME NEW j \in 1..n PROVE p[j] = 2 * p[j - 1]
  <2>1. j \in 0..n /\ j # 0
    BY SMT
  <2> QED
    BY <1>4, <2>1
<1>8. \A j \in 0..n : p[j] \in Nat
  <2>1. p[0] \in Nat
    BY <1>6
  <2>2. \A j \in 1..n : p[j - 1] \in Nat => p[j] \in Nat
    BY <1>7, SMT
  <2> QED
    BY <2>1, <2>2, RecursionStaysIn
<1>9. p \in [0..n -> Nat]
  <2>1. p = [e \in 0..n |-> p[e]]
    BY <1>4
  <2> QED
    BY <2>1, <1>8
<1>10. \A j \in 1..n : p[j] = Doubling[j][p[j - 1]]
  <2> SUFFICES ASSUME NEW j \in 1..n PROVE p[j] = Doubling[j][p[j - 1]]
    OBVIOUS
  <2>1. j \in Nat /\ j - 1 \in 0..n
    BY SMT
  <2> QED
    BY <1>7, <1>8, <2>1 DEF Doubling
<1>11. IsRecursion(p, Nat, 1, n, Doubling)
  BY <1>6, <1>9, <1>10 DEF IsRecursion
<1> QED
  BY <1>5, <1>11

\* Powers of two are positive and double.
LEMMA PowerDoubles ==
    ASSUME NEW n \in Nat
    PROVE  /\ PowerOfTwo(n) \in Nat /\ PowerOfTwo(n) > 0
           /\ PowerOfTwo(0) = 1
           /\ PowerOfTwo(n + 1) = 2 * PowerOfTwo(n)
<1> DEFINE S == {e \in Nat : PowerOfTwo(e) \in Nat /\ PowerOfTwo(e) > 0}
<1>1. PowerOfTwo(0) = 1
  BY PowersExist DEF IsRecursion
<1>2. ASSUME NEW e \in Nat PROVE PowerOfTwo(e + 1) = 2 * PowerOfTwo(e)
  <2>1. PICK p : IsRecursion(p, Nat, 1, e, Doubling) /\ PowerOfTwo(e) = p[e]
    BY PowersExist
  <2>2. e + 1 \in Nat /\ e + 1 \in 1..(e + 1) /\ (e + 1) - 1 = e
        /\ e <= e /\ e <= e + 1 /\ e \in 0..e /\ e \in 0..(e + 1)
    BY SMT
  <2>3. PICK g : IsRecursion(g, Nat, 1, e + 1, Doubling)
                 /\ PowerOfTwo(e + 1) = g[e + 1]
    BY <2>2, PowersExist
  <2>4. p[e] = g[e]
    BY <2>1, <2>2, <2>3, RecursionUnique
  <2>5. g[e] \in Nat /\ g[e + 1] = Doubling[e + 1][g[e]]
    BY <2>2, <2>3 DEF IsRecursion
  <2> QED
    BY <2>1, <2>2, <2>3, <2>4, <2>5 DEF Doubling
<1>3. S = Nat
  <2>1. 0 \in S
    BY <1>1, SMT
  <2>2. \A e \in S : e + 1 \in S
    BY <1>2, SMT
  <2>3. S \in SUBSET Nat
    OBVIOUS
  <2> HIDE DEF S
  <2> QED
    BY <2>1, <2>2, <2>3, SetInduction
<1> QED
  BY <1>1, <1>2, <1>3

\* Exponents add up.
LEMMA PowersMultiply ==
    ASSUME NEW d \in Nat, NEW e \in Nat
    PROVE  PowerOfTwo(d + e) = PowerOfTwo(d) * PowerOfTwo(e)
<1> DEFINE S == {c \in Nat : PowerOfTwo(d + c) = PowerOfTwo(d) * PowerOfTwo(c)}
<1>1. 0 \in S
  <2>1. d + 0 = d /\ PowerOfTwo(d) \in Nat /\ PowerOfTwo(0) = 1
    BY PowerDoubles, SMT
  <2> QED
    BY <2>1, SMT
<1>2. ASSUME NEW c \in S PROVE c + 1 \in S
  <2>1. c \in Nat /\ d + c \in Nat /\ (d + c) + 1 = d + (c + 1)
    BY SMT
  <2>2. PowerOfTwo(d) \in Nat /\ PowerOfTwo(c) \in Nat
        /\ PowerOfTwo(c + 1) = 2 * PowerOfTwo(c)
        /\ PowerOfTwo((d + c) + 1) = 2 * PowerOfTwo(d + c)
    BY <2>1, PowerDoubles
  <2>3. PowerOfTwo(d + c) = PowerOfTwo(d) * PowerOfTwo(c)
    OBVIOUS
  <2>4. 2 * (PowerOfTwo(d) * PowerOfTwo(c)) = PowerOfTwo(d) * (2 * PowerOfTwo(c))
    BY <2>2, SMT
  <2> QED
    BY <2>1, <2>2, <2>3, <2>4
<1>3. S = Nat
  <2>1. S \in SUBSET Nat
    OBVIOUS
  <2> HIDE DEF S
  <2> QED
    BY <1>1, <1>2, <2>1, SetInduction
<1> QED
  BY <1>3

\* And a larger exponent gives a larger power.
LEMMA PowersGrow ==
    ASSUME NEW d \in Nat, NEW e \in Nat, d <= e
    PROVE  PowerOfTwo(d) <= PowerOfTwo(e)
<1>1. e - d \in Nat /\ d + (e - d) = e
  BY SMT
<1>2. PowerOfTwo(e) = PowerOfTwo(d) * PowerOfTwo(e - d)
  BY <1>1, PowersMultiply
<1> DEFINE x == PowerOfTwo(d)
           y == PowerOfTwo(e - d)
<1>3. x \in Nat /\ y \in Nat /\ 1 <= y /\ PowerOfTwo(e) = x * y
  BY <1>1, <1>2, PowerDoubles, SMT
<1> HIDE DEF x, y
<1>4. x * 1 <= x * y
  BY <1>3, Monotone
<1> QED
  BY <1>3, <1>4, SMT DEF x

----------------------------------------------------------------------------
(* Weights and limbs.                                                      *)

\* The base is at least two, and the weights are positive powers of it.
LEMMA BaseFacts ==
    /\ B \in Nat /\ B >= 2
    /\ N \in Nat /\ N >= 1
    /\ R \in Nat /\ R > 0
<1>1. B \in Nat /\ B >= 2
  BY BaseAssumption, SMT DEF B
<1>2. N \in Nat /\ N >= 1 /\ N \in 0..(2 * N)
  BY LimbsAssumption, SMT
<1>3. R \in Nat /\ R > 0
  BY <1>2, WeightAssumption DEF R
<1> QED
  BY <1>1, <1>2, <1>3

\* The weights of the limbs are positive and grow by the word base.
LEMMA WeightFacts ==
    ASSUME NEW i \in 0..(2 * N)
    PROVE  /\ W[i] \in Nat /\ W[i] > 0
           /\ i < 2 * N => W[i + 1] = B * W[i]
    BY LimbsAssumption, WeightAssumption, SMT

\* A limb is a word.
LEMMA LimbType ==
    ASSUME NEW x \in Nat, NEW i \in 0..(2 * N)
    PROVE  Limb(x, i) \in Word
<1>1. W[i] \in Nat /\ W[i] > 0
  BY WeightFacts
<1>2. x \div W[i] \in Nat
  BY <1>1, DivMod
<1>3. B \in Nat /\ B > 0
  BY BaseFacts
<1> QED
  BY <1>2, <1>3, DivMod, SMT DEF Limb, Word

\* The low i + 1 limbs are the low i limbs and limb i.
LEMMA LowLimbs ==
    ASSUME NEW x \in Nat, NEW i \in 0..(2 * N - 1)
    PROVE  x % W[i + 1] = (x % W[i]) + W[i] * Limb(x, i)
<1>1. /\ W[i] \in Nat /\ W[i] > 0
      /\ W[i + 1] = B * W[i]
  BY LimbsAssumption, WeightFacts, SMT
<1>2. B \in Nat /\ B > 0
  BY BaseFacts
<1>3. x % (B * W[i]) = (x % W[i]) + W[i] * ((x \div W[i]) % B)
  BY <1>1, <1>2, RemainderSplits
<1> QED
  BY <1>1, <1>3 DEF Limb

\* The whole limbs above a limb are the limbs from it upward, without it.
LEMMA HighLimbs ==
    ASSUME NEW x \in Nat, NEW i \in 0..(2 * N - 1)
    PROVE  /\ x \div W[i] \in Nat
           /\ x \div W[i] = B * (x \div W[i + 1]) + Limb(x, i)
           /\ x \div W[i + 1] = (x \div W[i]) \div B
<1> DEFINE h == x \div W[i]
           q == h \div B
           l == h % B
           r == x % W[i]
<1>1. /\ W[i] \in Nat /\ W[i] > 0 /\ W[i + 1] = B * W[i]
      /\ W[i + 1] \in Nat /\ W[i + 1] > 0
  BY LimbsAssumption, WeightFacts, SMT
<1>2. B \in Nat /\ B > 0
  BY BaseFacts
<1>3. h \in Nat /\ r \in 0..(W[i] - 1) /\ x = W[i] * h + r
  BY <1>1, DivMod, SMT
<1>4. q \in Nat /\ l \in 0..(B - 1) /\ h = B * q + l
  <2> HIDE DEF h
  <2>1. /\ h \div B \in Nat /\ h % B \in 0..(B - 1)
        /\ h = B * (h \div B) + (h % B)
    BY <1>2, <1>3, DivMod, SMT
  <2> QED
    BY <2>1
<1>5. x % W[i + 1] = r + W[i] * l
  BY LowLimbs DEF Limb
<1>6. x % W[i + 1] \in 0..(W[i + 1] - 1)
  BY <1>1, DivMod, SMT
<1> HIDE DEF h, q, l, r
<1>7. x = W[i + 1] * q + (r + W[i] * l)
  BY <1>1, <1>2, <1>3, <1>4, SMT
<1> DEFINE s == r + W[i] * l
<1>8. x \div W[i + 1] = q
  <2>1. s \in 0..(W[i + 1] - 1) /\ x = W[i + 1] * q + s
    BY <1>5, <1>6, <1>7
  <2>2. x \in Int /\ q \in Int
    BY <1>4, SMT
  <2> HIDE DEF s
  <2> QED
    BY <2>1, <2>2, <1>1, DivisionIs
<1> QED
  BY <1>3, <1>4, <1>8 DEF h, q, l, Limb

\* The weights of two limbs multiply to that of the limb as far up as both.
LEMMA WeightsMultiply ==
    ASSUME NEW i \in 0..(2 * N), NEW j \in 0..(2 * N), i + j <= 2 * N
    PROVE  W[i + j] = W[i] * W[j]
<1> DEFINE S == {c \in Nat : i + c <= 2 * N => W[i + c] = W[i] * W[c]}
<1>1. i \in Nat /\ j \in Nat /\ N \in Nat /\ B \in Nat
  BY BaseFacts, SMT
<1>2. 0 \in S
  <2>1. i + 0 = i /\ W[i] \in Nat /\ W[0] = 1
    BY <1>1, WeightFacts, WeightAssumption, SMT
  <2> QED
    BY <2>1, SMT
<1>3. ASSUME NEW c \in S PROVE c + 1 \in S
  <2> SUFFICES ASSUME i + (c + 1) <= 2 * N
               PROVE  W[i + (c + 1)] = W[i] * W[c + 1]
    BY SMT
  <2>1. c \in Nat /\ c \in 0..(2 * N) /\ c < 2 * N
        /\ i + c \in 0..(2 * N) /\ i + c < 2 * N /\ (i + c) + 1 = i + (c + 1)
    BY <1>1, SMT
  <2>2. W[c] \in Nat /\ W[c + 1] = B * W[c] /\ W[(i + c) + 1] = B * W[i + c]
        /\ W[i] \in Nat
    BY <2>1, WeightFacts
  <2>3. W[i + c] = W[i] * W[c]
    BY <2>1, SMT
  <2>4. B * (W[i] * W[c]) = W[i] * (B * W[c])
    BY <1>1, <2>2, SMT
  <2> QED
    BY <2>1, <2>2, <2>3, <2>4
<1>4. S = Nat
  <2>1. S \in SUBSET Nat
    OBVIOUS
  <2> HIDE DEF S
  <2> QED
    BY <1>2, <1>3, <2>1, SetInduction
<1> QED
  BY <1>1, <1>4

\* So the weight of a limb divides that of any limb above it,
LEMMA WeightDivides ==
    ASSUME NEW i \in 0..(2 * N), NEW j \in 0..i
    PROVE  \E z \in Nat : W[i] = W[j] * z
<1>1. j \in 0..(2 * N) /\ i - j \in 0..(2 * N) /\ j + (i - j) = i
  BY BaseFacts, SMT
<1>2. W[i] = W[j] * W[i - j] /\ W[i - j] \in Nat
  BY <1>1, BaseFacts, WeightsMultiply, WeightFacts
<1> QED
  BY <1>2

\* and the radix.
LEMMA WeightDividesRadix ==
    ASSUME NEW i \in 0..N
    PROVE  \E z \in Nat : R = W[i] * z
<1>1. N \in 0..(2 * N) /\ i \in 0..N
  BY BaseFacts, SMT
<1> QED
  BY <1>1, WeightDivides DEF R

\* The low limbs of the low limbs are the fewer of the two, and the limbs
\* below limb i know the limbs of the integer.
LEMMA LowOfLow ==
    ASSUME NEW x \in Nat, NEW i \in 0..(2 * N), NEW j \in 0..i
    PROVE  /\ (x % W[i]) % W[j] = x % W[j]
           /\ j < i => Limb(x % W[i], j) = Limb(x, j)
<1> DEFINE r == x % W[i]
           h == x \div W[i]
           s == r % W[j]
           d == r \div W[j]
<1>1. i \in Nat /\ j \in Nat /\ j \in 0..(2 * N) /\ N \in Nat
      /\ B \in Nat /\ B > 0
  BY BaseFacts, SMT
<1>2. W[i] \in Nat /\ W[i] > 0 /\ W[j] \in Nat /\ W[j] > 0
  BY <1>1, WeightFacts
<1>3. PICK z \in Nat : W[i] = W[j] * z
  BY WeightDivides
<1>4. r \in Nat /\ h \in Nat /\ x = W[i] * h + r
  <2>1. x \in Int /\ x >= 0
    BY SMT
  <2> QED
    BY <1>2, <2>1, DivMod
<1>5. s \in 0..(W[j] - 1) /\ d \in Nat /\ r = W[j] * d + s
  <2>1. r \in Int /\ r >= 0
    BY <1>4, SMT
  <2> HIDE DEF r
  <2>2. /\ r % W[j] \in Nat /\ r % W[j] < W[j] /\ r \div W[j] \in Nat
        /\ r = W[j] * (r \div W[j]) + (r % W[j])
    BY <1>2, <2>1, DivMod
  <2> QED
    BY <1>2, <2>2, SMT
<1> HIDE DEF r, h, s, d
<1> DEFINE e == z * h + d
<1>6. e \in Int /\ x \in Int /\ x = W[j] * e + s
  <2>1. (W[j] * z) * h + W[j] * d = W[j] * (z * h + d)
    BY <1>2, <1>3, <1>4, <1>5, SMT
  <2> QED
    BY <2>1, <1>2, <1>3, <1>4, <1>5, SMT
<1> HIDE DEF e
<1>7. x % W[j] = s /\ x \div W[j] = e
  BY <1>2, <1>5, <1>6, DivisionIs
<1>8. ASSUME j < i PROVE e % B = d % B
  <2>1. j + 1 \in 0..i /\ j < 2 * N
    BY <1>1, <1>8, SMT
  <2>2. PICK y \in Nat : W[i] = W[j + 1] * y
    BY <2>1, WeightDivides
  <2>3. W[j + 1] = B * W[j]
    BY <1>1, <2>1, WeightFacts
  <2>4. z = B * y
    <3>1. W[j] * z = W[j] * (B * y)
      BY <1>1, <1>2, <1>3, <2>2, <2>3, SMT
    <3>2. B * y \in Int /\ z \in Int
      BY <1>1, SMT
    <3> QED
      BY <1>2, <3>1, <3>2, CancelEqual
  <2> DEFINE u == d % B
             v == d \div B
             f == y * h + v
  <2>5. u \in 0..(B - 1) /\ v \in Nat /\ d = B * v + u
    BY <1>1, <1>5, DivMod, SMT
  <2> HIDE DEF u, v
  <2>6. f \in Int /\ e = B * f + u
    <3>1. (B * y) * h + B * v = B * (y * h + v)
      BY <1>1, <1>4, <2>5, SMT
    <3> QED
      BY <3>1, <2>4, <2>5, <1>1, <1>4, SMT DEF e
  <2> HIDE DEF f
  <2>7. e % B = u
    BY <1>1, <1>6, <2>5, <2>6, DivisionIs
  <2> QED
    BY <2>7 DEF u
<1>9. s = (x % W[i]) % W[j] /\ d = (x % W[i]) \div W[j]
  BY DEF s, d, r
<1> QED
  BY <1>7, <1>8, <1>9 DEF Limb

\* Storing a word into limb i changes no other limb and leaves N limbs.
LEMMA SetLimbFacts ==
    ASSUME NEW x \in Uint, NEW i \in 0..(N - 1), NEW v \in Word
    PROVE  /\ SetLimb(x, i, v) \in Uint
           /\ SetLimb(x, i, v) % W[i + 1] = (x % W[i]) + W[i] * v
           /\ SetLimb(x, i, v) \div W[i + 1] = x \div W[i + 1]
<1> DEFINE r == x % W[i]
           q == x \div W[i + 1]
           l == Limb(x, i)
           s == r + W[i] * v
           y == W[i + 1] * q + s
<1>1. /\ N \in Nat /\ x \in Nat
      /\ i \in 0..(2 * N - 1) /\ i \in 0..(2 * N) /\ i + 1 \in 0..N
      /\ B \in Nat /\ B > 0 /\ R \in Nat
  BY BaseFacts, SMT DEF Uint
<1>2. /\ W[i] \in Nat /\ W[i] > 0 /\ W[i + 1] = B * W[i]
      /\ W[i + 1] \in Nat /\ W[i + 1] > 0
  BY <1>1, WeightFacts, SMT
<1>3. r \in 0..(W[i] - 1) /\ q \in Nat /\ l \in Word
  BY <1>1, <1>2, DivMod, LimbType, SMT
<1>4. x = W[i + 1] * q + (r + W[i] * l)
  <2> DEFINE w == W[i + 1]
  <2>1. x = w * q + (x % w)
    <3>1. w \in Nat /\ w > 0 /\ x \in Int
      BY <1>1, <1>2, SMT
    <3> HIDE DEF w
    <3>2. x = w * (x \div w) + (x % w)
      BY <3>1, DivMod
    <3> QED
      BY <3>2 DEF q, w
  <2>2. x % W[i + 1] = r + W[i] * l
    BY <1>1, LowLimbs
  <2> QED
    BY <2>1, <2>2
<1> HIDE DEF r, q, l
<1>5. s \in 0..(W[i + 1] - 1)
  <2>1. W[i] * v <= W[i] * (B - 1) /\ W[i] * v >= 0
    BY <1>1, <1>2, SMT DEF Word
  <2>2. W[i] * (B - 1) = W[i + 1] - W[i]
    BY <1>1, <1>2, SMT
  <2> QED
    BY <2>1, <2>2, <1>1, <1>2, <1>3, SMT DEF Word
<1>6. SetLimb(x, i, v) = y
  <2>1. SetLimb(x, i, v) = x + (v - l) * W[i]
    BY DEF SetLimb, l
  <2> QED
    BY <2>1, <1>1, <1>2, <1>3, <1>4, SMT DEF Word
<1> HIDE DEF s
<1>7. y \div W[i + 1] = q /\ y % W[i + 1] = s
  <2>1. y \in Int /\ q \in Int /\ y = W[i + 1] * q + s
    BY <1>2, <1>3, <1>5, SMT
  <2> HIDE DEF y
  <2> QED
    BY <2>1, <1>2, <1>5, DivisionIs
<1>8. y \in Uint
  <2>1. PICK z \in Nat : R = W[i + 1] * z
    BY <1>1, WeightDividesRadix
  <2>2. W[i + 1] * q < W[i + 1] * z
    <3>1. W[i + 1] * q <= x
      BY <1>1, <1>2, <1>3, <1>4, SMT DEF Word
    <3>2. x < R
      BY <1>1, SMT DEF Uint
    <3> QED
      BY <3>1, <3>2, <2>1, <1>1, <1>2, <1>3, SMT
  <2>3. q + 1 <= z
    BY <2>2, <1>2, <1>3, Cancel, SMT
  <2>4. W[i + 1] * (q + 1) <= R
    BY <2>1, <2>3, <1>2, <1>3, Monotone
  <2> QED
    BY <2>4, <1>1, <1>2, <1>3, <1>5, SMT DEF Uint
<1> QED
  BY <1>6, <1>7, <1>8 DEF s, r, q

\* The limbs below the one stored stay as they are.
LEMMA SetLimbKeepsBelow ==
    ASSUME NEW x \in Uint, NEW i \in 0..(N - 1), NEW v \in Word, NEW j \in 0..i
    PROVE  SetLimb(x, i, v) % W[j] = x % W[j]
<1> DEFINE y == SetLimb(x, i, v)
           r == x % W[i]
<1>1. y \in Uint /\ y % W[i + 1] = r + W[i] * v
  BY SetLimbFacts
<1> HIDE DEF y, r
<1>2. x \in Nat /\ y \in Nat /\ v \in Int
      /\ i \in 0..(2 * N) /\ i + 1 \in 0..(2 * N) /\ i \in 0..(i + 1)
      /\ j \in 0..i /\ j \in 0..(i + 1)
  BY <1>1, BaseFacts, SMT DEF Uint, Word
<1>3. W[i] \in Nat /\ W[i] > 0
  BY <1>2, WeightFacts
<1>4. r \in 0..(W[i] - 1)
  <2>1. x \in Int
    BY <1>2
  <2> QED
    BY <1>3, <2>1, DivMod, SMT DEF r
<1>5. (y % W[i + 1]) % W[i] = y % W[i]
  BY <1>2, LowOfLow
<1>6. (r + W[i] * v) % W[i] = r
  <2> DEFINE s == r + W[i] * v
  <2>1. s \in Int /\ s = W[i] * v + r
    BY <1>2, <1>3, <1>4, SMT
  <2> HIDE DEF s
  <2>2. s % W[i] = r
    BY <2>1, <1>2, <1>3, <1>4, DivisionIs
  <2> QED
    BY <2>2 DEF s
<1>7. y % W[i] = x % W[i]
  BY <1>1, <1>5, <1>6 DEF r
<1>8. (y % W[i]) % W[j] = y % W[j] /\ (x % W[i]) % W[j] = x % W[j]
  BY <1>2, LowOfLow
<1> QED
  BY <1>7, <1>8 DEF y

----------------------------------------------------------------------------
(* The multiple of the modulus that clears the lowest limb.                *)

\* When k is the inverse of -m modulo the base, adding (s % B)*k % B times m
\* to s gives a multiple of the base.
LEMMA ClearsLowLimb ==
    ASSUME NEW s \in Nat, NEW k \in Nat, NEW m \in Nat, IsModNegInv(k, m),
           NEW u, u = ((s % B) * k) % B
    PROVE  /\ u \in Word
           /\ \E z \in Nat : s + u * m = B * z
<1> DEFINE s0 == s % B
           s1 == s \div B
           c  == (k * m) \div B
           d  == (s0 * k) \div B
           z  == s1 + s0 * c + s0 - d * m
<1>1. B \in Nat /\ B >= 2
  BY BaseFacts
<1>2. s0 \in Nat /\ s1 \in Nat /\ s = B * s1 + s0
  BY <1>1, DivMod
<1>3. c \in Int /\ k * m = B * c + (B - 1)
  <2>1. k * m \in Nat
    BY SMT
  <2> QED
    BY <1>1, <2>1, DivMod DEF IsModNegInv
<1>4. d \in Int /\ u \in Nat /\ s0 * k = B * d + u
  <2>1. s0 * k \in Nat
    BY <1>2, SMT
  <2> QED
    BY <1>1, <2>1, DivMod
<1> HIDE DEF s0, s1, c, d
<1>5. z \in Int
  BY <1>2, <1>3, <1>4, SMT
<1>6. u * m = s0 * (B * c + (B - 1)) - (B * d) * m
  <2>1. u * m = (s0 * k) * m - (B * d) * m
    BY <1>1, <1>2, <1>4, SMT
  <2>2. (s0 * k) * m = s0 * (k * m)
    BY <1>2, SMT
  <2> QED
    BY <2>1, <2>2, <1>3
<1>7. s + u * m = B * z
  BY <1>1, <1>2, <1>3, <1>4, <1>6, SMT
<1>8. z >= 0
  <2>1. u * m >= 0
    BY <1>4, SMT
  <2> HIDE DEF z
  <2>2. B * z >= 0
    BY <2>1, <1>7, <1>4, SMT
  <2> QED
    BY <2>2, <1>1, <1>5, SMT
<1>9. u \in Word
  <2>1. s0 * k \in Int
    BY <1>2, SMT
  <2>2. (s0 * k) % B < B
    BY <1>1, <2>1, DivMod
  <2>3. u < B
    BY <2>2 DEF s0
  <2> QED
    BY <2>3, <1>1, <1>4, SMT DEF Word
<1> QED
  BY <1>5, <1>7, <1>8, <1>9

\* After i rows of a Montgomery multiplication of x and y modulo m the
\* accumulator acc, moved up by i limbs, is the product by the low i limbs of x
\* plus q times the modulus, and is below y + m.
ExactRows(x, y, m, acc, q, i) ==
    /\ acc * W[i] = (x % W[i]) * y + q * m
    /\ q < W[i]
    /\ acc < y + m

\* One row: limb i of x times y and u times m are added, and the limb that
\* this clears is dropped, which leaves z.
RowGives(x, y, m, acc, i, u, z) == B * z = acc + Limb(x, i) * y + u * m

\* A row keeps the accumulator exact and below y + m.
LEMMA RowOfProduct ==
    ASSUME NEW x \in Nat, NEW y \in Nat, NEW m \in Nat,
           NEW acc \in Nat, NEW q \in Nat, NEW i \in 0..(2 * N - 1),
           NEW u \in Word, NEW z \in Nat,
           ExactRows(x, y, m, acc, q, i), RowGives(x, y, m, acc, i, u, z)
    PROVE  /\ q + u * W[i] \in Nat
           /\ ExactRows(x, y, m, z, q + u * W[i], i + 1)
<1> DEFINE xi == Limb(x, i)
           w  == W[i]
           lowx == x % w
           nq == q + u * w
<1>1. i \in 0..(2 * N) /\ i < 2 * N
  BY BaseFacts, SMT
<1>2. B \in Nat /\ B >= 2
  BY BaseFacts
<1>3. w \in Nat /\ w > 0 /\ W[i + 1] = B * w
  BY <1>1, WeightFacts
<1>4. xi \in Nat /\ xi <= B - 1
  BY <1>1, <1>2, LimbType, SMT DEF Word
<1>5. u \in Nat /\ u <= B - 1
  BY <1>2, SMT DEF Word
<1>6. x % W[i + 1] = lowx + w * xi
  BY LowLimbs
<1>7. lowx \in Nat
  BY <1>3, DivMod
<1>8. /\ acc * w = lowx * y + q * m /\ q < w /\ acc < y + m
      /\ B * z = acc + xi * y + u * m
  BY DEF ExactRows, RowGives
<1> HIDE DEF xi, w, lowx
<1>9. nq \in Nat /\ nq < W[i + 1]
  <2>1. w * u <= w * (B - 1)
    BY <1>2, <1>3, <1>5, Monotone, SMT
  <2>2. w * (B - 1) = B * w - w
    BY <1>2, <1>3, SMT
  <2>3. w * u = u * w /\ w * u \in Nat
    BY <1>3, <1>5, SMT
  <2> QED
    BY <2>1, <2>2, <2>3, <1>2, <1>3, <1>8, SMT
<1>10. z * W[i + 1] = (x % W[i + 1]) * y + nq * m
  <2>1. z * W[i + 1] = (B * z) * w
    BY <1>2, <1>3, SMT
  <2>2. (B * z) * w = acc * w + (xi * y) * w + (u * m) * w
    BY <1>3, <1>4, <1>5, <1>8, SMT
  <2>3. lowx * y + q * m + (xi * y) * w + (u * m) * w
          = (lowx + w * xi) * y + (q + u * w) * m
    BY <1>3, <1>4, <1>5, <1>7, SMT
  <2> QED
    BY <2>1, <2>2, <2>3, <1>6, <1>8
<1>11. z < y + m
  <2>1. y * xi <= y * (B - 1) /\ m * u <= m * (B - 1)
    BY <1>2, <1>4, <1>5, Monotone, SMT
  <2>2. B * z = acc + y * xi + m * u
    BY <1>2, <1>4, <1>5, <1>8, SMT
  <2>3. y * (B - 1) + m * (B - 1) + (y + m) = B * (y + m)
    BY <1>2, SMT
  <2>4. B * z < B * (y + m)
    <3>1. y * xi \in Int /\ m * u \in Int /\ y * (B - 1) \in Int
          /\ m * (B - 1) \in Int
      BY <1>2, <1>4, <1>5, SMT
    <3> QED
      BY <2>1, <2>2, <2>3, <3>1, <1>8, SMT
  <2> QED
    BY <2>4, <1>2, Cancel, SMT
<1> QED
  BY <1>9, <1>10, <1>11 DEF w, ExactRows

\* Within a row that stores its limbs one place down, limbs 0 .. j-2 of out and
\* the running carry are, one limb down, the low j limbs of the accumulator and
\* of u times m, plus what else was added, e; the limbs from j up are still
\* those of the row before.
ExactLimbs(out, carry, acc, e, m, u, j) ==
    /\ B * ((out % W[j - 1]) + carry * W[j - 1])
         = (acc % W[j]) + e + u * (m % W[j])
    /\ out \div W[j] = acc \div W[j]

\* Storing the next limb keeps them exact.
LEMMA LimbOfRow ==
    ASSUME NEW out \in Uint, NEW acc \in Nat, NEW m \in Nat, NEW u \in Nat,
           NEW e \in Nat, NEW d \in Nat, NEW j \in 1..(N - 1), NEW carry \in Nat,
           ExactLimbs(out, carry, acc, e, m, u, j),
           NEW p \in Word, NEW c \in Nat,
           p + B * c = d + Limb(out, j) + u * Limb(m, j) + carry
    PROVE  /\ SetLimb(out, j - 1, p) \in Uint
           /\ SetLimb(out, j - 1, p) \div W[j] = acc \div W[j]
           /\ ExactLimbs(SetLimb(out, j - 1, p), c, acc, e + W[j] * d, m, u, j + 1)
<1> DEFINE o  == SetLimb(out, j - 1, p)
           w  == W[j - 1]
           lo == out % w
           al == Limb(acc, j)
           ml == Limb(m, j)
           aw == acc % W[j]
           mw == m % W[j]
<1>1. /\ N \in Nat /\ B \in Nat /\ j - 1 \in 0..(N - 1) /\ (j - 1) + 1 = j
      /\ j \in 0..(2 * N) /\ j - 1 \in 0..(2 * N) /\ j - 1 < 2 * N
      /\ j \in 0..(2 * N - 1) /\ out \in Nat /\ p \in Int
  BY BaseFacts, SMT DEF Uint, Word
<1>2. /\ w \in Nat /\ W[j] = B * w /\ W[j] > 0 /\ W[j] \in Nat
  <2>1. w \in Nat /\ W[(j - 1) + 1] = B * w
    BY <1>1, WeightFacts
  <2> QED
    BY <1>1, <2>1, WeightFacts
<1>3. w > 0
  BY <1>1, WeightFacts
<1>4. o \in Uint /\ o % W[j] = lo + w * p /\ o \div W[j] = out \div W[j]
  BY <1>1, SetLimbFacts
<1> HIDE DEF o
<1>5. o \in Nat /\ Limb(out, j) = al
  BY <1>4, SMT DEF Uint, Limb, ExactLimbs
<1>6. acc % W[j + 1] = aw + W[j] * al /\ m % W[j + 1] = mw + W[j] * ml
  BY <1>1, LowLimbs
<1>7. o \div W[j + 1] = acc \div W[j + 1]
  <2>1. o \div W[j + 1] = (o \div W[j]) \div B
        /\ acc \div W[j + 1] = (acc \div W[j]) \div B
    BY <1>1, <1>5, HighLimbs
  <2> QED
    BY <2>1, <1>4 DEF ExactLimbs
<1>8. lo \in Nat /\ aw \in Nat /\ mw \in Nat /\ al \in Nat /\ ml \in Nat
  <2>1. al \in Word /\ ml \in Word
    BY <1>1, LimbType
  <2>2. out \in Int /\ acc \in Int /\ m \in Int
    BY <1>1
  <2>3. lo \in Nat
    BY <1>2, <1>3, <2>2, DivMod
  <2>4. aw \in Nat /\ mw \in Nat
    BY <1>2, <2>2, DivMod
  <2> QED
    BY <2>1, <2>3, <2>4, <1>1, SMT DEF Word
<1>9. B * (lo + carry * w) = aw + e + u * mw
  BY DEF ExactLimbs
<1>10. p + B * c = d + al + u * ml + carry
  BY <1>5
<1> HIDE DEF w, lo, al, ml, aw, mw
<1>11. B * ((lo + w * p) + c * W[j])
         = (aw + W[j] * al) + (e + W[j] * d) + u * (mw + W[j] * ml)
  <2>1. W[j] * (p + B * c) = W[j] * (d + al + u * ml + carry)
    BY <1>10
  <2>2. B * ((lo + w * p) + c * W[j])
          = (B * (lo + carry * w) - W[j] * carry) + W[j] * (p + B * c)
    BY <1>1, <1>2, <1>8, SMT
  <2>3. W[j] * (d + al + u * ml + carry)
          = W[j] * d + W[j] * al + u * (W[j] * ml) + W[j] * carry
    BY <1>2, <1>8, SMT
  <2>4. u * (mw + W[j] * ml) = u * mw + u * (W[j] * ml)
    BY <1>2, <1>8, SMT
  <2>5. W[j] * d \in Int /\ W[j] * al \in Int /\ u * (W[j] * ml) \in Int
        /\ W[j] * carry \in Int /\ u * mw \in Int
    BY <1>2, <1>8, SMT
  <2> QED
    BY <2>1, <2>2, <2>3, <2>4, <2>5, <1>8, <1>9, SMT
<1>12. ExactLimbs(o, c, acc, e + W[j] * d, m, u, j + 1)
  <2>1. (j + 1) - 1 = j
    BY <1>1, SMT
  <2> QED
    BY <2>1, <1>4, <1>6, <1>7, <1>11 DEF ExactLimbs
<1> QED
  BY <1>4, <1>12 DEF o, ExactLimbs

----------------------------------------------------------------------------
(* The operations on words return words that are together the exact value. *)

\* A sum of three words is a word and a carry of at most two, or of at most
\* one if one of them is at most one.
LEMMA CarryingAddExact ==
    ASSUME NEW s \in Word, NEW r \in Word, NEW c \in Word,
           NEW p, p = carrying_add(s, r, c)
    PROVE  /\ p[1] \in Word /\ p[2] \in Word
           /\ p[1] + B * p[2] = s + r + c
           /\ p[2] <= 2
           /\ c <= 1 => p[2] <= 1
<1> DEFINE t == s + r + c
           v == t % B
           h == t \div B
<1>1. B \in Nat /\ B >= 2 /\ t \in Nat
  BY BaseFacts, SMT DEF Word
<1>2. p = <<v, h>>
  BY DEF carrying_add, Lo, Hi
<1>3. v \in 0..(B - 1) /\ h \in Nat /\ t = B * h + v
  <2> HIDE DEF t
  <2> QED
    BY <1>1, DivMod, SMT
<1> HIDE DEF v, h
<1>4. h <= 2
  <2>1. ASSUME h >= 3 PROVE FALSE
    <3>1. B * h >= B * 3
      BY <2>1, <1>1, <1>3, Monotone
    <3> QED
      BY <3>1, <1>1, <1>3, SMT DEF Word
  <2> QED
    BY <2>1, <1>3, SMT
<1>5. ASSUME c <= 1 PROVE h <= 1
  <2>1. ASSUME h >= 2 PROVE FALSE
    <3>1. B * h >= B * 2
      BY <2>1, <1>1, <1>3, Monotone
    <3> QED
      BY <3>1, <1>1, <1>3, <1>5, SMT DEF Word
  <2> QED
    BY <2>1, <1>3, SMT
<1>6. h \in Word
  <2>1. CASE B = 2
    BY <2>1, <1>3, <1>5, SMT DEF Word
  <2>2. CASE B >= 3
    BY <2>2, <1>1, <1>3, <1>4, SMT DEF Word
  <2> QED
    BY <2>1, <2>2, <1>1, SMT
<1> QED
  BY <1>1, <1>2, <1>3, <1>4, <1>5, <1>6, SMT DEF Word

\* A sum of two words carries at most one.
LEMMA OverflowingAddExact ==
    ASSUME NEW s \in Word, NEW c \in Word, NEW p, p = overflowing_add(s, c)
    PROVE  /\ p[1] \in Word /\ p[2] \in Word
           /\ p[1] + B * p[2] = s + c
           /\ p[2] <= 1
<1> DEFINE t == s + c
           h == IF t >= B THEN 1 ELSE 0
           v == t - B * h
<1>1. B \in Nat /\ B >= 2 /\ t \in Nat /\ h \in {0, 1} /\ v \in 0..(B - 1)
  BY BaseFacts, SMT DEF Word
<1>2. t % B = v
  <2>1. t = B * h + v /\ h \in Int
    BY <1>1, SMT
  <2> HIDE DEF t, h, v
  <2> QED
    BY <1>1, <2>1, DivisionIs, SMT
<1>3. p = <<v, h>>
  BY <1>2 DEF overflowing_add
<1> HIDE DEF v, h
<1> QED
  BY <1>1, <1>3, SMT DEF Word, v

\* A product of words, and two more words, fit in two words.
LEMMA MulAddExact ==
    ASSUME NEW l \in Word, NEW r \in Word, NEW s \in Word, NEW c \in Word,
           NEW p, p = carrying_mul_add(l, r, s, c)
    PROVE  /\ p[1] \in Word /\ p[2] \in Word
           /\ p[1] + B * p[2] = l * r + s + c
<1> DEFINE t == l * r + s + c
           v == t % B
           h == t \div B
<1>1. B \in Nat /\ B >= 2 /\ l * r \in Nat /\ t \in Nat
  BY BaseFacts, SMT DEF Word
<1>2. t < B * B
  <2>1. l * r <= l * (B - 1)
    BY <1>1, Monotone, SMT DEF Word
  <2>2. (B - 1) * l <= (B - 1) * (B - 1)
    BY <1>1, Monotone, SMT DEF Word
  <2>3. l * (B - 1) = (B - 1) * l /\ (B - 1) * (B - 1) = B * B - 2 * B + 1
    BY <1>1, SMT DEF Word
  <2> QED
    BY <2>1, <2>2, <2>3, <1>1, SMT DEF Word
<1>3. v \in 0..(B - 1) /\ h \in Nat /\ t = B * h + v
  <2> HIDE DEF t
  <2> QED
    BY <1>1, DivMod, SMT
<1>4. t % (B * B) = t
  <2>1. B * B \in Nat /\ B * B > 0 /\ t = (B * B) * 0 + t /\ t \in 0..(B * B - 1)
    BY <1>1, <1>2, SMT
  <2> HIDE DEF t
  <2> QED
    BY <1>1, <2>1, DivisionIs, SMT
<1>5. p = <<v, h>>
  BY <1>4 DEF carrying_mul_add, Lo, Hi
<1> HIDE DEF v, h
<1>6. h < B
  <2>1. B * h < B * B
    BY <1>1, <1>2, <1>3, SMT
  <2> QED
    BY <2>1, <1>1, <1>3, Cancel, SMT
<1> QED
  BY <1>1, <1>3, <1>5, <1>6, SMT DEF Word

\* The complement of a word and a carry.
LEMMA NegExact ==
    ASSUME NEW s \in Word, NEW c \in Word, NEW t, t = (WordMAX - s) + c
    PROVE  /\ Lo(t) \in Word /\ Hi(t) \in Word
           /\ Lo(t) + B * Hi(t) = WordMAX - s + c
           /\ Hi(t) <= 1
<1>1. B \in Nat /\ B >= 2 /\ t \in Nat /\ t <= 2 * B - 2
  BY BaseFacts, SMT DEF Word, WordMAX
<1>2. Lo(t) \in 0..(B - 1) /\ Hi(t) \in Nat /\ t = B * Hi(t) + Lo(t)
  BY <1>1, DivMod, SMT DEF Lo, Hi
<1>3. Hi(t) <= 1
  <2>1. ASSUME Hi(t) >= 2 PROVE FALSE
    <3>1. B * Hi(t) >= B * 2
      BY <2>1, <1>1, <1>2, Monotone
    <3> QED
      BY <3>1, <1>1, <1>2, SMT
  <2> QED
    BY <2>1, <1>2, SMT
<1> QED
  BY <1>1, <1>2, <1>3, SMT DEF Word

\* The top bit of a word is a bit; that of the two borrows is 0 or 1.
LEMMA BorrowBits ==
    /\ \A c \in Word : BorrowBit(c) \in {0, 1}
    /\ 0 \in Word /\ WordMAX \in Word
    /\ BorrowBit(0) = 0 /\ BorrowBit(WordMAX) = 1
    /\ WordMAX % 2 = 1 /\ 0 % 2 = 0 /\ WordMAX # 0
<1>1. HalfB \in Nat /\ HalfB > 0
  BY BaseAssumption, SMT
<1>2. ASSUME NEW c \in Word PROVE BorrowBit(c) \in {0, 1}
  <2>1. CASE c < HalfB
    <3>1. c = HalfB * 0 + c /\ c \in 0..(HalfB - 1) /\ c \in Int
      BY <1>1, <2>1, SMT DEF Word, B
    <3> QED
      BY <1>1, <3>1, DivisionIs, SMT DEF BorrowBit
  <2>2. CASE c >= HalfB
    <3>1. c = HalfB * 1 + (c - HalfB) /\ c - HalfB \in 0..(HalfB - 1) /\ c \in Int
      BY <1>1, <2>2, SMT DEF Word, B
    <3> QED
      BY <1>1, <3>1, DivisionIs, SMT DEF BorrowBit
  <2> QED
    BY <1>1, <2>1, <2>2, SMT DEF Word, B
<1>3. BorrowBit(0) = 0
  BY <1>1, SMT DEF BorrowBit
<1>4. BorrowBit(WordMAX) = 1
  <2>1. WordMAX = HalfB * 1 + (HalfB - 1) /\ HalfB - 1 \in 0..(HalfB - 1)
        /\ WordMAX \in Int
    BY <1>1, SMT DEF WordMAX, B
  <2> QED
    BY <1>1, <2>1, DivisionIs, SMT DEF BorrowBit
<1>5. WordMAX % 2 = 1
  <2>1. WordMAX = 2 * (HalfB - 1) + 1 /\ WordMAX \in Int /\ HalfB - 1 \in Int
    BY <1>1, SMT DEF WordMAX, B
  <2> QED
    BY <2>1, DivisionIs, SMT
<1> QED
  BY <1>1, <1>2, <1>3, <1>4, <1>5, SMT DEF Word, WordMAX, B

\* A difference of words, with the bit borrowed, is a word and a mask.
LEMMA BorrowingSubExact ==
    ASSUME NEW s \in Word, NEW r \in Word, NEW c \in Word,
           NEW p, p = borrowing_sub(s, r, c)
    PROVE  /\ p[1] \in Word
           /\ p[2] \in {0, WordMAX} /\ p[2] \in Word
           /\ p[1] - B * BorrowBit(p[2]) = s - r - BorrowBit(c)
<1> DEFINE top == BorrowBit(c)
           e   == IF s < top THEN 1 ELSE 0
           x   == s - top + B * e
           g   == IF x < r THEN 1 ELSE 0
           v   == x - r + B * g
<1>1. B \in Nat /\ B >= 2 /\ top \in {0, 1} /\ e \in {0, 1} /\ g \in {0, 1}
  BY BaseFacts, BorrowBits
<1> HIDE DEF top
<1>2. x \in 0..(B - 1) /\ v \in 0..(B - 1)
  BY <1>1, SMT DEF Word
<1>3. (s - top) % B = x
  <2>1. s - top = B * (-e) + x /\ s - top \in Int /\ -e \in Int
    BY <1>1, SMT DEF Word
  <2> HIDE DEF e, x
  <2> QED
    BY <1>1, <1>2, <2>1, DivisionIs, SMT
<1>4. (x - r) % B = v
  <2>1. x - r = B * (-g) + v /\ x - r \in Int /\ -g \in Int
    BY <1>1, <1>2, SMT DEF Word
  <2> HIDE DEF g, v, x
  <2> QED
    BY <1>1, <1>2, <2>1, DivisionIs, SMT
<1>5. p = <<v, Mask(x < r \/ s < top)>>
  BY <1>3, <1>4 DEF borrowing_sub, BorrowBit, top
<1>6. ~(x < r /\ s < top)
  BY <1>1, SMT DEF Word
<1>7. BorrowBit(Mask(x < r \/ s < top)) = e + g
  <2>1. CASE x < r \/ s < top
    BY <2>1, <1>6, BorrowBits DEF Mask
  <2>2. CASE ~(x < r \/ s < top)
    BY <2>2, BorrowBits DEF Mask
  <2> QED
    BY <2>1, <2>2
<1>8. v - B * (e + g) = s - r - top
  BY <1>1, SMT DEF Word
<1>9. Mask(x < r \/ s < top) \in {0, WordMAX} /\ 0 \in Word /\ WordMAX \in Word
  BY BorrowBits DEF Mask
<1> QED
  <2> HIDE DEF v, e, g, x
  <2> QED
    BY <1>2, <1>5, <1>7, <1>8, <1>9 DEF Word, top

----------------------------------------------------------------------------
(* The modular corrections.                                                *)

\* A subtraction from zero borrow: the difference, and whether it wrapped.
LEMMA PlainSub ==
    ASSUME NEW a \in Uint, NEW b \in Uint
    PROVE  UintBorrowingSub(a, b, 0)
             = IF a >= b THEN <<a - b, 0>> ELSE <<a - b + R, WordMAX>>
<1>1. HalfB \in Nat /\ HalfB > 0
  BY BaseAssumption
<1>2. BorrowBit(0) = 0
  BY <1>1, SMT DEF BorrowBit
<1>3. R \in Nat /\ R > 0
  BY BaseFacts
<1>4. CASE a >= b
  <2>1. (a - b) % R = a - b
    BY <1>3, <1>4, SMT DEF Uint
  <2> QED
    BY <1>2, <1>3, <1>4, <2>1, SMT DEF UintBorrowingSub, Mask, Uint
<1>5. CASE ~(a >= b)
  <2>1. a - b = R * (-1) + (a - b + R) /\ a - b + R \in 0..(R - 1)
    BY <1>3, <1>5, SMT DEF Uint
  <2>2. (a - b) % R = a - b + R
    BY <1>3, <2>1, DivisionIs, SMT DEF Uint
  <2> QED
    BY <1>2, <1>3, <1>5, <2>2, SMT DEF UintBorrowingSub, Mask, Uint
<1> QED
  BY <1>4, <1>5

\* All ones is odd.
LEMMA MaxIsOdd == lsb_to_choice(WordMAX) /\ ~lsb_to_choice(0)
<1>1. HalfB \in Nat /\ HalfB > 0
  BY BaseAssumption
<1>2. WordMAX = 2 * (HalfB - 1) + 1
  BY <1>1, SMT DEF WordMAX, B
<1>3. WordMAX % 2 = 1
  BY <1>1, <1>2, DivisionIs, SMT
<1> QED
  BY <1>3, SMT DEF lsb_to_choice

\* try_sub_with_carry subtracts p from a number below R + p held in N limbs
\* and a carry, unless the number is below p.
LEMMA TrySubValue ==
    ASSUME NEW v \in Nat, NEW p \in Uint, v < R + p
    PROVE  TrySubWithCarry(v % R, v \div R, p)[1]
             = IF v < p THEN v ELSE v - p
<1> DEFINE lo == v % R
           hi == v \div R
<1>1. R \in Nat /\ R > 0 /\ p \in Nat /\ p < R
  BY BaseFacts, SMT DEF Uint
<1>2. /\ hi \in Nat /\ lo \in Uint /\ lo \in Nat /\ lo < R
      /\ v = R * hi + lo
  BY <1>1, DivMod, SMT DEF Uint
<1> HIDE DEF lo, hi
<1>3. hi = 0 \/ (hi = 1 /\ lo < p)
  <2>1. R * hi < R * 2
    BY <1>1, <1>2, SMT
  <2>2. hi < 2
    BY <1>1, <1>2, <2>1, Cancel, SMT
  <2>3. hi = 1 => lo < p
    BY <1>1, <1>2, SMT
  <2> QED
    BY <1>2, <2>2, <2>3, SMT
<1>4. lo >= p => UintBorrowingSub(lo, p, 0) = <<lo - p, 0>>
  BY <1>2, PlainSub
<1>5. ~(lo >= p) => UintBorrowingSub(lo, p, 0) = <<lo - p + R, WordMAX>>
  BY <1>2, PlainSub
<1>6. CASE hi = 0 /\ lo >= p
  BY <1>2, <1>4, <1>6, <1>1, MaxIsOdd, SMT
     DEF TrySubWithCarry, Select, is_zero, lo, hi
<1>7. CASE hi = 0 /\ ~(lo >= p)
  BY <1>2, <1>5, <1>7, <1>1, MaxIsOdd, SMT
     DEF TrySubWithCarry, Select, is_zero, lo, hi
<1>8. CASE hi = 1 /\ lo < p
  BY <1>2, <1>5, <1>8, <1>1, MaxIsOdd, SMT
     DEF TrySubWithCarry, Select, is_zero, lo, hi
<1> QED
  BY <1>3, <1>6, <1>7, <1>8

\* The correction of almost_montgomery_mul subtracts m exactly when the number
\* does not fit in N limbs.
LEMMA OverflowSubValue ==
    ASSUME NEW v \in Nat, NEW p \in Uint, v < R + p
    PROVE  UintConditionalBorrowingSub(v % R, p, lsb_to_choice(v \div R))[1]
             = IF v < R THEN v ELSE v - p
<1> DEFINE lo == v % R
           hi == v \div R
<1>1. R \in Nat /\ R > 0 /\ p \in Nat /\ p < R
  BY BaseFacts, SMT DEF Uint
<1>2. CASE v < R
  <2>1. hi = 0 /\ lo = v
    BY <1>1, <1>2, DivisionIs, SMT
  <2>2. ~lsb_to_choice(hi)
    BY <2>1, MaxIsOdd
  <2> HIDE DEF lo, hi
  <2>3. UintConditionalBorrowingSub(lo, p, lsb_to_choice(hi))[1] = v % R
    BY <2>1, <2>2, SMT DEF UintConditionalBorrowingSub, Masked
  <2> QED
    BY <1>2, <2>1, <2>3 DEF lo, hi
<1>3. CASE ~(v < R)
  <2>1. v = R * 1 + (v - R) /\ v - R \in 0..(R - 1)
    BY <1>1, <1>3, SMT
  <2>2. hi = 1 /\ lo = v - R
    BY <1>1, <2>1, DivisionIs, SMT
  <2>3. lsb_to_choice(hi)
    BY <2>2, SMT DEF lsb_to_choice
  <2>4. (lo - p) % R = v - p
    <3>1. lo - p = R * (-1) + (v - p) /\ v - p \in 0..(R - 1)
      BY <1>1, <1>3, <2>2, SMT
    <3> QED
      BY <1>1, <2>2, <3>1, DivisionIs, SMT
  <2> HIDE DEF lo, hi
  <2>5. UintConditionalBorrowingSub(lo, p, lsb_to_choice(hi))[1] = (lo - p) % R
    BY <2>3 DEF UintConditionalBorrowingSub, Masked
  <2> QED
    BY <1>3, <2>4, <2>5 DEF lo, hi
<1> QED
  BY <1>2, <1>3

\* Reduction of a number below 2p takes at most one subtraction.
LEMMA ModBelowTwice ==
    ASSUME NEW v \in Nat, NEW n \in Nat, n > 0, v < 2 * n
    PROVE  v % n = IF v < n THEN v ELSE v - n
<1>1. CASE v < n
  <2>1. v = n * 0 + v /\ v \in 0..(n - 1)
    BY <1>1, SMT
  <2> QED
    BY <1>1, <2>1, DivisionIs, SMT
<1>2. CASE ~(v < n)
  <2>1. v = n * 1 + (v - n) /\ v - n \in 0..(n - 1)
    BY <1>2, SMT
  <2> QED
    BY <1>2, <2>1, DivisionIs, SMT
<1> QED
  BY <1>1, <1>2

\* Reduction of a difference in [-n, n) takes at most one addition.
LEMMA ModOfDifference ==
    ASSUME NEW v \in Int, NEW n \in Nat, n > 0, v >= -n, v < n
    PROVE  v % n = IF v >= 0 THEN v ELSE v + n
<1>1. CASE v >= 0
  <2>1. v = n * 0 + v /\ v \in 0..(n - 1)
    BY <1>1, SMT
  <2> QED
    BY <1>1, <2>1, DivisionIs, SMT
<1>2. CASE ~(v >= 0)
  <2>1. v = n * (-1) + (v + n) /\ v + n \in 0..(n - 1)
    BY <1>2, SMT
  <2> QED
    BY <1>2, <2>1, DivisionIs, SMT
<1> QED
  BY <1>1, <1>2

\* A remainder is a residue.
LEMMA ResidueOf ==
    ASSUME NEW v \in Int, NEW n \in Nat, n > 0
    PROVE  v % n \in 0..(n - 1)
    BY DivMod, SMT

\* The carry limb and the limbs of a number are what / and % of R say.
LEMMA SumSplits ==
    ASSUME NEW a \in Uint, NEW b \in Uint
    PROVE  /\ UintCarryingAdd(a, b, 0) = <<(a + b) % R, (a + b) \div R>>
           /\ a + b \in Nat /\ a + b < 2 * R
    BY BaseFacts, SMT DEF UintCarryingAdd, Uint

\* A wrapping addition undoes a wrap of a subtraction.
LEMMA WrappingAddValue ==
    ASSUME NEW a \in Uint, NEW b \in Uint
    PROVE  UintWrappingAdd(a, b) = IF a + b < R THEN a + b ELSE a + b - R
<1>1. R \in Nat /\ R > 0 /\ a \in Nat /\ b \in Nat /\ a < R /\ b < R
  BY BaseFacts, SMT DEF Uint
<1>2. UintWrappingAdd(a, b) = (a + b) % R
  BY <1>1, SMT DEF UintWrappingAdd, UintCarryingAdd
<1>3. a + b \in Nat /\ a + b < 2 * R
  BY <1>1, SMT
<1>4. (a + b) % R = IF a + b < R THEN a + b ELSE a + b - R
  BY <1>1, <1>3, ModBelowTwice
<1> QED
  BY <1>2, <1>4

----------------------------------------------------------------------------
(* The operations.                                                         *)

\* add_mod and double_mod: their correction reduces any sum below 2p.
LEMMA TrySubReduces ==
    ASSUME NEW v \in Nat, NEW n \in Uint, n > 0, v < 2 * n
    PROVE  TrySubWithCarry(v % R, v \div R, n)[1] = v % n
<1>1. R \in Nat /\ n \in Nat /\ n < R
  BY BaseFacts, SMT DEF Uint
<1>2. v < R + n
  BY <1>1, SMT
<1>3. TrySubWithCarry(v % R, v \div R, n)[1] = IF v < n THEN v ELSE v - n
  BY <1>1, <1>2, TrySubValue
<1>4. v % n = IF v < n THEN v ELSE v - n
  BY <1>1, ModBelowTwice
<1> QED
  BY <1>3, <1>4

\* The boxed correction reduces it too: p is added back exactly when the
\* subtraction went below zero as a whole.
LEMMA SubAssignReduces ==
    ASSUME NEW v \in Nat, NEW n \in Uint, n > 0, v < 2 * n
    PROVE  SubAssignModWithCarry(v % R, v \div R, n) = v % n
<1> DEFINE lo == v % R
           hi == v \div R
           sub == UintBorrowingSub(lo, n, 0)
<1>1. R \in Nat /\ R > 0 /\ n \in Nat /\ n < R
  BY BaseFacts, SMT DEF Uint
<1>2. v % n = IF v < n THEN v ELSE v - n
  BY <1>1, ModBelowTwice
<1>3. lo \in Uint /\ sub = IF lo >= n THEN <<lo - n, 0>>
                                      ELSE <<lo - n + R, WordMAX>>
  <2>1. lo \in Uint
    BY <1>1, DivMod, SMT DEF Uint
  <2> QED
    BY <2>1, PlainSub
<1>4. WordMAX # 0
  BY BaseFacts, SMT DEF WordMAX
<1>5. SubAssignModWithCarry(lo, hi, n)
        = UintConditionalAdd(sub[1], n, 0, hi = 0 /\ sub[2] # 0)[1]
  BY DEF SubAssignModWithCarry
<1> HIDE DEF lo, hi, sub
<1>6. sub[1] \in Int
  BY <1>1, <1>3, SMT DEF Uint
<1>7. ~(hi = 0 /\ sub[2] # 0) => SubAssignModWithCarry(lo, hi, n) = sub[1] % R
  BY <1>1, <1>5, <1>6, SMT DEF UintConditionalAdd, UintCarryingAdd, Masked
<1>8. (hi = 0 /\ sub[2] # 0) =>
           SubAssignModWithCarry(lo, hi, n) = (sub[1] + n) % R
  BY <1>1, <1>5, <1>6, SMT DEF UintConditionalAdd, UintCarryingAdd, Masked
<1>9. CASE v < R
  <2>1. lo = v /\ hi = 0
    <3>1. v = R * 0 + v /\ v \in 0..(R - 1)
      BY <1>1, <1>9, SMT
    <3> QED
      BY <1>1, <3>1, DivisionIs, SMT DEF lo, hi
  <2>2. CASE v >= n
    <3>1. sub = <<v - n, 0>>
      BY <1>3, <2>1, <2>2
    <3>2. SubAssignModWithCarry(lo, hi, n) = (v - n) % R
      BY <1>7, <3>1
    <3>3. v - n \in 0..(R - 1) /\ v - n = R * 0 + (v - n)
      BY <1>1, <1>9, <2>2, SMT
    <3>4. (v - n) % R = v - n
      BY <1>1, <3>3, DivisionIs, SMT
    <3> QED
      BY <1>1, <1>2, <2>2, <3>2, <3>4, SMT DEF lo, hi
  <2>3. CASE ~(v >= n)
    <3>1. sub = <<v - n + R, WordMAX>>
      BY <1>3, <2>1, <2>3
    <3>2. SubAssignModWithCarry(lo, hi, n) = (v - n + R + n) % R
      BY <1>4, <1>8, <2>1, <3>1
    <3>3. v - n + R + n = R * 1 + v /\ v \in 0..(R - 1)
      BY <1>1, <1>9, SMT
    <3>4. (v - n + R + n) % R = v
      BY <1>1, <3>3, DivisionIs, SMT
    <3> QED
      BY <1>1, <1>2, <2>3, <3>2, <3>4, SMT DEF lo, hi
  <2> QED
    BY <2>2, <2>3
<1>10. CASE ~(v < R)
  <2>1. lo = v - R /\ hi = 1
    <3>1. v = R * 1 + (v - R) /\ v - R \in 0..(R - 1)
      BY <1>1, <1>10, SMT
    <3> QED
      BY <1>1, <3>1, DivisionIs, SMT DEF lo, hi
  <2>2. sub = <<v - R - n + R, WordMAX>>
    BY <1>1, <1>3, <2>1, SMT
  <2>3. SubAssignModWithCarry(lo, hi, n) = (v - R - n + R) % R
    BY <1>7, <2>1, <2>2
  <2>4. v - R - n + R = R * 0 + (v - n) /\ v - n \in 0..(R - 1)
    BY <1>1, <1>10, SMT
  <2>5. (v - R - n + R) % R = v - n
    BY <1>1, <2>4, DivisionIs, SMT
  <2> QED
    BY <1>1, <1>2, <1>10, <2>3, <2>5, SMT DEF lo, hi
<1> QED
  BY <1>9, <1>10 DEF lo, hi

\* sub_mod and its boxed form: p is added back exactly when the difference is
\* negative.
LEMMA SubModReduces ==
    ASSUME NEW a \in Uint, NEW b \in Uint, NEW n \in Uint, n > 0,
           a - b >= -n, a - b < n
    PROVE  /\ SubMod(a, b, n) = (a - b) % n
           /\ BoxedSubMod(a, b, n) = (a - b) % n
<1> DEFINE sub == UintBorrowingSub(a, b, 0)
<1>1. /\ R \in Nat /\ R > 0 /\ a \in Nat /\ b \in Nat /\ n \in Nat
      /\ a < R /\ b < R /\ n < R
  BY BaseFacts, SMT DEF Uint
<1>2. (a - b) % n = IF a - b >= 0 THEN a - b ELSE a - b + n
  <2>1. a - b \in Int
    BY <1>1, SMT
  <2> QED
    BY <1>1, <2>1, ModOfDifference
<1>3. sub = IF a >= b THEN <<a - b, 0>> ELSE <<a - b + R, WordMAX>>
  BY PlainSub
<1>4. WordMAX # 0
  BY BaseFacts, SMT DEF WordMAX
<1>5. SubMod(a, b, n) = UintWrappingAdd(sub[1], Masked(n, sub[2] # 0))
  BY DEF SubMod
<1>6. BoxedSubMod(a, b, n) = UintWrappingAdd(sub[1], Masked(n, sub[2] # 0))
  BY DEF BoxedSubMod, UintConditionalAdd, UintWrappingAdd
<1> HIDE DEF sub
<1>7. CASE a >= b
  <2>1. sub = <<a - b, 0>>
    BY <1>3, <1>7
  <2>2. Masked(n, sub[2] # 0) = 0
    BY <2>1 DEF Masked
  <2>3. UintWrappingAdd(a - b, 0) = a - b
    <3>1. a - b \in Uint /\ 0 \in Uint
      BY <1>1, <1>7, SMT DEF Uint
    <3>2. UintWrappingAdd(a - b, 0)
            = IF a - b + 0 < R THEN a - b + 0 ELSE a - b + 0 - R
      BY <3>1, WrappingAddValue
    <3> QED
      BY <1>1, <3>1, <3>2, SMT DEF Uint
  <2>4. (a - b) % n = a - b
    BY <1>1, <1>2, <1>7, SMT
  <2> QED
    BY <1>5, <1>6, <2>1, <2>2, <2>3, <2>4
<1>8. CASE ~(a >= b)
  <2>1. sub = <<a - b + R, WordMAX>>
    BY <1>3, <1>8
  <2>2. Masked(n, sub[2] # 0) = n
    BY <1>4, <2>1 DEF Masked
  <2>3. UintWrappingAdd(a - b + R, n) = a - b + n
    <3>1. a - b + R \in Uint
      BY <1>1, <1>8, SMT DEF Uint
    <3>2. UintWrappingAdd(a - b + R, n)
            = IF a - b + R + n < R THEN a - b + R + n ELSE a - b + R + n - R
      BY <3>1, WrappingAddValue
    <3>3. CASE a - b + R + n < R
      BY <1>1, <3>3, SMT
    <3>4. CASE ~(a - b + R + n < R)
      BY <1>1, <3>2, <3>4, SMT
    <3> QED
      BY <3>3, <3>4
  <2>4. (a - b) % n = a - b + n
    BY <1>1, <1>2, <1>8, SMT
  <2> QED
    BY <1>5, <1>6, <2>1, <2>2, <2>3, <2>4
<1> QED
  BY <1>7, <1>8

\* neg_mod: the complement in p, except of zero.
LEMMA NegModReduced ==
    ASSUME NEW n \in Uint, n > 0, NEW a \in 0..(n - 1)
    PROVE  NegMod(a, n) = (-a) % n
<1>1. /\ n \in Nat /\ n < R /\ R \in Nat /\ a \in Uint /\ a \in Nat /\ a < n
  BY BaseFacts, SMT DEF Uint
<1>2. UintWrappingSub(n, a) = n - a
  <2>1. UintBorrowingSub(n, a, 0) = <<n - a, 0>>
    BY <1>1, PlainSub, SMT
  <2> QED
    BY <2>1 DEF UintWrappingSub
<1>3. NegMod(a, n) = IF a = 0 THEN 0 ELSE n - a
  BY <1>2 DEF NegMod, Select
<1>4. (-a) % n = IF -a >= 0 THEN -a ELSE -a + n
  <2>1. -a \in Int /\ -a >= -n /\ -a < n
    BY <1>1, SMT
  <2> QED
    BY <1>1, <2>1, ModOfDifference
<1>5. CASE a = 0
  BY <1>3, <1>4, <1>5, SMT
<1>6. CASE a # 0
  BY <1>1, <1>3, <1>4, <1>6, SMT
<1> QED
  BY <1>5, <1>6

\* The radix is even.
LEMMA RadixEven == R % 2 = 0
<1>1. HalfB \in Nat /\ N \in Nat /\ N >= 1 /\ N - 1 \in 0..(2 * N - 1)
  BY BaseAssumption, BaseFacts, SMT
<1>2. W[N - 1] \in Nat /\ R = B * W[N - 1]
  BY <1>1, WeightAssumption, SMT DEF R
<1>3. R = 2 * (HalfB * W[N - 1]) + 0
  BY <1>1, <1>2, SMT DEF B
<1>4. R \in Int /\ HalfB * W[N - 1] \in Int
  BY <1>1, <1>2, BaseFacts, SMT
<1> QED
  BY <1>3, <1>4, DivisionIs, SMT

\* div_by_2: the half of a or of a + p, whose carry out of the top limb is the
\* top bit of the result.
LEMMA HalfReduced ==
    ASSUME NEW n \in Uint, n > 0, NEW a \in 0..(n - 1), n % 2 = 1
    PROVE  /\ DivBy2(a, n) \in 0..(n - 1)
           /\ 2 * DivBy2(a, n) = a \/ 2 * DivBy2(a, n) = a + n
<1>1. /\ n \in Nat /\ n < R /\ R \in Nat /\ R > 0
      /\ a \in Uint /\ a \in Nat /\ a < n
  BY BaseFacts, SMT DEF Uint
<1>0. R % 2 = 0
  BY RadixEven
<1> DEFINE s  == a + n
           lo == s % R
           hi == s \div R
<1>2. CASE a % 2 = 0
  <2>1. DivBy2(a, n) = (a \div 2) + 0
    BY <1>2, SMT DEF DivBy2, Select, is_nonzero
  <2>2. a = 2 * (a \div 2) + 0 /\ a \div 2 \in Nat
    BY <1>1, <1>2, DivMod, SMT
  <2> QED
    BY <1>1, <2>1, <2>2, SMT
<1>3. CASE a % 2 # 0
  <2>1. a % 2 = 1
    BY <1>1, <1>3, SMT
  <2>2. UintCarryingAdd(a, n, 0) = <<lo, hi>>
    BY <1>1, SumSplits
  <2>3. DivBy2(a, n) = (lo \div 2) + (IF hi # 0 THEN R \div 2 ELSE 0)
    BY <2>1, <2>2 DEF DivBy2, Select, is_nonzero
  <2>4. \/ hi = 0 /\ lo = s /\ s < R
        \/ hi = 1 /\ lo = s - R /\ s >= R
    <3>1. CASE s < R
      <4>1. s = R * 0 + s /\ s \in 0..(R - 1)
        BY <1>1, <3>1, SMT
      <4> QED
        BY <1>1, <3>1, <4>1, DivisionIs, SMT
    <3>2. CASE ~(s < R)
      <4>1. s = R * 1 + (s - R) /\ s - R \in 0..(R - 1)
        BY <1>1, <3>2, SMT
      <4> QED
        BY <1>1, <3>2, <4>1, DivisionIs, SMT
    <3> QED
      BY <3>1, <3>2
  <2>5. s % 2 = 0
    BY <1>1, <2>1, SMT
  <2>6. R = 2 * (R \div 2) /\ s = 2 * (s \div 2) /\ (s - R) = 2 * ((s - R) \div 2)
    BY <1>0, <1>1, <2>5, SMT
  <2> HIDE DEF lo, hi
  <2>7. 2 * DivBy2(a, n) = s /\ DivBy2(a, n) \in Int
    <3>1. CASE hi = 0 /\ lo = s
      <4>1. DivBy2(a, n) = s \div 2
        BY <1>1, <2>3, <3>1, SMT
      <4> QED
        BY <1>1, <2>6, <4>1, SMT
    <3>2. CASE hi = 1 /\ lo = s - R
      <4>1. DivBy2(a, n) = ((s - R) \div 2) + (R \div 2)
        BY <2>3, <3>2, SMT
      <4> QED
        BY <1>1, <2>6, <4>1, SMT
    <3> QED
      BY <2>4, <3>1, <3>2
  <2> QED
    BY <1>1, <2>7, SMT
<1> QED
  BY <1>2, <1>3

\* Halving is the inverse of doubling: the one residue whose double is a.
LEMMA HalfIsHalf ==
    ASSUME NEW n \in Uint, n > 0, NEW a \in 0..(n - 1), n % 2 = 1
    PROVE  /\ DivBy2(a, n) \in 0..(n - 1)
           /\ DivBy2(a, n) = CHOOSE w \in 0..(n - 1) : (w + w) % n = a
<1> DEFINE h == DivBy2(a, n)
<1>1. n \in Nat /\ a \in Nat /\ a < n
  BY BaseFacts, SMT DEF Uint
<1>2. h \in 0..(n - 1) /\ (2 * h = a \/ 2 * h = a + n)
  BY HalfReduced
<1> HIDE DEF h
<1>3. ASSUME NEW w \in 0..(n - 1)
      PROVE  (w + w) % n = a <=> (w + w = a \/ w + w = a + n)
  <2>1. (w + w) % n = IF w + w < n THEN w + w ELSE w + w - n
    <3>1. w + w \in Nat /\ w + w < 2 * n
      BY <1>1, SMT
    <3> QED
      BY <1>1, <3>1, ModBelowTwice
  <2> QED
    BY <1>1, <2>1, SMT
<1>4. (h + h) % n = a
  BY <1>1, <1>2, <1>3, SMT
<1>5. ASSUME NEW w \in 0..(n - 1), (w + w) % n = a
      PROVE  w = h
  <2>1. w + w = a \/ w + w = a + n
    BY <1>3, <1>5
  <2>2. n = 2 * (n \div 2) + 1 /\ n \div 2 \in Int
    BY <1>1, DivMod, SMT
  <2> QED
    BY <1>1, <1>2, <2>1, <2>2, SMT
<1>6. h = CHOOSE w \in 0..(n - 1) : (w + w) % n = a
  BY <1>2, <1>4, <1>5
<1> QED
  BY <1>2, <1>6 DEF h

----------------------------------------------------------------------------
(* Congruence modulo a number.                                             *)

\* Integers a multiple of n apart have the same remainder.
LEMMA SameResidue ==
    ASSUME NEW n \in Nat, n > 0, NEW a \in Int, NEW b \in Int, NEW d \in Int,
           a = b + d * n
    PROVE  a % n = b % n
<1> DEFINE e == b \div n
           r == b % n
<1>1. e \in Int /\ r \in 0..(n - 1) /\ b = n * e + r
  BY DivMod, SMT
<1> HIDE DEF e, r
<1>2. a = n * (e + d) + r /\ e + d \in Int
  BY <1>1, SMT
<1>3. a % n = r
  BY <1>1, <1>2, DivisionIs
<1> QED
  BY <1>3 DEF r

\* The same, for a citation of which the provers would not find the factors.
Apart(a, b, d, n) == a = b + d * n

\* Then the remainders are equal.
LEMMA ResidueApart ==
    ASSUME NEW n \in Nat, n > 0, NEW a \in Int, NEW b \in Int, NEW d \in Int,
           Apart(a, b, d, n)
    PROVE  a % n = b % n
<1>1. a = b + d * n
  BY DEF Apart
<1> QED
  BY <1>1, SameResidue

\* And integers with the same remainder are a multiple apart.
LEMMA ResidueGap ==
    ASSUME NEW n \in Nat, n > 0, NEW a \in Int, NEW b \in Int, a % n = b % n
    PROVE  \E d \in Int : a = b + d * n
<1> DEFINE ea == a \div n
           eb == b \div n
           r  == a % n
<1>1. ea \in Int /\ eb \in Int /\ r \in Nat
      /\ a = n * ea + r /\ b = n * eb + r
  BY DivMod
<1> HIDE DEF ea, eb, r
<1>2. a = b + (ea - eb) * n /\ ea - eb \in Int
  BY <1>1, SMT
<1> QED
  BY <1>2

\* A residue is its own remainder.
LEMMA ResidueItself ==
    ASSUME NEW n \in Nat, n > 0, NEW v \in 0..(n - 1)
    PROVE  v % n = v
<1>1. v = n * 0 + v /\ v \in Int
  BY SMT
<1> QED
  BY <1>1, DivisionIs, SMT

\* An integer differs from its remainder by a multiple.
LEMMA RemainderGap ==
    ASSUME NEW n \in Nat, n > 0, NEW a \in Int
    PROVE  /\ a % n \in 0..(n - 1)
           /\ \E d \in Int : a % n = a + d * n
<1> DEFINE e == a \div n
           r == a % n
<1>1. e \in Int /\ r \in 0..(n - 1) /\ a = n * e + r
  BY DivMod, SMT
<1> HIDE DEF e, r
<1>2. r = a + (-e) * n /\ -e \in Int
  BY <1>1, SMT
<1>3. \E d \in Int : r = a + d * n
  BY <1>2
<1> QED
  BY <1>1, <1>3 DEF r

\* Doubling maps at most one residue to a residue of an odd modulus.
LEMMA HalfUnique ==
    ASSUME NEW n \in Nat, n > 0, n % 2 = 1,
           NEW a \in 0..(n - 1), NEW b \in 0..(n - 1), (a + a) % n = (b + b) % n
    PROVE  a = b
<1>1. PICK d \in Int : a + a = b + b + d * n
  <2>1. a + a \in Int /\ b + b \in Int
    BY SMT
  <2> QED
    BY <2>1, ResidueGap
<1>2. d \in {-1, 0, 1}
  <2>1. d * n = n * d /\ n * d <= 2 * (n - 1) /\ n * d >= -(2 * (n - 1))
    BY <1>1, SMT
  <2>2. n * d < n * 2 /\ n * (-2) < n * d
    BY <2>1, SMT
  <2>3. d < 2 /\ -2 < d
    BY <2>2, Cancel, SMT
  <2> QED
    BY <2>3, SMT
<1>3. d * n = -n \/ d * n = 0 \/ d * n = n
  BY <1>2, SMT
<1> QED
  BY <1>1, <1>3, SMT

----------------------------------------------------------------------------
(* Montgomery arithmetic.                                                  *)

\* What the parameters of a modulus hold in mod_neg_inv.
HasNegInv(n) == \E k \in Word : IsModNegInv(k, n)

\* So the radix is a unit modulo n: some c*R is one more than a multiple.
LEMMA RadixInverse ==
    ASSUME NEW n \in Nat, HasNegInv(n)
    PROVE  \E g, c \in Nat : g * n + 1 = c * R
<1> DEFINE Unit(i) == \E g, c \in Nat : g * n + 1 = c * W[i]
           S == {i \in Nat : i <= N => Unit(i)}
<1>1. PICK k \in Nat : IsModNegInv(k, n)
  BY BaseFacts, SMT DEF HasNegInv, Word
<1>2. 0 \in S
  <2>1. 0 * n + 1 = 1 * W[0]
    BY WeightAssumption, SMT
  <2> QED
    BY <2>1
<1>3. ASSUME NEW i \in S PROVE i + 1 \in S
  <2> SUFFICES ASSUME i + 1 <= N PROVE Unit(i + 1)
    BY SMT
  <2>1. i \in 0..(2 * N) /\ i < 2 * N /\ i <= N
    BY BaseFacts, SMT
  <2>2. W[i] \in Nat /\ W[i + 1] = B * W[i]
    BY <2>1, WeightFacts
  <2>3. PICK g \in Nat, c \in Nat : g * n + 1 = c * W[i]
    BY <2>1
  <2>4. PICK u : u = ((c % B) * k) % B
    OBVIOUS
  <2>5. PICK z \in Nat : c + u * n = B * z
    BY <1>1, <2>4, ClearsLowLimb
  <2>6. u \in Nat
    <3>1. (c % B) * k \in Nat
      BY BaseFacts, DivMod, SMT
    <3> QED
      BY <2>4, <3>1, BaseFacts, DivMod
  <2>7. (g + u * W[i]) * n + 1 = z * W[i + 1] /\ g + u * W[i] \in Nat
    <3>1. (g + u * W[i]) * n + 1 = (c + u * n) * W[i]
      <4>1. (g + u * W[i]) * n = g * n + (u * n) * W[i]
        BY <2>2, <2>6, SMT
      <4>2. (c + u * n) * W[i] = c * W[i] + (u * n) * W[i]
        BY <2>2, <2>6, SMT
      <4>3. g * n \in Int /\ (u * n) * W[i] \in Int
        BY <2>2, <2>6, SMT
      <4> QED
        BY <4>1, <4>2, <4>3, <2>3, SMT
    <3>2. (B * z) * W[i] = z * (B * W[i])
      BY <2>2, BaseFacts, SMT
    <3> QED
      BY <2>2, <2>5, <2>6, <3>1, <3>2, SMT
  <2> QED
    BY <2>7
<1>4. S = Nat
  <2> HIDE DEF S
  <2>1. S \in SUBSET Nat
    BY DEF S
  <2> QED
    BY <1>2, <1>3, <2>1, SetInduction
<1>5. N \in S
  BY <1>4, BaseFacts
<1> QED
  BY <1>5, BaseFacts DEF R

\* A factor R can be cancelled modulo n.
LEMMA CancelRadix ==
    ASSUME NEW n \in Nat, n > 0, HasNegInv(n),
           NEW a \in Int, NEW b \in Int, (a * R) % n = (b * R) % n
    PROVE  a % n = b % n
<1>1. PICK g \in Nat, c \in Nat : g * n + 1 = c * R
  BY RadixInverse
<1>2. R \in Nat /\ a * R \in Int /\ b * R \in Int
  BY BaseFacts, SMT
<1>3. PICK d \in Int : a * R = b * R + d * n
  BY <1>2, ResidueGap
<1>4. a = b + (d * c + b * g - a * g) * n
  <2>1. (a * R) * c = (b * R) * c + (d * n) * c
    BY <1>2, <1>3, SMT
  <2>2. (a * R) * c = a * (g * n + 1) /\ (b * R) * c = b * (g * n + 1)
    BY <1>1, <1>2, SMT
  <2> QED
    BY <2>1, <2>2, SMT
<1> DEFINE e == d * c + b * g - a * g
<1>5. e \in Int /\ a = b + e * n
  BY <1>4, SMT
<1> HIDE DEF e
<1> QED
  BY <1>5, SameResidue

\* The accumulator of a multiplication or reduction is (t + q*n)/R, q below R.
LEMMA AccFacts ==
    ASSUME NEW n \in Nat, HasNegInv(n), NEW t \in Nat
    PROVE  /\ Acc(t, n) \in Nat
           /\ \E q \in 0..(R - 1) : Acc(t, n) * R = t + q * n
<1>1. PICK g \in Nat, c \in Nat : g * n + 1 = c * R
  BY RadixInverse
<1>2. R \in Nat /\ R > 0
  BY BaseFacts
<1>3. \E q \in 0..(R - 1) : (t + q * n) % R = 0
  <2> DEFINE d == (t * g) \div R
             q == (t * g) % R
  <2>1. d \in Int /\ q \in 0..(R - 1) /\ t * g = R * d + q
    <3>1. t * g \in Nat
      BY SMT
    <3> QED
      BY <1>2, <3>1, DivMod, SMT
  <2> HIDE DEF d, q
  <2>2. t + q * n = R * (t * c - d * n) + 0
    <3>1. t + q * n = t * (g * n + 1) - (R * d) * n
      BY <1>2, <2>1, SMT
    <3>2. t * (c * R) - (R * d) * n = R * (t * c - d * n)
      BY <1>2, <2>1, SMT
    <3> QED
      BY <1>1, <1>2, <2>1, <3>1, <3>2, SMT
  <2>3. t + q * n \in Int /\ t * c - d * n \in Int /\ 0 \in 0..(R - 1)
    BY <1>2, <2>1, SMT
  <2> DEFINE s == t + q * n
             z == t * c - d * n
  <2>4. s \in Int /\ z \in Int /\ s = R * z + 0
    BY <2>2, <2>3
  <2> HIDE DEF s, z
  <2>5. s % R = 0
    BY <1>2, <2>3, <2>4, DivisionIs
  <2> QED
    BY <2>1, <2>5 DEF s
<1> DEFINE q == Clearing(t, n)
<1>4. q \in 0..(R - 1) /\ (t + q * n) % R = 0
  BY <1>3 DEF Clearing
<1> HIDE DEF q
<1> DEFINE s == t + q * n
<1>5. s \in Nat
  BY <1>2, <1>4, SMT
<1>6. Acc(t, n) = s \div R
  BY DEF Acc, q
<1>7. s = R * (s \div R) + 0 /\ s \div R \in Nat
  <2>1. s % R = 0
    BY <1>4
  <2> HIDE DEF s
  <2> QED
    BY <1>2, <1>5, <2>1, DivMod
<1>8. Acc(t, n) * R = t + q * n
  <2>1. Acc(t, n) \in Nat /\ s = R * Acc(t, n) + 0
    BY <1>6, <1>7
  <2> QED
    BY <1>2, <2>1, SMT
<1> QED
  BY <1>4, <1>6, <1>7, <1>8

\* It is below the next multiple of the modulus.
LEMMA AccBelow ==
    ASSUME NEW n \in Nat, n > 0, HasNegInv(n), NEW t \in Nat,
           NEW c \in Nat, t <= R * (c * n)
    PROVE  Acc(t, n) < (c + 1) * n
<1> DEFINE acc == Acc(t, n)
<1>1. R \in Nat /\ R > 0
  BY BaseFacts
<1>2. acc \in Nat
  BY AccFacts
<1>3. PICK q \in 0..(R - 1) : acc * R = t + q * n
  BY AccFacts
<1> HIDE DEF acc
<1>4. n * q <= n * (R - 1)
  BY <1>1, Monotone, SMT
<1>5. R * ((c + 1) * n) = R * (c * n) + R * n
  BY <1>1, SMT
<1>6. R * acc < R * ((c + 1) * n)
  <2>1. n * (R - 1) = R * n - n
    BY <1>1, SMT
  <2>2. R * acc = t + n * q /\ n * q \in Int /\ R * n \in Int
        /\ R * (c * n) \in Int
    BY <1>1, <1>2, <1>3, SMT
  <2> QED
    BY <2>1, <2>2, <1>4, <1>5, SMT
<1>7. acc < (c + 1) * n
  <2>1. (c + 1) * n \in Int
    BY SMT
  <2> QED
    BY <1>1, <1>2, <1>6, <2>1, Cancel
<1> QED
  BY <1>7 DEF acc

\* And, for an operand that is itself a residue, below the modulus.
LEMMA RetrieveBelow ==
    ASSUME NEW n \in Nat, n > 0, HasNegInv(n), NEW t \in 0..(n - 1)
    PROVE  Acc(t, n) < n
<1> DEFINE acc == Acc(t, n)
<1>1. R \in Nat /\ R > 0 /\ t \in Nat
  BY BaseFacts
<1>2. acc \in Nat
  BY <1>1, AccFacts
<1>3. PICK q \in 0..(R - 1) : acc * R = t + q * n
  BY <1>1, AccFacts
<1> HIDE DEF acc
<1>4. n * q <= n * (R - 1)
  BY <1>1, Monotone, SMT
<1>5. R * acc < R * n
  <2>1. n * (R - 1) = R * n - n
    BY <1>1, SMT
  <2>2. R * acc = t + n * q /\ n * q \in Int /\ R * n \in Int
    BY <1>1, <1>2, <1>3, SMT
  <2> QED
    BY <2>1, <2>2, <1>4, SMT
<1>6. acc < n
  BY <1>1, <1>2, <1>5, Cancel
<1> QED
  BY <1>6 DEF acc

\* A product of N-limb factors accumulates to less than either plus n.
LEMMA AccOfProduct ==
    ASSUME NEW n \in Nat, n > 0, HasNegInv(n), NEW a \in Uint, NEW b \in Uint
    PROVE  a * b \in Nat /\ Acc(a * b, n) < b + n
<1> DEFINE t   == a * b
           acc == Acc(t, n)
<1>1. R \in Nat /\ R > 0 /\ a \in Nat /\ b \in Nat /\ a <= R
  BY BaseFacts, SMT DEF Uint
<1>2. t \in Nat /\ t <= R * b
  <2>1. b * a <= b * R
    BY <1>1, Monotone
  <2> QED
    BY <1>1, <2>1, SMT
<1> HIDE DEF t
<1>3. acc \in Nat
  BY <1>2, AccFacts
<1>4. PICK q \in 0..(R - 1) : acc * R = t + q * n
  BY <1>2, AccFacts
<1> HIDE DEF acc
<1>5. n * q <= n * (R - 1) /\ n * (R - 1) = R * n - n
  BY <1>1, Monotone, SMT
<1>6. R * acc < R * (b + n)
  <2>1. R * acc = t + n * q /\ R * (b + n) = R * b + R * n
        /\ n * q \in Int /\ R * n \in Int /\ R * b \in Int
    BY <1>1, <1>3, <1>4, SMT
  <2> QED
    BY <2>1, <1>2, <1>5, SMT
<1>7. acc < b + n
  <2>1. b + n \in Int
    BY <1>1, SMT
  <2> QED
    BY <1>1, <1>3, <1>6, <2>1, Cancel
<1> QED
  BY <1>2, <1>7 DEF acc, t

\* The accumulator stands for t/R modulo n.
LEMMA AccCongruent ==
    ASSUME NEW n \in Nat, n > 0, HasNegInv(n), NEW t \in Nat
    PROVE  /\ (Acc(t, n) * R) % n = t % n
           /\ ((Acc(t, n) % n) * R) % n = t % n
<1> DEFINE acc == Acc(t, n)
           r   == acc % n
<1>1. R \in Nat /\ acc \in Nat
  BY BaseFacts, AccFacts
<1>2. PICK q \in 0..(R - 1) : acc * R = t + q * n
  BY AccFacts
<1> HIDE DEF acc
<1>3. r \in 0..(n - 1)
  BY <1>1, RemainderGap
<1>4. PICK d \in Int : acc % n = acc + d * n
  <2>1. acc \in Int
    BY <1>1
  <2> QED
    BY <2>1, RemainderGap
<1> HIDE DEF r
<1> DEFINE v == acc * R
           w == r * R
           e == d * R + q
<1>5. v \in Int /\ w \in Int /\ e \in Int /\ q \in Int /\ t \in Int
  BY <1>1, <1>3, SMT
<1>6. v = t + q * n /\ w = t + e * n
  <2>1. r = acc + d * n
    BY <1>4 DEF r
  <2> QED
    BY <1>1, <1>2, <1>3, <2>1, SMT
<1> HIDE DEF v, w, e
<1>7. v % n = t % n
  BY <1>5, <1>6, SameResidue
<1>8. w % n = t % n
  BY <1>5, <1>6, SameResidue
<1> QED
  BY <1>7, <1>8 DEF v, w, acc, r

\* Every form stands for a residue.
LEMMA ResidueExists ==
    ASSUME NEW n \in Nat, n > 0, HasNegInv(n), NEW t \in Nat
    PROVE  /\ Acc(t, n) % n \in 0..(n - 1)
           /\ \E v \in 0..(n - 1) : (v * R) % n = t % n
<1>1. Acc(t, n) % n \in 0..(n - 1)
  BY AccFacts, ResidueOf, SMT
<1> QED
  BY <1>1, AccCongruent

\* And for one only.
LEMMA ResidueUnique ==
    ASSUME NEW n \in Nat, n > 0, HasNegInv(n),
           NEW v \in 0..(n - 1), NEW w \in 0..(n - 1), (v * R) % n = (w * R) % n
    PROVE  v = w
<1>1. v % n = w % n
  BY CancelRadix, SMT
<1> QED
  BY <1>1, ResidueItself

\* Multiplication with one factor reduced is exact, in both types.
LEMMA MulForm ==
    ASSUME NEW n \in Uint, n > 0, HasNegInv(n), NEW a \in Uint, NEW b \in Uint,
           a < n \/ b < n
    PROVE  /\ a * b \in Nat
           /\ mul_montgomery_form(a, b, n) = Acc(a * b, n) % n
           /\ SubAssignModWithCarry(Out(Acc(a * b, n)), Over(Acc(a * b, n)), n)
                = Acc(a * b, n) % n
<1> DEFINE t   == a * b
           acc == Acc(t, n)
<1>1. /\ R \in Nat /\ R > 0 /\ n \in Nat
      /\ a \in Nat /\ a < R /\ b \in Nat /\ b < R
  BY BaseFacts, SMT DEF Uint
<1>2. t \in Nat /\ t <= R * (1 * n)
  <2>1. CASE a < n
    <3>1. b * a <= b * n /\ n * b <= n * R
      BY <1>1, <2>1, Monotone, SMT
    <3> QED
      BY <1>1, <3>1, SMT
  <2>2. CASE b < n
    <3>1. a * b <= a * n /\ n * a <= n * R
      BY <1>1, <2>2, Monotone, SMT
    <3> QED
      BY <1>1, <3>1, SMT
  <2> QED
    BY <2>1, <2>2
<1> HIDE DEF t
<1>3. acc \in Nat /\ acc < 2 * n
  <2>1. acc < (1 + 1) * n
    BY <1>1, <1>2, AccBelow
  <2> QED
    BY <2>1, <1>1, <1>2, AccFacts, SMT
<1> HIDE DEF acc
<1>4. /\ TrySubWithCarry(acc % R, acc \div R, n)[1] = acc % n
      /\ SubAssignModWithCarry(acc % R, acc \div R, n) = acc % n
  BY <1>3, TrySubReduces, SubAssignReduces
<1> QED
  BY <1>2, <1>4 DEF mul_montgomery_form, Out, Over, acc, t

\* Almost Montgomery multiplication: its result fits, is as many multiples of
\* n high as the product allows, and stands for the product.
LEMMA AlmostMul ==
    ASSUME NEW n \in Uint, n > 0, HasNegInv(n), NEW a \in Uint, NEW b \in Uint,
           NEW c \in Nat, a * b <= R * (c * n)
    PROVE  /\ almost_montgomery_mul(a, b, n) \in Uint
           /\ almost_montgomery_mul(a, b, n) < (c + 1) * n
           /\ (almost_montgomery_mul(a, b, n) * R) % n = (a * b) % n
<1> DEFINE t   == a * b
           acc == Acc(t, n)
           r   == almost_montgomery_mul(a, b, n)
           hi  == acc \div R
<1>1. R \in Nat /\ R > 0 /\ n \in Nat /\ n < R /\ b \in Nat /\ b < R
  BY BaseFacts, SMT DEF Uint
<1>2. t \in Nat /\ acc < b + n
  BY <1>1, AccOfProduct
<1>3. acc \in Nat /\ acc < (c + 1) * n /\ (acc * R) % n = t % n
  <2> HIDE DEF t
  <2>1. t <= R * (c * n)
    BY DEF t
  <2> QED
    BY <1>1, <1>2, <2>1, AccFacts, AccBelow, AccCongruent
<1>4. r = UintConditionalBorrowingSub(acc % R, n, hi # 0)[1]
  BY DEF almost_montgomery_mul, Out, Over
<1> HIDE DEF t, acc
<1>5. acc < R + n
  BY <1>1, <1>2, <1>3, SMT
<1>6. hi # 0 <=> lsb_to_choice(hi)
  <2>1. CASE acc < R
    <3>1. acc = R * 0 + acc /\ acc \in 0..(R - 1)
      BY <1>1, <1>3, <2>1, SMT
    <3>2. hi = 0
      BY <1>1, <3>1, DivisionIs, SMT
    <3> QED
      BY <3>2, MaxIsOdd
  <2>2. CASE ~(acc < R)
    <3>1. acc = R * 1 + (acc - R) /\ acc - R \in 0..(R - 1)
      BY <1>1, <1>3, <1>5, <2>2, SMT
    <3>2. hi = 1
      BY <1>1, <3>1, DivisionIs, SMT
    <3> QED
      BY <3>2, SMT DEF lsb_to_choice
  <2> QED
    BY <2>1, <2>2
<1>7. r = IF acc < R THEN acc ELSE acc - n
  <2>1. r = UintConditionalBorrowingSub(acc % R, n, lsb_to_choice(hi))[1]
    BY <1>4, <1>6 DEF UintConditionalBorrowingSub, Masked
  <2> QED
    BY <1>3, <1>5, <2>1, OverflowSubValue
<1> HIDE DEF r
<1>8. r \in Uint /\ r < (c + 1) * n
  <2>1. (c + 1) * n \in Int
    BY <1>1, SMT
  <2> QED
    BY <2>1, <1>1, <1>3, <1>5, <1>7, SMT DEF Uint
<1>9. (r * R) % n = (acc * R) % n
  <2>1. CASE acc < R
    BY <1>7, <2>1
  <2>2. CASE ~(acc < R)
    <3> DEFINE v == r * R
               w == acc * R
    <3>1. v \in Int /\ w \in Int /\ -R \in Int /\ v = w + (-R) * n
      BY <1>1, <1>3, <1>7, <2>2, SMT
    <3> HIDE DEF v, w
    <3>2. v % n = w % n
      BY <1>1, <3>1, SameResidue
    <3> QED
      BY <3>2 DEF v, w
  <2> QED
    BY <2>1, <2>2
<1> QED
  BY <1>3, <1>8, <1>9 DEF r, t

\* try_sub_with_carry leaves no carry.
LEMMA TrySubNoCarry ==
    ASSUME NEW v \in Nat, NEW n \in Uint, v < R + n
    PROVE  TrySubWithCarry(v % R, v \div R, n)[2] = 0
<1> DEFINE lo == v % R
           hi == v \div R
           sub == UintBorrowingSub(lo, n, 0)
           revert == lsb_to_choice(sub[2]) /\ is_zero(hi)
           taken == Select(sub[2], 0, revert)
<1>1. R \in Nat /\ R > 0 /\ n \in Nat /\ n < R
  BY BaseFacts, SMT DEF Uint
<1>2. /\ hi \in Nat /\ lo \in Uint /\ lo \in Nat /\ lo < R
      /\ v = R * hi + lo
  BY <1>1, DivMod, SMT DEF Uint
<1>3. TrySubWithCarry(lo, hi, n)[2] = borrowing_sub(hi, 0, taken)[2]
  BY DEF TrySubWithCarry
<1>4. sub = IF lo >= n THEN <<lo - n, 0>> ELSE <<lo - n + R, WordMAX>>
  BY <1>2, PlainSub
<1> HIDE DEF lo, hi, sub
<1>5. hi = 0 \/ (hi = 1 /\ lo < n)
  <2>1. R * hi < R * 2
    BY <1>1, <1>2, SMT
  <2>2. hi < 2
    BY <1>1, <1>2, <2>1, Cancel, SMT
  <2>3. hi = 1 => lo < n
    BY <1>1, <1>2, SMT
  <2> QED
    BY <1>2, <2>2, <2>3, SMT
<1>6. \/ hi = 0 /\ taken = 0
      \/ hi = 1 /\ taken = WordMAX
  <2>1. CASE hi = 0
    <3>1. CASE lo >= n
      BY <1>4, <2>1, <3>1, MaxIsOdd DEF Select
    <3>2. CASE ~(lo >= n)
      BY <1>4, <2>1, <3>2, MaxIsOdd DEF Select, is_zero
    <3> QED
      BY <2>1, <3>1, <3>2
  <2>2. CASE hi = 1 /\ lo < n
    <3>1. sub[2] = WordMAX
      BY <1>1, <1>2, <1>4, <2>2, SMT
    <3>2. ~is_zero(hi)
      BY <2>2, SMT DEF is_zero
    <3> QED
      BY <2>2, <3>1, <3>2 DEF Select
  <2> QED
    BY <1>5, <2>1, <2>2
<1> HIDE DEF taken, revert
<1>7. HalfB \in Nat /\ HalfB > 0 /\ B \in Nat /\ B >= 2 /\ B = 2 * HalfB
  BY BaseAssumption, BaseFacts, SMT DEF B
<1>8. 0 \div HalfB = 0 /\ WordMAX \div HalfB = 1
  <2>1. WordMAX = HalfB * 1 + (HalfB - 1) /\ HalfB - 1 \in 0..(HalfB - 1)
    BY <1>7, SMT DEF WordMAX
  <2>2. 0 = HalfB * 0 + 0 /\ 0 \in 0..(HalfB - 1)
    BY <1>7, SMT
  <2>3. WordMAX \in Int
    BY <1>7, SMT DEF WordMAX
  <2> QED
    BY <1>7, <2>1, <2>2, <2>3, DivisionIs
<1>9. hi - (taken \div HalfB) = 0 /\ ~(hi < taken \div HalfB)
  BY <1>6, <1>8, SMT
<1>10. 0 % B = 0 /\ ~(0 < 0)
  BY <1>7, ResidueItself, SMT
<1>11. borrowing_sub(hi, 0, taken)[2] = 0
  BY <1>9, <1>10, Zenon DEF borrowing_sub, Mask
<1> QED
  BY <1>3, <1>11 DEF lo, hi

\* Two corrections reduce any accumulator below 3n.
LEMMA TwoSubtractions ==
    ASSUME NEW v \in Nat, NEW n \in Uint, n > 0, v < R + n, v < 3 * n,
           NEW once, once = TrySubWithCarry(v % R, v \div R, n)
    PROVE  TrySubWithCarry(once[1], once[2], n)[1] = v % n
<1> DEFINE w == IF v < n THEN v ELSE v - n
<1>1. R \in Nat /\ R > 0 /\ n \in Nat /\ n < R
  BY BaseFacts, SMT DEF Uint
<1>2. once[1] = w /\ once[2] = 0
  BY TrySubValue, TrySubNoCarry
<1>3. w \in Nat /\ w < R /\ w < 2 * n
  BY <1>1, SMT
<1>4. w % n = v % n
  <2>1. \E d \in Int : w = v + d * n
    <3>1. w = v + 0 * n \/ w = v + (-1) * n
      BY <1>1, SMT
    <3> QED
      BY <3>1
  <2> HIDE DEF w
  <2> QED
    BY <1>1, <1>3, <2>1, SameResidue
<1> HIDE DEF w
<1>5. w % R = w /\ w \div R = 0
  BY <1>1, <1>3, DivisionIs, SMT
<1>6. TrySubWithCarry(w % R, w \div R, n)[1] = w % n
  BY <1>1, <1>3, TrySubReduces
<1> QED
  BY <1>2, <1>4, <1>5, <1>6

----------------------------------------------------------------------------
(* What forms stand for: v stands behind form when v*R and form are        *)
(* congruent modulo n.                                                     *)

Stands(form, v, n) == v \in Int /\ (v * R) % n = form % n

\* v*R differs from the form by a multiple of n, and conversely.
LEMMA StandsGap ==
    ASSUME NEW n \in Nat, n > 0, NEW form \in Int, NEW v \in Int
    PROVE  Stands(form, v, n) <=> \E d \in Int : v * R = form + d * n
<1> DEFINE w == v * R
<1>1. w \in Int
  BY BaseFacts, SMT
<1> HIDE DEF w
<1>2. ASSUME w % n = form % n PROVE \E d \in Int : w = form + d * n
  BY <1>1, <1>2, ResidueGap
<1>3. ASSUME NEW d \in Int, w = form + d * n PROVE w % n = form % n
  BY <1>1, <1>3, SameResidue
<1> QED
  BY <1>2, <1>3 DEF Stands, w

\* The product of two residues, reduced, stands behind any form of x*y/R.
LEMMA ProductStands ==
    ASSUME NEW n \in Nat, n > 0, HasNegInv(n),
           NEW x \in Int, NEW y \in Int, NEW z \in Int,
           NEW v \in Int, NEW w \in Int, Stands(x, v, n), Stands(y, w, n),
           (z * R) % n = (x * y) % n
    PROVE  Stands(z, (v * w) % n, n)
<1> DEFINE t == v * w
           u == t % n
<1>1. R \in Nat /\ t \in Int
  BY BaseFacts, SMT
<1>2. PICK a \in Int : v * R = x + a * n
  BY StandsGap
<1>3. PICK b \in Int : w * R = y + b * n
  BY StandsGap
<1>4. PICK c \in Int : z * R = x * y + c * n
  <2>1. z * R \in Int /\ x * y \in Int
    BY <1>1, SMT
  <2> QED
    BY <2>1, ResidueGap
<1>5. PICK d \in Int : u = v * w + d * n
  <2> HIDE DEF t
  <2>1. \E d \in Int : t % n = t + d * n
    BY <1>1, RemainderGap
  <2> QED
    BY <2>1 DEF t
<1>6. u \in Int
  <2> HIDE DEF t
  <2> QED
    BY <1>1, RemainderGap, SMT
<1> HIDE DEF u, t
<1> DEFINE lhs == (u * R) * R
           rhs == z * R
           e   == a * y + b * x + a * b * n + d * R * R - c
<1>7. lhs = rhs + e * n
  <2>1. lhs = (v * R) * (w * R) + (d * R * R) * n
    BY <1>1, <1>5, <1>6, SMT
  <2>2. (v * R) * (w * R) = (x + a * n) * (y + b * n)
    BY <1>2, <1>3
  <2>3. (x + a * n) * (y + b * n) = x * y + (a * y + b * x + a * b * n) * n
    BY SMT
  <2>4. /\ e * n = (a * y + b * x + a * b * n) * n + (d * R * R) * n - c * n
        /\ (d * R * R) * n \in Int /\ c * n \in Int /\ x * y \in Int
        /\ (a * y + b * x + a * b * n) * n \in Int
    BY <1>1, SMT
  <2> QED
    BY <1>4, <2>1, <2>2, <2>3, <2>4, SMT
<1>8. lhs \in Int /\ rhs \in Int /\ e \in Int
  BY <1>1, <1>6, SMT
<1> HIDE DEF e, lhs, rhs
<1>9. lhs % n = rhs % n
  <2>1. Apart(lhs, rhs, e, n)
    BY <1>7 DEF Apart
  <2> QED
    BY <1>8, <2>1, ResidueApart
<1>10. (u * R) % n = z % n
  <2>1. u * R \in Int
    BY <1>1, <1>6, SMT
  <2>2. ((u * R) * R) % n = (z * R) % n
    BY <1>9 DEF lhs, rhs
  <2> QED
    BY <2>1, <2>2, CancelRadix
<1> QED
  BY <1>6, <1>10 DEF Stands, u, t

\* A combination of residues stands behind the combination of their forms.
LEMMA LinearStands ==
    ASSUME NEW n \in Nat, n > 0,
           NEW x \in Int, NEW y \in Int, NEW v \in Int, NEW w \in Int,
           Stands(x, v, n), Stands(y, w, n), NEW s \in Int, NEW r \in Int,
           NEW z, z = s * x + r * y, NEW u, u = s * v + r * w
    PROVE  Stands(z % n, u % n, n)
<1>1. R \in Nat /\ z \in Int /\ u \in Int
  BY BaseFacts, SMT
<1>2. PICK a \in Int : v * R = x + a * n
  BY StandsGap
<1>3. PICK b \in Int : w * R = y + b * n
  BY StandsGap
<1>4. PICK c \in Int : z % n = z + c * n
  BY <1>1, RemainderGap
<1>5. PICK d \in Int : u % n = u + d * n
  BY <1>1, RemainderGap
<1> DEFINE zn == z % n
           un == u % n
           e  == s * a + r * b + d * R - c
<1>6. zn \in Int /\ un \in Int
  BY <1>1, RemainderGap, SMT
<1>7. zn = z + c * n /\ un = u + d * n
  BY <1>4, <1>5
<1> HIDE DEF zn, un
<1>8. un * R = zn + e * n
  <2>1. un * R = s * (v * R) + r * (w * R) + (d * n) * R
    BY <1>1, <1>7, SMT
  <2>2. s * (v * R) + r * (w * R) = s * (x + a * n) + r * (y + b * n)
    BY <1>2, <1>3
  <2>3. s * (x + a * n) + r * (y + b * n) = z + (s * a + r * b) * n
    BY SMT
  <2>4. e * n = (s * a + r * b) * n + (d * n) * R - c * n
        /\ (s * a + r * b) * n \in Int /\ (d * n) * R \in Int /\ c * n \in Int
    BY <1>1, SMT
  <2> QED
    BY <1>1, <1>7, <2>1, <2>2, <2>3, <2>4, SMT
<1>9. e \in Int
  BY <1>1, SMT
<1> HIDE DEF e
<1>10. Stands(zn, un, n)
  <2>1. \E h \in Int : un * R = zn + h * n
    BY <1>8, <1>9
  <2> QED
    BY <1>6, <2>1, StandsGap
<1> QED
  BY <1>10 DEF zn, un

\* The half of a residue stands behind the half of its form.
LEMMA HalfStands ==
    ASSUME NEW n \in Uint, n > 0, n % 2 = 1, HasNegInv(n),
           NEW a \in 0..(n - 1), NEW v \in 0..(n - 1), Stands(a, v, n),
           NEW w \in 0..(n - 1), Stands(DivBy2(a, n), w, n)
    PROVE  w = CHOOSE u \in 0..(n - 1) : (u + u) % n = v
<1> DEFINE h == DivBy2(a, n)
           t == w + w
<1>1. n \in Nat /\ a \in Int /\ v \in Int /\ w \in Int
  BY BaseFacts, SMT DEF Uint
<1>2. h \in 0..(n - 1) /\ (2 * h = a \/ 2 * h = a + n)
  BY HalfReduced
<1>3. Stands(h, w, n)
  OBVIOUS
<1> HIDE DEF h
<1> DEFINE g == h + h
<1>4. g \in Nat /\ g < 2 * n /\ g = 1 * h + 1 * h /\ t = 1 * w + 1 * w
      /\ (g = a \/ g = a + n) /\ h \in Int /\ 1 \in Int
  BY <1>1, <1>2, SMT
<1> HIDE DEF g
<1>5. g % n = a
  <2>1. g % n = IF g < n THEN g ELSE g - n
    BY <1>1, <1>4, ModBelowTwice
  <2> QED
    BY <1>1, <1>4, <2>1, SMT
<1>6. Stands(g % n, t % n, n)
  <2> HIDE DEF t
  <2> QED
    BY <1>1, <1>3, <1>4, LinearStands
<1>7. t % n \in 0..(n - 1)
  <2>1. t \in Int
    BY <1>1, SMT
  <2> HIDE DEF t
  <2> QED
    BY <1>1, <2>1, ResidueOf
<1>8. t % n = v
  <2> DEFINE tn == t % n
  <2>1. tn \in 0..(n - 1) /\ (tn * R) % n = (v * R) % n
    BY <1>5, <1>6, <1>7 DEF Stands
  <2> HIDE DEF tn
  <2>2. tn = v
    BY <1>1, <2>1, ResidueUnique
  <2> QED
    BY <2>2 DEF tn
<1>9. ASSUME NEW u \in 0..(n - 1), (u + u) % n = v PROVE u = w
  BY <1>1, <1>8, <1>9, HalfUnique
<1> QED
  BY <1>8, <1>9

----------------------------------------------------------------------------
(* The parameters.                                                         *)

\* The form of one is R modulo n, also when n divides R.
LEMMA ParamOneIs ==
    ASSUME NEW n \in Uint, n > 0
    PROVE  ParamOne(n) = R % n
<1> DEFINE d == (R - 1) \div n
           r == (R - 1) % n
<1>1. R \in Nat /\ R >= 2 /\ n \in Nat /\ n < R /\ R - 1 \in Nat
  BY BaseFacts, RadixEven, SMT DEF Uint
<1>2. d \in Int /\ r \in 0..(n - 1) /\ R - 1 = n * d + r
  BY <1>1, DivMod, SMT
<1>3. ParamOne(n) = Select(UintWrappingAdd(r, 1), 0, UintWrappingAdd(r, 1) = n)
  BY DEF ParamOne
<1> HIDE DEF d, r
<1>4. UintWrappingAdd(r, 1) = r + 1
  <2>1. r \in Uint /\ 1 \in Uint /\ r + 1 < R
    BY <1>1, <1>2, SMT DEF Uint
  <2> QED
    BY <2>1, WrappingAddValue
<1>5. CASE r + 1 = n
  <2> DEFINE q == d + 1
  <2>1. R = n * q + 0 /\ q \in Int /\ R \in Int /\ 0 \in 0..(n - 1)
    BY <1>1, <1>2, <1>5, SMT
  <2> HIDE DEF q
  <2>2. R % n = 0
    BY <1>1, <2>1, DivisionIs
  <2> QED
    BY <1>3, <1>4, <1>5, <2>2 DEF Select
<1>6. CASE r + 1 # n
  <2>1. R = n * d + (r + 1) /\ r + 1 \in 0..(n - 1)
    BY <1>1, <1>2, <1>6, SMT
  <2>2. R % n = r + 1
    BY <1>1, <1>2, <2>1, DivisionIs
  <2> QED
    BY <1>3, <1>4, <1>6, <2>2 DEF Select
<1> QED
  BY <1>5, <1>6

\* And r2 is the form of R.
LEMMA ParamR2Is ==
    ASSUME NEW n \in Uint, n > 0
    PROVE  ParamR2(n) = (R * R) % n
<1> DEFINE r == R % n
           a == r * r
           b == R * R
<1>1. R \in Nat /\ n \in Nat
  BY BaseFacts, SMT DEF Uint
<1>2. PICK d \in Int : r = R + d * n
  BY <1>1, RemainderGap
<1>3. r \in Int
  BY <1>1, RemainderGap, SMT
<1>4. ParamR2(n) = a % n
  BY ParamOneIs DEF ParamR2
<1> HIDE DEF r
<1> DEFINE e == d * R + d * R + d * d * n
<1>5. a \in Int /\ b \in Int /\ e \in Int /\ a = b + e * n
  BY <1>1, <1>2, <1>3, SMT
<1> HIDE DEF a, b, e
<1>6. a % n = b % n
  BY <1>1, <1>5, SameResidue
<1> QED
  BY <1>4, <1>6 DEF b

\* The form of one stands for one.
LEMMA OneStands ==
    ASSUME NEW n \in Uint, n > 0
    PROVE  ParamOne(n) \in 0..(n - 1) /\ Stands(ParamOne(n), 1 % n, n)
<1>1. R \in Nat /\ n \in Nat
  BY BaseFacts, SMT DEF Uint
<1>2. PICK d \in Int : R % n = R + d * n
  BY <1>1, RemainderGap
<1>3. PICK e \in Int : 1 % n = 1 + e * n
  BY <1>1, RemainderGap
<1> DEFINE f == R % n
           w == 1 % n
           c == e * R - d
<1>4. f \in 0..(n - 1) /\ w \in 0..(n - 1)
  BY <1>1, RemainderGap
<1>5. f = R + d * n /\ w = 1 + e * n
  BY <1>2, <1>3
<1> HIDE DEF f, w
<1>6. w * R = f + c * n /\ c \in Int
  BY <1>1, <1>4, <1>5, SMT
<1> HIDE DEF c
<1>7. Stands(f, w, n)
  <2>1. f \in Int /\ w \in Int /\ \E h \in Int : w * R = f + h * n
    BY <1>4, <1>6, SMT
  <2> QED
    BY <1>1, <2>1, StandsGap
<1> QED
  BY <1>4, <1>7, ParamOneIs DEF f, w

\* Multiplying any integer by r2 gives the form of its residue.
LEMMA LoadStands ==
    ASSUME NEW n \in Uint, n > 0, HasNegInv(n), NEW v \in Uint
    PROVE  /\ v * ParamR2(n) \in Nat
           /\ Stands(Acc(v * ParamR2(n), n) % n, v % n, n)
<1> DEFINE r2  == ParamR2(n)
           t   == v * r2
           acc == Acc(t, n)
           x   == acc % n
           w   == v % n
<1>1. R \in Nat /\ n \in Nat /\ v \in Nat /\ v \in Int /\ R * R \in Int
  BY BaseFacts, SMT DEF Uint
<1>2. r2 \in Nat /\ \E d \in Int : r2 = R * R + d * n
  <2> DEFINE b == R * R
  <2>1. b \in Int
    BY <1>1
  <2> HIDE DEF b
  <2>2. b % n \in Nat /\ \E d \in Int : b % n = b + d * n
    BY <1>1, <2>1, RemainderGap, SMT
  <2> QED
    BY <2>2, ParamR2Is DEF b
<1>3. PICK d \in Int : r2 = R * R + d * n
  BY <1>2
<1> HIDE DEF r2
<1>4. t \in Nat
  BY <1>1, <1>2, SMT
<1>5. PICK e \in Int : w = v + e * n
  BY <1>1, RemainderGap
<1>6. w \in 0..(n - 1)
  BY <1>1, RemainderGap
<1> HIDE DEF w, t
<1>7. x \in 0..(n - 1) /\ (x * R) % n = t % n
  BY <1>1, <1>4, ResidueExists, AccCongruent
<1> HIDE DEF x
<1>8. PICK g \in Int : x * R = t + g * n
  <2>1. x * R \in Int /\ t \in Int
    BY <1>1, <1>4, <1>7, SMT
  <2> QED
    BY <1>1, <1>7, <2>1, ResidueGap
<1> DEFINE lhs == (w * R) * R
           rhs == x * R
           h   == e * R * R - v * d - g
<1>9. lhs = rhs + h * n
  <2>1. lhs = v * (R * R) + (e * R * R) * n
    BY <1>1, <1>5, <1>6, SMT
  <2>2. t = v * (R * R) + (v * d) * n
    <3>1. t = v * (R * R + d * n)
      BY <1>3 DEF t
    <3> QED
      BY <1>1, <3>1, SMT
  <2>3. h * n = (e * R * R) * n - (v * d) * n - g * n
        /\ (e * R * R) * n \in Int /\ (v * d) * n \in Int /\ g * n \in Int
        /\ v * (R * R) \in Int
    BY <1>1, SMT
  <2> QED
    BY <1>8, <2>1, <2>2, <2>3, SMT
<1>10. lhs \in Int /\ rhs \in Int /\ h \in Int
  BY <1>1, <1>6, <1>7, SMT
<1> HIDE DEF h
<1>11. lhs % n = rhs % n
  <2> HIDE DEF lhs, rhs
  <2> QED
    BY <1>1, <1>9, <1>10, SameResidue
<1>12. (w * R) % n = x % n
  <2>1. w * R \in Int /\ x \in Int
    BY <1>1, <1>6, <1>7, SMT
  <2> QED
    BY <1>1, <1>11, <2>1, CancelRadix
<1>13. w \in Int
  BY <1>6
<1> QED
  BY <1>4, <1>12, <1>13 DEF Stands, w, x, t, r2

\* Leaving Montgomery form gives the residue itself, uncorrected.
LEMMA RetrieveStands ==
    ASSUME NEW n \in Uint, n > 0, HasNegInv(n), NEW a \in 0..(n - 1)
    PROVE  /\ montgomery_retrieve(a, n) \in 0..(n - 1)
           /\ Stands(a, montgomery_retrieve(a, n), n)
<1> DEFINE acc == Acc(a, n)
<1>1. R \in Nat /\ n \in Nat /\ n < R /\ a \in Nat /\ R > 0
  BY BaseFacts, SMT DEF Uint
<1>2. acc \in Nat /\ acc < n /\ (acc * R) % n = a % n
  BY <1>1, AccFacts, RetrieveBelow, AccCongruent
<1>3. montgomery_retrieve(a, n) = acc % R
  BY DEF montgomery_retrieve, Out
<1> HIDE DEF acc
<1>4. acc % R = acc
  BY <1>1, <1>2, ResidueItself, SMT
<1> QED
  BY <1>1, <1>2, <1>3, <1>4, SMT DEF Stands

----------------------------------------------------------------------------
(* Repeated squaring.                                                      *)

\* The almost Montgomery squares exist and follow their recursion.
LEMMA AlmostSquaresAre ==
    ASSUME NEW n \in Uint, n > 0, HasNegInv(n), NEW a \in Uint, NEW count \in Nat,
           NEW base, base = AlmostSquares(a, count, n)
    PROVE  /\ base \in [0..count -> Uint]
           /\ base[0] = a
           /\ \A j \in 1..count :
                  base[j] = almost_montgomery_mul(base[j - 1], base[j - 1], n)
<1> DEFINE F == [j \in Nat |-> [v \in Uint |-> almost_montgomery_mul(v, v, n)]]
<1>1. ASSUME NEW v \in Uint PROVE almost_montgomery_mul(v, v, n) \in Uint
  <2>1. /\ R \in Nat /\ n \in Nat /\ v \in Nat /\ v * v \in Nat
        /\ n >= 1 /\ R >= 1
    BY BaseFacts, SMT DEF Uint
  <2>2. v * v <= R * ((v * v) * n)
    <3> DEFINE t == v * v
    <3>1. t \in Nat
      BY <2>1
    <3> HIDE DEF t
    <3>2. t * 1 <= t * n /\ (t * n) * 1 <= (t * n) * R
      BY <2>1, <3>1, SMT
    <3>3. t <= R * (t * n)
      BY <2>1, <3>1, <3>2, SMT
    <3> QED
      BY <3>3 DEF t
  <2> QED
    BY <2>1, <2>2, AlmostMul
<1>2. Closed(F, Uint)
  BY <1>1 DEF Closed
<1> HIDE DEF F
<1>3. PICK f : IsRecursion(f, Uint, a, count, F)
  BY <1>2, RecursionExists
<1>4. \A j \in 1..count : f[j - 1] \in Uint
  BY <1>3, SMT DEF IsRecursion
<1>5. ASSUME NEW j \in 1..count
      PROVE  f[j] = almost_montgomery_mul(f[j - 1], f[j - 1], n)
  <2>1. j \in Nat /\ f[j - 1] \in Uint /\ f[j] = F[j][f[j - 1]]
    BY <1>3, <1>4 DEF IsRecursion
  <2> QED
    BY <2>1 DEF F
<1>6. f = [j \in 0..count |->
              IF j = 0 THEN a ELSE almost_montgomery_mul(f[j - 1], f[j - 1], n)]
  <2>1. \A j \in 0..count : j = 0 \/ j \in 1..count
    BY SMT
  <2>2. f \in [0..count -> Uint] /\ f[0] = a
    BY <1>3 DEF IsRecursion
  <2> QED
    BY <1>5, <2>1, <2>2
<1>7. base = [j \in 0..count |->
              IF j = 0 THEN a
              ELSE almost_montgomery_mul(base[j - 1], base[j - 1], n)]
  BY <1>6 DEF AlmostSquares
<1>8. base[0] = a
  BY <1>7, SMT
<1>9. \A j \in 1..count :
          base[j] = almost_montgomery_mul(base[j - 1], base[j - 1], n)
  <2>1. \A j \in 1..count : j \in 0..count /\ j # 0
    BY SMT
  <2> QED
    BY <1>7, <2>1, Zenon
<1>10. \A j \in 0..count : base[j] \in Uint
  <2>1. \A j \in 1..count : base[j - 1] \in Uint => base[j] \in Uint
    BY <1>1, <1>9
  <2> QED
    BY <1>8, <2>1, RecursionStaysIn
<1>11. base \in [0..count -> Uint]
  BY <1>7, <1>10
<1> QED
  BY <1>8, <1>9, <1>11

\* The moduli and counts for which two corrections suffice: not more than two
\* squarings, or a modulus with no leading zero or at least two of them.
SafeToRepeat(n, count) == count <= 2 \/ 4 * n <= R \/ 2 * n >= R

\* A square of at most 2n accumulates to less than 3n; when 4n fits R, to less
\* than 2n.
LEMMA SquareBounds ==
    ASSUME NEW n \in Uint, n > 0, NEW b \in Uint, b <= 2 * n
    PROVE  /\ b * b <= R * (2 * n)
           /\ 4 * n <= R => b * b <= R * (1 * n)
           /\ b < n => b * b <= R * (1 * n)
<1>1. /\ n \in Nat /\ R \in Nat /\ b \in Nat /\ b < R /\ 2 * n \in Nat
  BY BaseFacts, SMT DEF Uint
<1>2. b * b <= R * (2 * n)
  <2>1. b * b <= b * (2 * n) /\ (2 * n) * b <= (2 * n) * R
    BY <1>1, Monotone, SMT
  <2> QED
    BY <2>1, <1>1, SMT
<1>3. ASSUME 4 * n <= R PROVE b * b <= R * (1 * n)
  <2>1. b * b <= b * (2 * n) /\ (2 * n) * b <= (2 * n) * (2 * n)
    BY <1>1, Monotone, SMT
  <2>2. n * (4 * n) <= n * R
    BY <1>1, <1>3, Monotone, SMT
  <2>3. (2 * n) * (2 * n) = n * (4 * n) /\ b * (2 * n) = (2 * n) * b
    BY <1>1, SMT
  <2> QED
    BY <2>1, <2>2, <2>3, <1>1, SMT
<1>4. ASSUME b < n PROVE b * b <= R * (1 * n)
  <2>1. b * b <= b * n /\ n * b <= n * R
    BY <1>1, <1>4, Monotone, SMT
  <2> QED
    BY <2>1, <1>1, SMT
<1> QED
  BY <1>2, <1>3, <1>4

\* The squares before the last stay at most 2n, and stand for the squares of
\* the residue; sq is the sequence of those.
LEMMA RepeatedSquares ==
    ASSUME NEW n \in Uint, n > 0, HasNegInv(n), NEW count \in Nat,
           SafeToRepeat(n, count), NEW a \in 0..(n - 1),
           NEW sq, Stands(a, sq[0], n),
           \A j \in 1..count : sq[j] = (sq[j - 1] * sq[j - 1]) % n,
           NEW base, base = AlmostSquares(a, count, n)
    PROVE  \A j \in 0..count : j < count =>
               /\ base[j] \in Uint /\ base[j] <= 2 * n
               /\ Stands(base[j], sq[j], n)
<1> DEFINE Good(j) == /\ base[j] \in Uint /\ base[j] <= 2 * n
                      /\ Stands(base[j], sq[j], n)
                      /\ 4 * n <= R => base[j] < 2 * n
           S == {j \in Nat : j < count => Good(j)}
<1>1. n \in Nat /\ R \in Nat /\ n < R /\ a \in Uint /\ a < n /\ a \in Nat
  BY BaseFacts, SMT DEF Uint
<1>2. /\ base \in [0..count -> Uint] /\ base[0] = a
      /\ \A j \in 1..count :
            base[j] = almost_montgomery_mul(base[j - 1], base[j - 1], n)
  BY <1>1, AlmostSquaresAre
<1>3. 0 \in S
  <2>1. a <= 2 * n /\ a < 2 * n
    BY <1>1, SMT
  <2> QED
    BY <1>1, <1>2, <2>1
<1>4. ASSUME NEW j \in S PROVE j + 1 \in S
  <2> DEFINE b == base[j]
             z == almost_montgomery_mul(b, b, n)
  <2> SUFFICES ASSUME j + 1 < count PROVE Good(j + 1)
    BY SMT
  <2>1. j \in Nat /\ j < count /\ j + 1 \in 1..count /\ (j + 1) - 1 = j
    BY SMT
  <2>2. /\ b \in Uint /\ b <= 2 * n /\ Stands(b, sq[j], n) /\ b \in Nat
        /\ 4 * n <= R => b < 2 * n
    BY <2>1, BaseFacts, SMT DEF Uint
  <2>3. base[j + 1] = z /\ sq[j + 1] = (sq[j] * sq[j]) % n
    BY <1>2, <2>1
  <2> HIDE DEF b
  <2>4. /\ b * b <= R * (2 * n)
        /\ 4 * n <= R => b * b <= R * (1 * n)
    BY <2>2, SquareBounds
  <2>5. z \in Uint /\ (z * R) % n = (b * b) % n
    BY <2>2, <2>4, AlmostMul
  <2>6. 4 * n <= R => z < 2 * n
    <3>1. 4 * n <= R => z < (1 + 1) * n
      BY <2>2, <2>4, AlmostMul
    <3> QED
      BY <3>1, <1>1, SMT
  <2>7. z <= 2 * n
    <3>1. 4 * n <= R \/ 2 * n >= R \/ j = 0
      BY <2>1, SMT DEF SafeToRepeat
    <3>4. CASE j = 0
      <4>1. b = a
        BY <1>2, <3>4 DEF b
      <4>2. b * b <= R * (1 * n)
        BY <1>1, <2>2, <4>1, SquareBounds
      <4>3. z < (1 + 1) * n
        BY <2>2, <4>2, AlmostMul
      <4> QED
        BY <2>5, <4>3, <1>1, SMT DEF Uint
    <3>2. CASE 4 * n <= R
      BY <2>5, <2>6, <3>2, <1>1, SMT DEF Uint
    <3>3. CASE 2 * n >= R
      BY <2>5, <3>3, <1>1, SMT DEF Uint
    <3> QED
      BY <3>1, <3>2, <3>3, <3>4
  <2>8. Stands(z, sq[j + 1], n)
    <3>1. sq[j] \in Int /\ z \in Int /\ b \in Int
      BY <2>2, <2>5, <1>1, SMT DEF Stands, Uint
    <3> QED
      BY <1>1, <2>2, <2>3, <2>5, <3>1, ProductStands
  <2> QED
    BY <2>3, <2>5, <2>6, <2>7, <2>8
<1>5. S = Nat
  <2> HIDE DEF S
  <2>1. S \in SUBSET Nat
    BY DEF S
  <2> QED
    BY <1>3, <1>4, <2>1, SetInduction
<1>6. ASSUME NEW j \in 0..count, j < count PROVE Good(j)
  <2>1. j \in S
    BY <1>5, SMT
  <2> QED
    BY <2>1, <1>6
<1> QED
  BY <1>6

\* square_repeat_montgomery_form, for a safe modulus and count: a reduced form
\* of the count-th square.
LEMMA SquareRepeatForm ==
    ASSUME NEW n \in Uint, n > 0, HasNegInv(n), NEW count \in Nat,
           SafeToRepeat(n, count), NEW a \in 0..(n - 1),
           NEW sq, Stands(a, sq[0], n),
           \A j \in 1..count : sq[j] = (sq[j - 1] * sq[j - 1]) % n
    PROVE  /\ square_repeat_montgomery_form(a, count, n) \in 0..(n - 1)
           /\ Stands(square_repeat_montgomery_form(a, count, n), sq[count], n)
<1> DEFINE base == AlmostSquares(a, count, n)
           b    == base[count - 1]
           t    == b * b
           acc  == Acc(t, n)
           out  == square_repeat_montgomery_form(a, count, n)
<1>1. n \in Nat /\ R \in Nat /\ R > 0 /\ n < R /\ a \in Uint /\ a < n /\ a \in Int
  BY BaseFacts, SMT DEF Uint
<1>2. CASE count = 0
  BY <1>2 DEF square_repeat_montgomery_form
<1>3. CASE count # 0
  <2>1. count - 1 \in 0..count /\ count - 1 < count /\ count \in 1..count
    BY <1>3, SMT
  <2>2. b \in Uint /\ b <= 2 * n /\ Stands(b, sq[count - 1], n)
    BY <2>1, RepeatedSquares
  <2>3. sq[count] = (sq[count - 1] * sq[count - 1]) % n
    BY <2>1
  <2>4. sq[count - 1] \in Int /\ b \in Int
    BY <2>2, BaseFacts, SMT DEF Stands, Uint
  <2>5. count = 1 => b = a
    <3>1. base[0] = a
      BY <1>1, AlmostSquaresAre
    <3> QED
      BY <3>1, SMT
  <2> HIDE DEF base, b
  <2>6. t \in Nat /\ t <= R * (2 * n) /\ acc < b + n
    <3>1. b * b \in Nat /\ Acc(b * b, n) < b + n
      BY <1>1, <2>2, AccOfProduct
    <3> QED
      BY <3>1, <2>2, SquareBounds
  <2> HIDE DEF t
  <2>7. acc \in Nat /\ acc < 3 * n /\ acc < R + n
    <3>1. acc < (2 + 1) * n
      BY <1>1, <2>6, AccBelow
    <3> QED
      BY <1>1, <2>2, <2>6, <3>1, AccFacts, SMT DEF Uint
  <2>8. out = acc % n
    <3>1. CASE count = 1
      <4>1. mul_montgomery_form(a, a, n) = Acc(a * a, n) % n
        BY <1>1, MulForm
      <4> QED
        BY <2>5, <3>1, <4>1
           DEF square_repeat_montgomery_form, square_montgomery_form, t
    <3>2. CASE count # 1
      <4> DEFINE once == TrySubWithCarry(acc % R, acc \div R, n)
      <4>1. out = TrySubWithCarry(once[1], once[2], n)[1]
        <5>1. count > 1 /\ ~(count = 0) /\ ~(count = 1)
          BY <1>3, <3>2, SMT
        <5> QED
          BY <5>1 DEF square_repeat_montgomery_form, Out, Over, t, b, base
      <4> HIDE DEF acc, once
      <4>2. TrySubWithCarry(once[1], once[2], n)[1] = acc % n
        BY <2>7, TwoSubtractions DEF once
      <4> QED
        BY <4>1, <4>2
    <3> QED
      BY <3>1, <3>2
  <2>9. out \in 0..(n - 1) /\ (out * R) % n = t % n
    BY <1>1, <2>6, <2>8, AccCongruent, ResidueExists
  <2> HIDE DEF out
  <2>10. Stands(out, sq[count], n)
    <3>1. out \in Int /\ (out * R) % n = (b * b) % n
      BY <2>9, SMT DEF t
    <3> QED
      BY <1>1, <2>2, <2>3, <2>4, <3>1, ProductStands
  <2> QED
    BY <2>9, <2>10 DEF out
<1> QED
  BY <1>2, <1>3

----------------------------------------------------------------------------
(* Long division, one digit from the high end.                             *)

\* A wrapping operation returns the word that is a multiple of the base away.
LEMMA WrapIs ==
    ASSUME NEW a \in Int, NEW w \in Word, NEW k \in Int, a = B * k + w
    PROVE  a % B = w
<1>1. B \in Nat /\ B > 0
  BY BaseFacts, SMT
<1>2. w \in 0..(B - 1)
  BY DEF Word
<1> QED
  BY <1>1, <1>2, DivisionIs

\* The pair v, d of a reciprocal and the two words it belongs to.
IsReciprocal(v, d) == /\ v \in Word /\ d \in Nat
                      /\ B * B <= 2 * d /\ d < B * B
                      /\ (v + B) * d < B * B * B
                      /\ B * B * B <= (v + B) * d + d

\* The first sum of div3by2 fits a wide word.
LEMMA FirstSumFits ==
    ASSUME NEW v, NEW d, IsReciprocal(v, d), NEW u1 \in Word, NEW u2 \in Word, u1 + u2 * B <= d
    PROVE  v * u2 + (u1 + u2 * B) \in Nat /\ v * u2 + (u1 + u2 * B) < B * B
<1> DEFINE s == B * B
           M == v * u2 + (u1 + u2 * B)
           K == v + B
<1>1. B \in Nat /\ B >= 2 /\ u1 \in Nat /\ u2 \in Nat /\ v \in Nat /\ d \in Nat
  BY BaseFacts, SMT DEF Word, IsReciprocal
<1>2. K * d < B * s /\ s \in Nat /\ M \in Nat /\ K \in Nat /\ K >= B
  BY <1>1, SMT DEF IsReciprocal
<1>3. B * M = K * (u1 + u2 * B) - v * u1
  BY <1>1, SMT
<1>4. K * (u1 + u2 * B) <= K * d /\ K * (u1 + u2 * B) \in Int /\ K * d \in Int
  <2>1. u1 + u2 * B \in Int
    BY <1>1, SMT
  <2> HIDE DEF K
  <2> QED
    BY <2>1, <1>1, <1>2, Monotone, SMT
<1>5. v * u1 \in Nat /\ B * M \in Int /\ B * s \in Int
  BY <1>1, SMT
<1>6. B * M < B * s
  <2> HIDE DEF K, M, s
  <2> QED
    BY <1>2, <1>3, <1>4, <1>5, SMT
<1> HIDE DEF M, s
<1>7. M < s
  BY <1>1, <1>2, <1>6, Cancel
<1> QED
  BY <1>2, <1>7 DEF M, s

\* Three words u whose upper two are below the two words d.
Dividend(u0, u1, u2, d0, d1, d) == /\ u0 \in Word /\ u1 \in Word /\ u2 \in Word
                                   /\ d0 \in Word /\ d1 \in Word /\ d = d0 + d1 * B
                                   /\ u1 + u2 * B < d

\* What the reciprocal leaves of B cubed, and d of the square of B.
Complements(k, e, v, d) == k = B * B * B - (v + B) * d /\ e = B * B - d

\* The first sum of div3by2 and the remainder of its estimate, the quotient less one.
Estimates(v, u0, u1, u2, d, q1, q0, r) ==
    /\ v * u2 + (u1 + u2 * B) = B * q1 + q0
    /\ r = u0 + (u1 + u2 * B) * B - q1 * d - d

\* The part of B * r that does not depend on the low word of that sum, where r
\* is the remainder of the first estimate: too small to be taken for a negative.
LEMMA FirstRemainder ==
    ASSUME NEW v, NEW d0, NEW d1, NEW d, IsReciprocal(v, d),
           NEW u0, NEW u1, NEW u2, Dividend(u0, u1, u2, d0, d1, d),
           NEW k, NEW e, Complements(k, e, v, d)
    PROVE  B * (u2 * k + u1 * e + u0 * B - B * d) < e * e
<1> USE DEF Dividend, Complements
<1> DEFINE s == B * B
           a == B * u2
           b == B * u1
<1>1. B \in Nat /\ B >= 2 /\ u0 \in Nat /\ u1 \in Nat /\ u2 \in Nat /\ v \in Nat /\ d \in Nat
      /\ d0 \in Nat /\ d1 \in Nat /\ u0 < B /\ u1 < B /\ d0 < B
  BY BaseFacts, SMT DEF Word, IsReciprocal
<1>2. s \in Nat /\ d < s /\ s <= 2 * d /\ e \in Nat /\ e = s - d /\ e >= 1
  BY <1>1, SMT DEF IsReciprocal
<1>3. k \in Nat /\ k <= d
  <2>1. (v + B) * d < B * B * B /\ B * B * B <= (v + B) * d + d /\ (v + B) * d \in Int
        /\ B * B * B \in Int
    BY <1>1, SMT DEF IsReciprocal
  <2> QED
    BY <2>1, <1>1, SMT
<1>4. k <= B * e
  <2>1. (v + B) * d = v * d + B * d /\ v * d \in Nat /\ B * d \in Nat /\ B * e = B * s - B * d
        /\ B * B * B = B * s /\ B * s \in Int
    BY <1>1, <1>2, SMT
  <2> HIDE DEF s
  <2> QED
    BY <2>1, <1>1, SMT
<1>5. B * (u2 * k + u1 * e + u0 * B - B * d) = a * k + b * e + u0 * s - s * d
  BY <1>1, <1>2, <1>3, SMT
<1>6. e * e = s * e - s * d + d * d
  BY <1>1, <1>2, SMT
<1>7. u0 * s <= B * s - s
  <2>1. s * u0 <= s * (B - 1)
    BY <1>1, <1>2, Monotone, SMT
  <2>2. s * u0 = u0 * s /\ s * (B - 1) = B * s - s
    BY <1>1, SMT
  <2> QED
    BY <2>1, <2>2
<1>8. B * s = B * d + B * e /\ a \in Nat /\ b \in Nat
  BY <1>1, <1>2, SMT
<1>9. /\ a * k \in Int /\ b * e \in Int /\ u0 * s \in Int /\ s * d \in Int /\ s * e \in Int
      /\ d * d \in Int /\ B * s \in Int /\ B * d \in Int /\ B * e \in Int /\ e * e \in Int
  BY <1>1, <1>2, <1>3, SMT
<1>10. CASE u2 < d1
  <2>1. a <= d - B
    <3>1. B * (u2 + 1) <= B * d1
      BY <1>1, <1>10, Monotone, SMT
    <3>2. B * (u2 + 1) = a + B /\ B * d1 = d1 * B
      BY <1>1, SMT
    <3> QED
      BY <3>1, <3>2, <1>1, <1>8, SMT
  <2>2. a * k <= d * d - B * d
    <3> HIDE DEF a, s
    <3>1. a * k <= a * d
      BY <1>1, <1>3, <1>8, Monotone
    <3>2. d * a <= d * (d - B)
      BY <2>1, <1>1, <1>8, Monotone, SMT
    <3>3. d * a = a * d /\ d * (d - B) = d * d - B * d
      BY <1>1, <1>8, SMT
    <3> QED
      BY <3>1, <3>2, <3>3, <1>1, <1>3, <1>8, SMT
  <2>3. b * e <= s * e - B * e
    <3>1. B * u1 <= B * (B - 1)
      BY <1>1, Monotone, SMT
    <3>2. b <= s - B
      BY <3>1, <1>1, SMT
    <3> HIDE DEF b, s
    <3>3. e * b <= e * (s - B)
      BY <3>2, <1>1, <1>2, <1>8, Monotone, SMT
    <3>4. e * b = b * e /\ e * (s - B) = s * e - B * e
      BY <1>1, <1>2, <1>8, SMT
    <3> QED
      BY <3>3, <3>4
  <2>4. a * k + b * e + u0 * s - s * d <= e * e - s
    <3> DEFINE ak == a * k
               be == b * e
               us == u0 * s
               sd == s * d
               se == s * e
               dd == d * d
               Bs == B * s
               Bd == B * d
               Be == B * e
               ee == e * e
    <3>1. ak \in Int /\ be \in Int /\ us \in Int /\ sd \in Int /\ se \in Int /\ dd \in Int
          /\ Bs \in Int /\ Bd \in Int /\ Be \in Int /\ ee \in Int
      BY <1>9
    <3>2. ak <= dd - Bd /\ be <= se - Be /\ us <= Bs - s /\ Bs = Bd + Be /\ ee = se - sd + dd
      BY <2>2, <2>3, <1>6, <1>7, <1>8
    <3>3. s \in Int
      BY <1>2
    <3> HIDE DEF ak, be, us, sd, se, dd, Bs, Bd, Be, ee, s
    <3>4. ak + be + us - sd <= ee - s
      BY <3>1, <3>2, <3>3, SMT
    <3> QED
      BY <3>4 DEF ak, be, us, sd, ee
  <2>5. s > 0
    BY <1>1, SMT
  <2> DEFINE t == a * k + b * e + u0 * s - s * d
  <2>6. t \in Int
    <3> HIDE DEF a, b, s
    <3> QED
      BY <1>9, SMT
  <2> DEFINE ee == e * e
  <2>7. t <= ee - s /\ ee \in Int
    BY <2>4, <1>9
  <2> HIDE DEF t, s, ee
  <2>8. t < ee
    BY <2>5, <2>6, <2>7, <1>2, SMT
  <2> QED
    BY <2>8, <1>5 DEF t, ee
<1>11. CASE ~(u2 < d1)
  <2>1. u2 = d1 /\ u1 + 1 <= d0
    <3>1. u2 * B < (d1 + 1) * B
      BY <1>1, SMT
    <3>2. B * u2 < B * (d1 + 1)
      BY <3>1, <1>1, SMT
    <3>3. u2 < d1 + 1
      BY <3>2, <1>1, Cancel, SMT
    <3>4. u2 = d1
      BY <3>3, <1>1, <1>11, SMT
    <3>5. d1 * B \in Int
      BY <1>1, SMT
    <3> QED
      BY <3>4, <3>5, <1>1, SMT
  <2>2. a = d - d0
    BY <2>1, <1>1, SMT
  <2>3. b * e <= (B * e) * d0 - B * e
    <3>1. (B * e) * u1 <= (B * e) * (d0 - 1)
      BY <2>1, <1>1, <1>9, <1>2, Monotone, SMT
    <3>2. (B * e) * u1 = b * e
      BY <1>1, <1>2, SMT
    <3>3. (B * e) * (d0 - 1) = (B * e) * d0 - B * e
      BY <1>1, <1>2, SMT
    <3> QED
      BY <3>1, <3>2, <3>3
  <2>4. CASE d <= B * e
    <3>1. a * k <= d * d - d * d0
      <4> HIDE DEF a
      <4>1. a * k <= a * d
        BY <1>1, <1>3, <1>8, Monotone
      <4>2. a * d = d * d - d * d0
        BY <2>2, <1>1, SMT
      <4> QED
        BY <4>1, <4>2
    <3> DEFINE f == B - d0
               h == B * e - d
    <3>2. f \in Nat /\ h \in Nat /\ f * h \in Nat
      <4>1. f \in Nat /\ h \in Nat
        BY <2>4, <1>1, <1>9, SMT
      <4> HIDE DEF f, h
      <4> QED
        BY <4>1, SMT
    <3>3. f * h = s * e - B * d - (B * e) * d0 + d * d0
      BY <1>1, <1>2, SMT
    <3> DEFINE ak == a * k
               be == b * e
               us == u0 * s
               sd == s * d
               se == s * e
               dd == d * d
               Bs == B * s
               Bd == B * d
               Be == B * e
               ee == e * e
               dz == d * d0
               Bz == (B * e) * d0
               fh == f * h
    <3>4. ak \in Int /\ be \in Int /\ us \in Int /\ sd \in Int /\ se \in Int /\ dd \in Int
          /\ Bs \in Int /\ Bd \in Int /\ Be \in Int /\ ee \in Int /\ s \in Nat
      BY <1>2, <1>9
    <3>5. dz \in Int /\ Bz \in Int /\ fh \in Nat
      BY <1>1, <1>2, <3>2, SMT
    <3>6. ak <= dd - dz /\ be <= Bz - Be /\ us <= Bs - s /\ Bs = Bd + Be /\ ee = se - sd + dd
          /\ fh = se - Bd - Bz + dz
      BY <3>1, <3>3, <2>3, <1>6, <1>7, <1>8
    <3>7. s > 0
      BY <1>1, SMT
    <3> HIDE DEF ak, be, us, sd, se, dd, Bs, Bd, Be, ee, s, dz, Bz, fh
    <3>8. ak + be + us - sd < ee
      BY <3>4, <3>5, <3>6, <3>7, SMT
    <3> QED
      BY <3>8, <1>5 DEF ak, be, us, sd, ee
  <2>5. CASE ~(d <= B * e)
    <3>1. e <= B - 1
      <4>1. B * e < B * B
        BY <2>5, <1>1, <1>2, <1>9, SMT
      <4>2. e < B
        BY <4>1, <1>1, <1>2, Cancel
      <4> QED
        BY <4>2, <1>1, <1>2, SMT
    <3> DEFINE Be == B * e
    <3>2. a * k <= Be * d - Be * d0
      <4>1. a * k <= a * Be
        BY <1>1, <1>3, <1>4, <1>8, <1>9, Monotone
      <4>2. a * Be = Be * d - Be * d0
        <5> HIDE DEF a, Be
        <5>1. Be \in Int
          BY <1>9 DEF Be
        <5> QED
          BY <5>1, <2>2, <1>1, SMT
      <4> QED
        BY <4>1, <4>2
    <3>3. Be * d - Be <= s * d - s - B * d + B
      <4>1. B * e <= B * (B - 1)
        BY <3>1, <1>1, <1>2, Monotone, SMT
      <4>2. Be <= s - B /\ Be \in Int
        BY <4>1, <1>1, <1>9, SMT
      <4>3. d >= 1
        BY <1>1, <1>2, SMT
      <4> HIDE DEF Be, s
      <4>4. (d - 1) * Be <= (d - 1) * (s - B)
        BY <4>2, <4>3, <1>1, <1>2, Monotone, SMT
      <4>5. (d - 1) * Be = Be * d - Be /\ (d - 1) * (s - B) = s * d - s - B * d + B
        BY <4>2, <1>1, <1>2, SMT
      <4> QED
        BY <4>4, <4>5
    <3>4. B * s - s + B <= B * d
      <4>1. s - B + 1 <= d
        BY <3>1, <1>1, <1>2, SMT
      <4>2. B * (s - B + 1) <= B * d
        BY <4>1, <1>1, <1>2, Monotone, SMT
      <4>3. B * (s - B + 1) = B * s - s + B
        BY <1>1, SMT
      <4> QED
        BY <4>2, <4>3
    <3> DEFINE ak == a * k
               be == b * e
               us == u0 * s
               sd == s * d
               Bs == B * s
               Bd == B * d
               ee == e * e
               Bz == Be * d0
               Dd == Be * d
    <3>5. ak \in Int /\ be \in Int /\ us \in Int /\ sd \in Int
          /\ Bs \in Int /\ Bd \in Int /\ Be \in Int /\ ee \in Int /\ s \in Nat
      BY <1>2, <1>9
    <3>6. Bz \in Int /\ Dd \in Int /\ ee >= 0
      BY <1>1, <1>2, SMT
    <3>7. ak <= Dd - Bz /\ be <= Bz - Be /\ us <= Bs - s /\ Dd - Be <= sd - s - Bd + B
          /\ Bs - s + B <= Bd
      BY <3>2, <3>3, <3>4, <2>3, <1>7
    <3>8. s > 0
      BY <1>1, SMT
    <3> HIDE DEF ak, be, us, sd, Bs, Bd, Be, ee, s, Bz, Dd
    <3>9. ak + be + us - sd < ee
      BY <3>5, <3>6, <3>7, <3>8, <1>1, SMT
    <3> QED
      BY <3>9, <1>5 DEF ak, be, us, sd, ee
  <2> QED
    BY <2>4, <2>5
<1> QED
  BY <1>10, <1>11

\* How the remainder r of the first estimate, the quotient less one, is placed:
\* the low word q0 of the first sum tells its sign and when it is too large.
LEMMA FirstEstimate ==
    ASSUME NEW v, NEW d0, NEW d1, NEW d, IsReciprocal(v, d),
           NEW u0, NEW u1, NEW u2, Dividend(u0, u1, u2, d0, d1, d),
           NEW q1 \in Nat, NEW q0 \in Word, NEW r, Estimates(v, u0, u1, u2, d, q1, q0, r)
    PROVE  /\ r \in Int /\ r >= -d
           /\ r >= q0 * B - B * B
           /\ r >= q0 * B => r < B * B - d
<1> USE DEF Dividend, Estimates
<1> DEFINE s == B * B
           e == s - d
           k == B * B * B - (v + B) * d
           T == u2 * k + u1 * e + u0 * B
           S == T - B * d
<1>1. B \in Nat /\ B >= 2 /\ u0 \in Nat /\ u1 \in Nat /\ u2 \in Nat /\ v \in Nat /\ d \in Nat
      /\ d0 \in Nat /\ d1 \in Nat /\ u0 < B /\ u1 < B /\ d0 < B /\ q0 \in Nat /\ q0 < B
  BY BaseFacts, SMT DEF Word, IsReciprocal
<1>2. s \in Nat /\ d < s /\ e \in Nat /\ e = s - d /\ r \in Int
  BY <1>1, SMT DEF IsReciprocal
<1>3. k \in Nat
  <2>1. (v + B) * d < B * B * B /\ (v + B) * d \in Int /\ B * B * B \in Int
    BY <1>1, SMT DEF IsReciprocal
  <2> QED
    BY <2>1, SMT
<1>4. B * S < e * e
  <2>1. k = B * B * B - (v + B) * d /\ e = B * B - d
    OBVIOUS
  <2> HIDE DEF k, e, Dividend, Estimates
  <2>2. S = u2 * k + u1 * e + u0 * B - B * d
    BY <1>1, <1>2, <1>3, SMT
  <2>3. Complements(k, e, v, d)
    BY <2>1 DEF Complements
  <2> HIDE DEF S
  <2>4. B * (u2 * k + u1 * e + u0 * B - B * d) < e * e
    BY <2>3, FirstRemainder
  <2> QED
    BY <2>2, <2>4
<1>5. T \in Nat
  <2> HIDE DEF k, e
  <2>1. u2 * k \in Nat /\ u1 * e \in Nat /\ u0 * B \in Nat
    BY <1>1, <1>2, <1>3, SMT
  <2> QED
    BY <2>1, SMT
<1>6. B * r = T - B * d + q0 * d
  <2>1. (v * u2 + (u1 + u2 * B)) * d = (B * q1 + q0) * d
    BY <1>1
  <2>2. (v * u2 + (u1 + u2 * B)) * d = u2 * ((v + B) * d) + u1 * d
    BY <1>1, SMT
  <2>3. (B * q1 + q0) * d = B * (q1 * d) + q0 * d
    BY <1>1, SMT
  <2>4. u2 * k = u2 * (B * s) - u2 * ((v + B) * d) /\ u1 * e = u1 * s - u1 * d
    <3>1. B * s = B * B * B /\ (v + B) * d \in Int
      BY <1>1, SMT
    <3>2. k = B * s - (v + B) * d /\ B * s \in Int
      BY <3>1, <1>1, <1>2, SMT
    <3> DEFINE Kd == (v + B) * d
               Bs == B * s
    <3>3. k = Bs - Kd /\ Kd \in Int /\ Bs \in Int
      BY <3>1, <3>2
    <3> HIDE DEF Kd, Bs, k, e, s
    <3>4. u2 * k = u2 * Bs - u2 * Kd /\ u1 * e = u1 * s - u1 * d
      BY <3>3, <1>1, <1>2, SMT
    <3> QED
      BY <3>4 DEF Kd, Bs
  <2>5. B * r = u0 * B + u1 * s + u2 * (B * s) - B * (q1 * d) - B * d
    BY <1>1, SMT
  <2> DEFINE x1 == u2 * ((v + B) * d)
             x2 == u1 * d
             x3 == B * (q1 * d)
             x4 == q0 * d
             x5 == u2 * (B * s)
             x6 == u1 * s
             x7 == u0 * B
             x8 == B * d
  <2>6. x1 \in Int /\ x2 \in Int /\ x3 \in Int /\ x4 \in Int /\ x5 \in Int /\ x6 \in Int
        /\ x7 \in Int /\ x8 \in Int
    BY <1>1, SMT
  <2>7. T = (x5 - x1) + (x6 - x2) + x7
    BY <2>4
  <2>8. x1 + x2 = x3 + x4
    BY <2>1, <2>2, <2>3
  <2>9. B * r = x7 + x6 + x5 - x3 - x8
    BY <2>5
  <2> HIDE DEF x1, x2, x3, x4, x5, x6, x7, x8, T
  <2>10. B * r = T - x8 + x4
    BY <2>6, <2>7, <2>8, <2>9, SMT
  <2> QED
    BY <2>10 DEF x4, x8
<1> HIDE DEF T, k
<1>7. r >= -d
  <2>1. B * (r + d) >= 0
    <3>1. B * (r + d) = B * r + B * d /\ q0 * d \in Nat /\ B * r \in Int /\ B * d \in Int
      BY <1>1, <1>2, SMT
    <3> QED
      BY <3>1, <1>5, <1>6, SMT
  <2>2. SUFFICES ASSUME r + d < 0 PROVE FALSE
    BY <1>1, <1>2, SMT
  <2>3. B * (r + d) < 0
    BY <2>2, <1>1, <1>2, SMT
  <2> QED
    BY <2>1, <2>3, <1>1, <1>2, SMT
<1>8. r >= q0 * B - s
  <2> DEFINE t == r - q0 * B + s
  <2>1. B * t = T + (B - q0) * e
    <3>1. B * t = B * r - q0 * s + B * s
      BY <1>1, <1>2, SMT
    <3>2. (B - q0) * e = B * s - q0 * s - B * d + q0 * d
      BY <1>1, <1>2, SMT
    <3>3. q0 * s \in Int /\ B * s \in Int /\ B * d \in Int /\ q0 * d \in Int
      BY <1>1, SMT
    <3> DEFINE Br == B * r
               z == (B - q0) * e
    <3>4. Br \in Int /\ z \in Int
      BY <1>1, <1>2, SMT
    <3> HIDE DEF Br, z, t
    <3>5. B * t = T + z
      BY <3>1, <3>2, <3>3, <3>4, <1>5, <1>6, SMT DEF Br, z
    <3> QED
      BY <3>5 DEF z
  <2>2. (B - q0) * e \in Nat
    <3>1. B - q0 \in Nat
      BY <1>1, SMT
    <3> HIDE DEF e
    <3> QED
      BY <3>1, <1>2, SMT
  <2>3. t \in Int /\ q0 * B \in Int
    BY <1>1, <1>2, SMT
  <2>4. t >= 0
    <3> HIDE DEF t, e
    <3> SUFFICES ASSUME t < 0 PROVE FALSE
      BY <2>3, SMT
    <3>1. B * t < 0
      BY <2>3, <1>1, SMT
    <3> QED
      BY <3>1, <2>1, <2>2, <2>3, <1>5, SMT
  <2> DEFINE qB == q0 * B
  <2> HIDE DEF qB, s
  <2> QED
    BY <2>3, <2>4, <1>2, SMT DEF qB
<1>9. r >= q0 * B => r < e
  <2> SUFFICES ASSUME r >= q0 * B, r >= e PROVE FALSE
    BY <1>2, SMT
  <2>1. r \in Nat /\ q0 * B \in Nat
    BY <1>1, <1>2, SMT
  <2>2. d * (q0 * B) <= d * r
    BY <2>1, <1>1, Monotone
  <2>3. e * e <= e * r
    BY <2>1, <1>2, Monotone
  <2>4. B * S = s * r - d * (q0 * B)
    <3>1. S = B * r - q0 * d
      <4>1. B * r \in Int /\ B * d \in Int /\ q0 * d \in Int
        BY <1>1, <1>2, SMT
      <4> DEFINE Br == B * r
                 Bd == B * d
                 qd == q0 * d
      <4>2. Br \in Int /\ Bd \in Int /\ qd \in Int /\ Br = T - Bd + qd /\ S = T - Bd
        BY <4>1, <1>6
      <4> HIDE DEF Br, Bd, qd, S
      <4>3. S = Br - qd
        BY <4>2, <1>5, SMT
      <4> QED
        BY <4>3 DEF Br, qd
    <3> HIDE DEF S
    <3> QED
      BY <3>1, <1>1, <1>2, SMT
  <2>5. e * r = s * r - d * r
    BY <1>1, <1>2, SMT
  <2>6. s * r \in Int /\ d * r \in Int /\ d * (q0 * B) \in Int /\ e * e \in Int
    BY <1>1, <1>2, SMT
  <2> DEFINE BS == B * S
             sr == s * r
             dr == d * r
             dq == d * (q0 * B)
             ee == e * e
             er == e * r
  <2>7. BS = sr - dq /\ er = sr - dr /\ dq <= dr /\ ee <= er /\ BS < ee
        /\ sr \in Int /\ dr \in Int /\ dq \in Int /\ ee \in Int
    BY <2>2, <2>3, <2>4, <2>5, <2>6, <1>4
  <2> HIDE DEF BS, sr, dr, dq, ee, er
  <2> QED
    BY <2>7, SMT
<1> QED
  BY <1>2, <1>7, <1>8, <1>9

\* An estimate from the leading words of divisor and dividend, cut off at MAX,
\* is the quotient or one more.
Estimated(q, u3, d) == q \in Word /\ q * d <= u3 /\ (q = B - 1 \/ u3 < q * d + d)

\* Such an estimate of u / yv is the quotient or one more when d, the leading words
\* of yv, has its top bit set.
LEMMA EstimateClose ==
    ASSUME NEW w \in Nat, w > 0, NEW yv \in Nat, NEW u \in Nat, u < yv * B,
           NEW d, d = yv \div w, B * B <= 2 * d,
           NEW q, Estimated(q, u \div w, d)
    PROVE  /\ q * yv <= u => u < q * yv + yv
           /\ u < q * yv => q > 0 /\ (q - 1) * yv <= u
<1> DEFINE u3 == u \div w
<1>1. B \in Nat /\ B >= 2 /\ q \in Nat /\ q < B /\ q * d <= u3 /\ (q = B - 1 \/ u3 < q * d + d)
  BY BaseFacts, SMT DEF Word, Estimated
<1>2. d \in Nat /\ w * d <= yv /\ yv < w * d + w
  <2> DEFINE l == yv % w
  <2>1. d \in Nat /\ l \in Nat /\ l < w /\ yv = w * d + l
    BY DivMod, SMT
  <2>2. w * d \in Nat
    BY <2>1, SMT
  <2> HIDE DEF l
  <2> QED
    BY <2>1, <2>2, SMT
<1>3. u3 \in Nat /\ w * u3 <= u /\ u < w * u3 + w
  <2> DEFINE l == u % w
  <2>1. u3 \in Nat /\ l \in Nat /\ l < w /\ u = w * u3 + l
    BY DivMod, SMT
  <2> HIDE DEF l, u3
  <2>2. w * u3 \in Nat
    BY <2>1, SMT
  <2> QED
    BY <2>1, <2>2, SMT
<1> HIDE DEF u3
<1>4. d >= B
  <2>1. B * 2 <= B * B
    BY <1>1, Monotone, SMT
  <2> QED
    BY <2>1, <1>1, <1>2, SMT
<1>5. ASSUME q * yv <= u PROVE u < q * yv + yv
  <2>1. CASE q = B - 1
    <3>1. q * yv = yv * B - yv
      BY <2>1, <1>1, SMT
    <3>2. yv * B \in Int
      BY <1>1, SMT
    <3> QED
      BY <3>1, <3>2, SMT
  <2>2. CASE u3 < q * d + d
    <3>1. q * d \in Int /\ q * yv \in Int /\ (q + 1) * d = q * d + d /\ (q + 1) * yv = q * yv + yv
      BY <1>1, <1>2, SMT
    <3>2. u3 + 1 <= (q + 1) * d /\ (q + 1) * d \in Int
      BY <2>2, <3>1, <1>2, <1>3, SMT
    <3>3. w * (u3 + 1) <= w * ((q + 1) * d)
      BY <3>2, <1>3, Monotone, SMT
    <3>4. (q + 1) * (w * d) <= (q + 1) * yv
      <4>1. w * d \in Int /\ q + 1 \in Nat
        BY <1>1, <1>2, SMT
      <4> QED
        BY <4>1, <1>2, Monotone
    <3>5. w * ((q + 1) * d) = (q + 1) * (w * d) /\ w * (u3 + 1) = w * u3 + w
      BY <1>1, <1>2, <1>3, SMT
    <3> DEFINE a == (q + 1) * (w * d)
               b == w * (u3 + 1)
               c == q * yv
    <3>6. a \in Int /\ b \in Int /\ c \in Int /\ b <= a /\ a <= c + yv /\ u < b
      <4>1. a \in Int /\ b \in Int
        BY <1>1, <1>2, <1>3, SMT
      <4> QED
        BY <4>1, <3>1, <3>3, <3>4, <3>5, <1>3
    <3> HIDE DEF a, b, c
    <3>7. u < c + yv
      BY <3>6, SMT
    <3> QED
      BY <3>7 DEF c
  <2> QED
    BY <2>1, <2>2, <1>1
<1>6. ASSUME u < q * yv PROVE q > 0 /\ (q - 1) * yv <= u
  <2>1. q > 0
    <3> SUFFICES ASSUME q = 0 PROVE FALSE
      BY <1>1, SMT
    <3>1. q * yv = 0
      BY SMT
    <3> QED
      BY <3>1, <1>6, SMT
  <2>2. SUFFICES ASSUME u < (q - 1) * yv PROVE FALSE
    <3>1. (q - 1) * yv \in Int
      BY <1>1, SMT
    <3> QED
      BY <2>1, <2>2, <3>1, SMT
  <2>3. w * (q * d) <= w * u3
    <3>1. q * d \in Int
      BY <1>1, <1>2, SMT
    <3> QED
      BY <3>1, <1>1, <1>3, Monotone
  <2>4. (q - 1) * yv <= (q - 1) * (w * d + w)
    <3>1. q - 1 \in Nat /\ w * d + w \in Int /\ yv <= w * d + w
      BY <2>1, <1>1, <1>2, SMT
    <3> DEFINE c == w * d + w
    <3> HIDE DEF c
    <3>2. (q - 1) * yv <= (q - 1) * c
      BY <3>1, Monotone DEF c
    <3> QED
      BY <3>2 DEF c
  <2>5. w * (q * d) < w * ((q - 1) * (d + 1))
    <3>1. (q - 1) * (w * d + w) = w * ((q - 1) * (d + 1))
      BY <1>1, <1>2, SMT
    <3> DEFINE a == w * (q * d)
               b == w * u3
               c == (q - 1) * yv
               e == (q - 1) * (w * d + w)
    <3>2. a \in Int /\ b \in Int /\ c \in Int /\ e \in Int
      BY <1>1, <1>2, <1>3, SMT
    <3>3. a <= b /\ b <= u /\ u < c /\ c <= e
      BY <2>2, <2>3, <2>4, <1>3
    <3> HIDE DEF a, b, c, e
    <3>4. a < e
      BY <3>2, <3>3, SMT
    <3> QED
      BY <3>1, <3>4 DEF a, e
  <2>6. q * d < (q - 1) * (d + 1)
    <3>1. q * d \in Int /\ (q - 1) * (d + 1) \in Int
      BY <1>1, <1>2, SMT
    <3> QED
      BY <3>1, <2>5, Cancel
  <2>7. (q - 1) * (d + 1) = q * d + q - d - 1 /\ q * d \in Int
    BY <1>1, <1>2, SMT
  <2> QED
    BY <2>6, <2>7, <1>1, <1>2, <1>4, SMT
<1> QED
  BY <1>5, <1>6

\* The limbs of x below, in and above a window of n limbs from limb k up.
WindowOf(x, k, n) == (x \div W[k]) % W[n]

\* Their ranges, and how they add up to x.
LEMMA WindowParts ==
    ASSUME NEW x \in Nat, NEW k \in Nat, NEW n \in Nat, k + n <= 2 * N
    PROVE  /\ WindowOf(x, k, n) \in Nat /\ WindowOf(x, k, n) < W[n]
           /\ x % W[k] \in Nat /\ x % W[k] < W[k]
           /\ x % W[k + n] = (x % W[k]) + W[k] * WindowOf(x, k, n)
           /\ x \div W[k + n] \in Nat
           /\ x = W[k + n] * (x \div W[k + n]) + (x % W[k + n])
           /\ W[k + n] = W[n] * W[k] /\ W[k] \in Nat /\ W[k] > 0 /\ W[n] \in Nat /\ W[n] > 0
           /\ W[k + n] \in Nat /\ W[k + n] > 0
<1> DEFINE win == WindowOf(x, k, n)
<1>1. N \in Nat /\ k \in 0..(2 * N) /\ n \in 0..(2 * N) /\ k + n \in 0..(2 * N)
      /\ n + k <= 2 * N /\ n + k = k + n
  BY BaseFacts, SMT
<1>2. W[k] \in Nat /\ W[k] > 0 /\ W[n] \in Nat /\ W[n] > 0 /\ W[k + n] \in Nat /\ W[k + n] > 0
  BY <1>1, WeightFacts
<1>3. W[n + k] = W[n] * W[k]
  BY <1>1, WeightsMultiply
<1>4. W[k + n] = W[n] * W[k]
  BY <1>1, <1>3
<1>5. x % (W[n] * W[k]) = (x % W[k]) + W[k] * ((x \div W[k]) % W[n])
  BY <1>2, RemainderSplits
<1>6. x % W[k + n] = (x % W[k]) + W[k] * win
  BY <1>4, <1>5 DEF WindowOf
<1>7. x \div W[k] \in Nat /\ x % W[k] \in Nat /\ x % W[k] < W[k]
  <2>1. x \in Int /\ x >= 0
    BY SMT
  <2> QED
    BY <1>2, <2>1, DivMod
<1>8. win \in Nat /\ win < W[n]
  <2> DEFINE h == x \div W[k]
  <2> HIDE DEF h
  <2>1. h \in Int /\ win = h % W[n]
    BY <1>7, SMT DEF h, WindowOf
  <2> QED
    BY <2>1, <1>2, DivMod
<1>9. x \div W[k + n] \in Nat /\ x = W[k + n] * (x \div W[k + n]) + (x % W[k + n])
  <2>1. x \in Int /\ x >= 0
    BY SMT
  <2> QED
    BY <1>2, <2>1, DivMod
<1> QED
  BY <1>2, <1>4, <1>6, <1>7, <1>8, <1>9

\* Storing v in that window.
LEMMA WindowStored ==
    ASSUME NEW x \in Nat, NEW k \in Nat, NEW n \in Nat, k + n <= 2 * N,
           NEW v \in Nat, v < W[n],
           NEW z, z = x + (v - WindowOf(x, k, n)) * W[k]
    PROVE  /\ z \in Nat
           /\ z \div W[k + n] = x \div W[k + n]
           /\ z % W[k + n] = (x % W[k]) + W[k] * v
           /\ z % W[k] = x % W[k]
<1> DEFINE win == WindowOf(x, k, n)
           h   == x \div W[k + n]
           l   == x % W[k]
           c   == W[k]
           t   == W[k + n]
           m   == W[n]
<1>1. /\ win \in Nat /\ win < m
      /\ l \in Nat /\ l < c
      /\ x % t = l + c * win
      /\ h \in Nat
      /\ x = t * h + (x % t)
      /\ t = m * c /\ c \in Nat /\ c > 0 /\ m \in Nat /\ m > 0
      /\ t \in Nat /\ t > 0
  BY WindowParts
<1>2. z = x + (v - win) * c /\ v < m
  OBVIOUS
<1> HIDE DEF win, h, l, c, t, m
<1>3. z = t * h + (l + c * v)
  <2>1. x = t * h + (l + c * win)
    BY <1>1
  <2>2. (v - win) * c = c * v - c * win /\ c * v \in Int /\ c * win \in Int /\ t * h \in Int
    BY <1>1, SMT
  <2> QED
    BY <2>1, <2>2, <1>1, <1>2, SMT
<1>4. l + c * v \in 0..(t - 1)
  <2>1. c * (v + 1) <= c * m
    BY <1>1, <1>2, Monotone, SMT
  <2>2. c * (v + 1) = c * v + c /\ c * m = t /\ c * v \in Nat
    BY <1>1, SMT
  <2> QED
    BY <2>1, <2>2, <1>1, SMT
<1>5. z \in Nat
  <2>1. t * h \in Nat /\ l + c * v \in Nat
    BY <1>1, <1>4, SMT
  <2> QED
    BY <2>1, <1>3, SMT
<1>6. z \div t = h /\ z % t = l + c * v
  <2> DEFINE g == l + c * v
  <2>1. g \in 0..(t - 1) /\ z = t * h + g /\ z \in Int /\ h \in Int
    BY <1>1, <1>3, <1>4, <1>5, SMT
  <2>3. t \in Nat /\ t > 0
    BY <1>1
  <2> HIDE DEF g
  <2>2. z \div t = h /\ z % t = g
    BY <2>1, <2>3, DivisionIs
  <2> QED
    BY <2>2 DEF g
<1>7. z % c = l
  <2>1. z = c * (m * h + v) + l /\ m * h + v \in Int /\ l \in 0..(c - 1)
    <3>1. t * h = c * (m * h) /\ c * (m * h + v) = c * (m * h) + c * v
          /\ c * (m * h) \in Int /\ c * v \in Int /\ m * h \in Int
      BY <1>1, SMT
    <3> QED
      BY <3>1, <1>1, <1>3, SMT
  <2> DEFINE g == m * h + v
  <2>2. z = c * g + l /\ g \in Int /\ z \in Int
    BY <2>1, <1>5, SMT
  <2>3. l \in 0..(c - 1) /\ c \in Nat /\ c > 0
    BY <2>1, <1>1
  <2> HIDE DEF g
  <2> QED
    BY <2>2, <2>3, DivisionIs
<1> QED
  BY <1>5, <1>6, <1>7 DEF t, h, l, c

\* One digit of a long division: the multiple q * yv of the divisor is taken
\* from the window of n limbs from limb k up with xh above it; if that borrows, yv
\* is added back and the digit is one less.  The digit is then exact and what is
\* left is below the divisor.
DigitOf(q, u, yv)       == IF u < q * yv /\ q > 0 THEN q - 1 ELSE q
LeftOf(low, q, u, yv, m) == (low - q * yv + IF u < q * yv THEN yv ELSE 0) % m

\* What such a step is given: a normalised divisor, an estimate of the digit from
\* the leading words, and the window after it.
DigitGiven(x, k, n, xh, yv, u, q, r, p) ==
    /\ x \in Nat /\ k \in Nat /\ n \in Nat /\ n >= 2 /\ k + n <= 2 * N
    /\ xh \in Nat /\ yv \in Nat /\ yv < W[n] /\ B * B <= 2 * (yv \div W[n - 2])
    /\ u = xh * W[n] + WindowOf(x, k, n) /\ u < yv * B
    /\ Estimated(q, u \div W[n - 2], yv \div W[n - 2])
    /\ r = LeftOf(WindowOf(x, k, n), q, u, yv, W[n])
    /\ p = DigitOf(q, u, yv)

\* The digit is the quotient of the window by the divisor, and r the remainder.
LEMMA QuotientDigit ==
    ASSUME NEW x, NEW k, NEW n, NEW xh, NEW yv, NEW u, NEW q, NEW r, NEW p,
           DigitGiven(x, k, n, xh, yv, u, q, r, p)
    PROVE  /\ p \in Word
           /\ r \in Nat /\ r < yv
           /\ u = p * yv + r
<1>0. /\ x \in Nat /\ k \in Nat /\ n \in Nat /\ n >= 2 /\ k + n <= 2 * N
      /\ xh \in Nat /\ yv \in Nat /\ yv < W[n] /\ B * B <= 2 * (yv \div W[n - 2])
      /\ u = xh * W[n] + WindowOf(x, k, n) /\ u < yv * B
      /\ Estimated(q, u \div W[n - 2], yv \div W[n - 2])
      /\ r = LeftOf(WindowOf(x, k, n), q, u, yv, W[n])
      /\ p = DigitOf(q, u, yv)
  BY DEF DigitGiven
<1> USE <1>0
<1> DEFINE m == W[n]
           w == W[n - 2]
           win == WindowOf(x, k, n)
           hi == xh * m
<1>1. /\ win \in Nat /\ win < m /\ m \in Nat /\ m > 0
      /\ B \in Nat /\ B >= 2 /\ q \in Nat /\ q < B
  <2>1. n \in Nat /\ k \in Nat /\ k + n <= 2 * N
    OBVIOUS
  <2>2. win \in Nat /\ win < m /\ m \in Nat /\ m > 0
    BY <2>1, WindowParts
  <2>3. B \in Nat /\ B >= 2
    BY BaseFacts
  <2>4. q \in Nat /\ q < B
    BY <2>3, SMT DEF Word, Estimated
  <2> QED
    BY <2>2, <2>3, <2>4
<1>2. w \in Nat /\ w > 0
  <2>1. N \in Nat
    BY BaseFacts
  <2>2. n - 2 \in 0..(2 * N)
    BY <2>1, SMT
  <2> QED
    BY <2>2, WeightFacts
<1>3. u \in Nat /\ hi \in Nat /\ u = hi + win
  <2>1. hi \in Nat
    BY <1>1, SMT
  <2>2. u = hi + win
    OBVIOUS
  <2> HIDE DEF hi, win
  <2> QED
    BY <2>1, <2>2, <1>1, SMT
<1>4. /\ q * yv <= u => u < q * yv + yv
      /\ u < q * yv => q > 0 /\ (q - 1) * yv <= u
  <2> DEFINE d == yv \div w
  <2>1. d = yv \div w /\ B * B <= 2 * d /\ Estimated(q, u \div w, d)
    OBVIOUS
  <2> HIDE DEF d, w
  <2> QED
    BY <2>1, <1>2, <1>3, EstimateClose
<1>5. p * yv <= u /\ u < p * yv + yv /\ p \in Nat /\ p < B
  <2>1. q * yv \in Int /\ (q - 1) * yv = q * yv - yv
    BY <1>1, SMT
  <2>2. CASE q * yv <= u
    <3>1. p = q
      BY <2>1, <2>2, <1>3, SMT DEF DigitOf
    <3> QED
      BY <3>1, <2>2, <1>1, <1>4
  <2>3. CASE u < q * yv
    <3>1. p = q - 1 /\ p \in Nat /\ p < B
      BY <2>3, <1>1, <1>4, SMT DEF DigitOf
    <3>2. p * yv = q * yv - yv
      BY <2>1, <3>1
    <3> QED
      BY <2>1, <2>3, <3>1, <3>2, <1>3, <1>4, SMT
  <2> QED
    BY <2>1, <2>2, <2>3, <1>3, SMT
<1> DEFINE t == u - p * yv
<1>6. t \in Nat /\ t < yv /\ u = p * yv + t
  <2>1. p * yv \in Int
    BY <1>5, SMT
  <2> QED
    BY <2>1, <1>3, <1>5, SMT
<1>7. win - q * yv + (IF u < q * yv THEN yv ELSE 0) = m * (-xh) + t
  <2>1. m * (-xh) = -hi /\ q * yv \in Int /\ p * yv \in Int
    BY <1>1, <1>5, SMT
  <2>2. p * yv = q * yv - (IF u < q * yv THEN yv ELSE 0)
    <3>1. CASE q * yv <= u
      <4>1. p = q /\ ~(u < q * yv)
        BY <2>1, <3>1, <1>3, SMT DEF DigitOf
      <4> QED
        BY <4>1, <2>1, SMT
    <3>2. CASE u < q * yv
      <4>1. p = q - 1
        BY <3>2, <1>1, <1>4, SMT DEF DigitOf
      <4>2. (q - 1) * yv = q * yv - yv
        BY <1>1, SMT
      <4> QED
        BY <3>2, <4>1, <4>2
    <3> QED
      BY <2>1, <3>1, <3>2, <1>3, SMT
  <2> DEFINE qy == q * yv
             py == p * yv
             f  == IF u < q * yv THEN yv ELSE 0
  <2>3. qy \in Int /\ py \in Int /\ f \in Int /\ py = qy - f /\ t = u - py
    BY <2>1, <2>2
  <2> HIDE DEF qy, py, f, t, hi, win
  <2>4. win - qy + f = m * (-xh) + t
    BY <2>1, <2>3, <1>1, <1>3, SMT
  <2> QED
    BY <2>4 DEF qy, f
<1>8. r = t
  <2> DEFINE a == win - q * yv + (IF u < q * yv THEN yv ELSE 0)
             h == -xh
  <2>1. r = a % m
    BY DEF LeftOf
  <2>2. a = m * h + t /\ h \in Int
    BY <1>7, SMT
  <2> HIDE DEF a, h, t
  <2>3. a \in Int /\ t \in 0..(m - 1)
    BY <2>2, <1>1, <1>6, SMT
  <2> QED
    BY <2>1, <2>2, <2>3, <1>1, DivisionIs
<1>9. p \in Word
  BY <1>1, <1>5, SMT DEF Word
<1> QED
  BY <1>6, <1>8, <1>9

\* What the integers are after it: the limbs above the window are as they were,
\* and those below the end of the window hold what is left.
DigitLeft(x, k, n, xh, yv, p, r, z) ==
    /\ x \in Nat /\ k \in Nat /\ n \in Nat /\ k + n <= 2 * N
    /\ xh \in Nat /\ yv \in Nat /\ yv < W[n]
    /\ p \in Nat /\ r \in Nat /\ r < yv
    /\ xh * W[n] + WindowOf(x, k, n) = p * yv + r
    /\ z = x + (r - WindowOf(x, k, n)) * W[k]

\* The limbs below the window and those above it stay as they were.
LEMMA DigitStored ==
    ASSUME NEW x, NEW k, NEW n, NEW xh, NEW yv, NEW p, NEW r, NEW z,
           DigitLeft(x, k, n, xh, yv, p, r, z)
    PROVE  /\ z \in Nat
           /\ z \div W[k + n] = x \div W[k + n]
           /\ z % W[k + n] \in Nat /\ z % W[k + n] < yv * W[k]
           /\ xh * W[k + n] + (x % W[k + n]) = p * (yv * W[k]) + (z % W[k + n])
<1>0. /\ x \in Nat /\ k \in Nat /\ n \in Nat /\ k + n <= 2 * N
      /\ xh \in Nat /\ yv \in Nat /\ yv < W[n]
      /\ p \in Nat /\ r \in Nat /\ r < yv
      /\ xh * W[n] + WindowOf(x, k, n) = p * yv + r
      /\ z = x + (r - WindowOf(x, k, n)) * W[k]
  BY DEF DigitLeft
<1> USE <1>0
<1> DEFINE c   == W[k]
           m   == W[n]
           win == WindowOf(x, k, n)
           l   == x % c
<1>1. /\ win \in Nat /\ win < m /\ m \in Nat /\ m > 0 /\ c \in Nat /\ c > 0 /\ W[k + n] = m * c
      /\ l \in Nat /\ l < c /\ x % W[k + n] = l + c * win
  BY WindowParts
<1>2. /\ z \in Nat /\ z \div W[k + n] = x \div W[k + n] /\ z % W[k + n] = l + c * r
  <2>1. r < W[n]
    BY <1>1, SMT
  <2> HIDE DEF win
  <2> QED
    BY <2>1, WindowStored DEF win
<1>3. xh * m + win = p * yv + r
  OBVIOUS
<1> HIDE DEF c, m, win, l
<1>4. c * r + c <= yv * c
  <2>1. c * (r + 1) <= c * yv
    BY <1>1, Monotone, SMT
  <2> QED
    BY <2>1, <1>1, SMT
<1>5. l + c * r \in Nat /\ l + c * r < yv * c
  <2>1. c * r \in Nat /\ yv * c \in Nat
    BY <1>1, SMT
  <2> QED
    BY <2>1, <1>1, <1>4, SMT
<1>6. xh * (m * c) + (l + c * win) = p * (yv * c) + (l + c * r)
  <2>1. c * (xh * m + win) = c * (p * yv + r)
    BY <1>3
  <2>2. c * (xh * m + win) = xh * (m * c) + c * win /\ c * (p * yv + r) = p * (yv * c) + c * r
    BY <1>1, SMT
  <2>3. xh * (m * c) \in Int /\ c * win \in Int /\ p * (yv * c) \in Int /\ c * r \in Int
    BY <1>1, SMT
  <2> DEFINE y1 == xh * (m * c)
             y2 == c * win
             y3 == p * (yv * c)
             y4 == c * r
  <2>4. y1 + y2 = y3 + y4 /\ y1 \in Int /\ y2 \in Int /\ y3 \in Int /\ y4 \in Int
    BY <2>1, <2>2, <2>3
  <2> HIDE DEF y1, y2, y3, y4
  <2>5. y1 + (l + y2) = y3 + (l + y4)
    BY <2>4, <1>1, SMT
  <2> QED
    BY <2>5 DEF y1, y2, y3, y4
<1> QED
  BY <1>1, <1>2, <1>5, <1>6 DEF c

\* What is left of the dividend above limb i and in its limbs up to it.
TopOf(xh, x, i) == xh * W[i + 1] + (x % W[i + 1])

\* Its upper limb is moved into xh.
LEMMA TopDown ==
    ASSUME NEW z \in Nat, NEW i \in Nat, i >= 1, i + 1 <= 2 * N,
           NEW x \in Nat, x % W[i] = z % W[i]
    PROVE  TopOf(Limb(z, i), x, i - 1) = z % W[i + 1]
<1>1. i \in 0..(2 * N - 1) /\ (i - 1) + 1 = i /\ i \in 0..(2 * N) /\ N \in Nat
  BY BaseFacts, SMT
<1>2. z % W[i + 1] = (z % W[i]) + W[i] * Limb(z, i)
  BY <1>1, LowLimbs
<1>3. W[i] \in Nat /\ W[i] > 0 /\ Limb(z, i) \in Nat
  <2>1. Limb(z, i) \in Word /\ B \in Nat
    BY <1>1, LimbType, BaseFacts
  <2> QED
    BY <2>1, <1>1, WeightFacts, SMT DEF Word
<1>4. z % W[i] \in Nat
  BY <1>3, DivMod, SMT
<1> DEFINE a == z % W[i]
           f == Limb(z, i)
           w == W[i]
<1>5. TopOf(f, x, i - 1) = f * w + a
  BY <1>1 DEF TopOf
<1>6. z % W[i + 1] = a + w * f /\ a \in Nat /\ w \in Nat /\ f \in Nat
  BY <1>2, <1>3, <1>4
<1> HIDE DEF a, f, w
<1>7. f * w + a = a + w * f
  BY <1>6, SMT
<1> QED
  BY <1>5, <1>6, <1>7 DEF f

\* Or all are moved up, and the next limb of the low part is taken in.
LEMMA TopIn ==
    ASSUME NEW z \in Nat, NEW i \in Nat, i >= 1, i + 1 <= 2 * N, NEW l \in Word,
           NEW x, x = z + (((z % W[i]) * B + l) - WindowOf(z, 0, i + 1)) * W[0]
    PROVE  /\ x \in Nat
           /\ TopOf(Limb(z, i), x, i) = (z % W[i + 1]) * B + l
           /\ Limb(x, i) = Limb(z, i - 1)
<1> DEFINE v == (z % W[i]) * B + l
           t == W[i + 1]
           w == W[i]
           e == W[i - 1]
           f == Limb(z, i)
           g == Limb(z, i - 1)
           a == z % w
           b == z % e
<1>1. i \in 0..(2 * N - 1) /\ (i - 1) + 1 = i /\ i \in 0..(2 * N) /\ N \in Nat
      /\ i - 1 \in 0..(2 * N - 1) /\ i - 1 \in 0..(2 * N) /\ i + 1 \in 0..(2 * N)
      /\ i < 2 * N /\ i - 1 < 2 * N
  BY BaseFacts, SMT
<1>2. B \in Nat /\ B >= 2 /\ l \in Nat /\ l < B
  BY BaseFacts, SMT DEF Word
<1>3. /\ t \in Nat /\ t > 0 /\ w \in Nat /\ w > 0 /\ e \in Nat /\ e > 0
      /\ t = B * w /\ w = B * e /\ W[0] = 1
  <2>1. W[i + 1] \in Nat /\ W[i + 1] > 0
    BY <1>1, WeightFacts
  <2>2. W[i] \in Nat /\ W[i] > 0 /\ W[i + 1] = B * W[i]
    BY <1>1, WeightFacts
  <2>3. W[i - 1] \in Nat /\ W[i - 1] > 0 /\ W[(i - 1) + 1] = B * W[i - 1]
    BY <1>1, WeightFacts
  <2> QED
    BY <2>1, <2>2, <2>3, <1>1, WeightAssumption
<1>4. f \in Word /\ g \in Word /\ f \in Nat /\ g \in Nat /\ g < B
  <2>1. f \in Word /\ g \in Word
    BY <1>1, LimbType
  <2> QED
    BY <2>1, <1>2, SMT DEF Word
<1>5. z % t = a + w * f
  BY <1>1, LowLimbs
<1>6. a = b + e * g
  BY <1>1, LowLimbs
<1>7. a \in Nat /\ a < w /\ b \in Nat /\ b < e
  <2>1. z \in Int
    BY SMT
  <2> QED
    BY <2>1, <1>3, DivMod
<1>8. v \in Nat /\ v < t
  <2> HIDE DEF a, t, w
  <2>1. v = a * B + l
    BY DEF a, w
  <2>2. B * (a + 1) <= B * w /\ B * (a + 1) = a * B + B /\ a * B \in Nat
    BY <1>2, <1>3, <1>7, Monotone, SMT
  <2> QED
    BY <2>1, <2>2, <1>2, <1>3, SMT
<1>9. x \in Nat /\ x % t = v
  <2>1. 0 + (i + 1) = i + 1 /\ 0 \in Nat /\ i + 1 \in Nat /\ 0 + (i + 1) <= 2 * N
    BY <1>1, SMT
  <2>2. x = z + (v - WindowOf(z, 0, i + 1)) * W[0]
    OBVIOUS
  <2> HIDE DEF v
  <2>3. x \in Nat /\ x % W[0 + (i + 1)] = (z % W[0]) + W[0] * v
    BY <2>1, <2>2, <1>8, WindowStored
  <2>4. z % 1 = 0
    <3>1. z = 1 * z + 0 /\ 0 \in 0..(1 - 1) /\ z \in Int
      BY SMT
    <3> QED
      BY <3>1, DivisionIs
  <2>5. x % t = 0 + 1 * v
    BY <2>1, <2>3, <2>4, <1>3
  <2> QED
    BY <2>3, <2>5, <1>8, SMT
<1>10. TopOf(f, x, i) = f * t + v
  BY <1>9 DEF TopOf
<1>11. f * t + v = (z % t) * B + l
  <2>1. v = a * B + l
    OBVIOUS
  <2> HIDE DEF v, a, t, w, f
  <2>2. (a + w * f) * B = a * B + f * (B * w)
    BY <1>2, <1>3, <1>4, <1>7, SMT
  <2>3. a * B \in Int /\ f * (B * w) \in Int
    BY <1>2, <1>3, <1>4, <1>7, SMT
  <2> QED
    BY <2>1, <2>2, <2>3, <1>2, <1>3, <1>5, SMT
<1>12. Limb(x, i) = g
  <2> DEFINE q == x \div t
  <2>1. q \in Nat /\ x = t * q + v /\ x \in Int
    <3> HIDE DEF v, t
    <3>1. x \in Int /\ x >= 0
      BY <1>9, SMT
    <3> QED
      BY <3>1, <1>3, <1>9, DivMod
  <2> HIDE DEF q
  <2>2. v = w * g + (B * b + l)
    <3>1. v = a * B + l
      OBVIOUS
    <3> HIDE DEF v, a, w, b, g
    <3>2. (b + e * g) * B = B * b + (B * e) * g
      BY <1>2, <1>3, <1>4, <1>7, SMT
    <3>3. B * b \in Int /\ (B * e) * g \in Int
      BY <1>2, <1>3, <1>4, <1>7, SMT
    <3> QED
      BY <3>1, <3>2, <3>3, <1>2, <1>3, <1>6, SMT
  <2>3. B * b + l \in 0..(w - 1)
    <3> HIDE DEF b, w, e
    <3>1. B * (b + 1) <= B * e /\ B * (b + 1) = B * b + B /\ B * b \in Nat
      BY <1>2, <1>3, <1>7, Monotone, SMT
    <3> QED
      BY <3>1, <1>2, <1>3, SMT
  <2> DEFINE s == B * q + g
             o == B * b + l
  <2>4. x = w * s + o /\ s \in Int
    <3>1. o \in Int
      BY <2>3
    <3> HIDE DEF v, t, w, g, o
    <3>2. v = w * g + o
      BY <2>2 DEF o
    <3>3. w * s = (B * w) * q + w * g /\ (B * w) * q \in Int /\ w * g \in Int /\ s \in Int
      BY <2>1, <1>2, <1>3, <1>4, SMT
    <3> HIDE DEF s
    <3> QED
      BY <3>1, <3>2, <3>3, <2>1, <1>3, SMT
  <2>5. o \in 0..(w - 1) /\ x \in Int
    BY <2>1, <2>3
  <2> HIDE DEF s, o, w
  <2>6. x \div w = s
    BY <2>4, <2>5, <1>3, DivisionIs
  <2>7. s % B = g
    <3>1. s = B * q + g /\ g \in 0..(B - 1) /\ q \in Int /\ s \in Int
      BY <2>1, <2>4, <1>2, <1>4, SMT DEF s
    <3> HIDE DEF g
    <3>2. B > 0
      BY <1>2, SMT
    <3> QED
      BY <3>1, <3>2, <1>2, DivisionIs
  <2> QED
    BY <2>6, <2>7 DEF Limb, w
<1> QED
  BY <1>9, <1>10, <1>11, <1>12

\* What is still to be divided: the top, and e limbs of the low part.
Remaining(xh, x, i, lo, e) == TopOf(xh, x, i) * W[e] + (lo % W[e])

\* A limb of the low part that moves under the top changes nothing of it.
LEMMA RemainingIn ==
    ASSUME NEW t \in Nat, NEW lo \in Nat, NEW e \in Nat, e >= 1, e <= 2 * N
    PROVE  (t * B + Limb(lo, e - 1)) * W[e - 1] + (lo % W[e - 1]) = t * W[e] + (lo % W[e])
<1> DEFINE w == W[e - 1]
           f == Limb(lo, e - 1)
           a == lo % w
<1>1. e - 1 \in 0..(2 * N - 1) /\ e - 1 \in 0..(2 * N) /\ (e - 1) + 1 = e /\ e - 1 < 2 * N
  BY BaseFacts, SMT
<1>2. w \in Nat /\ w > 0 /\ W[e] = B * w
  BY <1>1, WeightFacts
<1>3. lo % W[e] = a + w * f
  BY <1>1, LowLimbs
<1>4. f \in Nat /\ B \in Nat
  <2>1. f \in Word
    BY <1>1, LimbType
  <2> QED
    BY <2>1, BaseFacts, SMT DEF Word
<1>5. a \in Nat
  BY <1>2, DivMod, SMT
<1> HIDE DEF w, f, a
<1>6. (t * B + f) * w + a = t * (B * w) + (a + w * f)
  <2>1. (t * B + f) * w = t * (B * w) + w * f
    BY <1>2, <1>4, SMT
  <2>2. t * (B * w) \in Int /\ w * f \in Int
    BY <1>2, <1>4, SMT
  <2> QED
    BY <2>1, <2>2, <1>5, SMT
<1> QED
  BY <1>2, <1>3, <1>6 DEF w, f, a

\* The weights of a sum of two positions.
LEMMA WeightsAdd ==
    ASSUME NEW a \in Nat, NEW b \in Nat, NEW c \in Nat, c = a + b, c <= 2 * N
    PROVE  /\ W[a] \in Nat /\ W[a] > 0 /\ W[b] \in Nat /\ W[b] > 0
           /\ W[c] \in Nat /\ W[c] > 0
           /\ W[c] = W[a] * W[b]
<1>1. a \in 0..(2 * N) /\ b \in 0..(2 * N) /\ c \in 0..(2 * N) /\ a + b <= 2 * N
  BY BaseFacts, SMT
<1>2. W[a] \in Nat /\ W[a] > 0 /\ W[b] \in Nat /\ W[b] > 0 /\ W[c] \in Nat /\ W[c] > 0
  BY <1>1, WeightFacts
<1>3. W[a + b] = W[a] * W[b]
  BY <1>1, WeightsMultiply
<1> QED
  BY <1>2, <1>3

\* Dividing twice is dividing by the product.
LEMMA DivTwice ==
    ASSUME NEW a \in Nat, NEW b \in Nat, b > 0, NEW c \in Nat, c > 0, NEW m, m = b * c
    PROVE  (a \div b) \div c = a \div m
<1> DEFINE q == a \div b
           r == a % b
           h == q \div c
           s == q % c
<1>1. q \in Nat /\ r \in Nat /\ r < b /\ a = b * q + r
  BY DivMod, SMT
<1>2. h \in Nat /\ s \in Nat /\ s < c /\ q = c * h + s
  <2> HIDE DEF q
  <2> QED
    BY <1>1, DivMod, SMT
<1>3. m \in Nat /\ m > 0
  BY SMT
<1> HIDE DEF q, r, h, s
<1> DEFINE g == b * s + r
<1>4. a = m * h + g
  <2>1. b * (c * h + s) = m * h + b * s /\ m * h \in Int /\ b * s \in Int
    BY <1>1, <1>2, SMT
  <2> QED
    BY <2>1, <1>1, <1>2, SMT
<1>5. g \in 0..(m - 1)
  <2>1. b * (s + 1) <= b * c /\ b * (s + 1) = b * s + b /\ b * c = m /\ b * s \in Nat
    <3>1. b * (s + 1) <= b * c
      BY <1>2, Monotone, SMT
    <3> QED
      BY <3>1, <1>2, SMT
  <2> QED
    BY <2>1, <1>1, <1>3, SMT
<1> HIDE DEF g
<1>6. a \div m = h
  <2>1. h \in Int /\ a \in Int
    BY <1>2
  <2> QED
    BY <2>1, <1>3, <1>4, <1>5, DivisionIs
<1> QED
  BY <1>6 DEF h, q

\* A divisor dv of w limbs, moved up to the l limbs of a: its top bit is set.
Normalized(a, l, w, dv) ==
    /\ l \in 2..N /\ w \in 1..l /\ dv \in Nat /\ a \in Nat
    /\ a = dv * W[l - w] /\ a < W[l] /\ W[l] <= 2 * a

\* The two words at its top have the top bit set, too.
LEMMA LeadingWords ==
    ASSUME NEW a, NEW l, NEW w, NEW dv, Normalized(a, l, w, dv),
           NEW d, d = a \div W[l - 2]
    PROVE  /\ d \in Nat /\ B * B <= 2 * d /\ d < B * B
           /\ d * W[l - 2] <= a /\ a < d * W[l - 2] + W[l - 2]
           /\ dv > 0
<1> DEFINE e == W[l - 2]
           r == a % e
           s == B * B
<1>1. l \in Nat /\ l >= 2 /\ l <= N /\ N \in Nat /\ w \in Nat /\ w >= 1 /\ w <= l
      /\ a \in Nat /\ dv \in Nat /\ B \in Nat /\ B >= 2
  BY BaseFacts, SMT DEF Normalized
<1>2. e \in Nat /\ e > 0 /\ W[l] = s * e /\ s \in Nat
  <2>1. l - 2 \in 0..(2 * N) /\ l - 1 \in 0..(2 * N) /\ (l - 2) + 1 = l - 1
        /\ (l - 1) + 1 = l /\ l - 2 < 2 * N /\ l - 1 < 2 * N
    BY <1>1, SMT
  <2>2. W[l - 2] \in Nat /\ W[l - 2] > 0 /\ W[(l - 2) + 1] = B * W[l - 2]
    BY <2>1, WeightFacts
  <2>3. W[(l - 1) + 1] = B * W[l - 1]
    BY <2>1, WeightFacts
  <2>4. W[l] = B * (B * e)
    BY <2>1, <2>2, <2>3
  <2> HIDE DEF e
  <2>5. e \in Nat /\ e > 0
    BY <2>2 DEF e
  <2> QED
    BY <2>4, <2>5, <1>1, SMT
<1>3. a < s * e /\ s * e <= 2 * a
  BY <1>2 DEF Normalized
<1>4. d \in Nat /\ r \in Nat /\ r < e /\ a = e * d + r
  <2> HIDE DEF e
  <2>1. a \in Int /\ a >= 0
    BY <1>1
  <2>2. a \div e \in Nat /\ a % e \in Nat /\ a % e < e /\ a = e * (a \div e) + (a % e)
    BY <2>1, <1>2, DivMod
  <2> QED
    BY <2>2 DEF e
<1>5. dv > 0
  <2>1. dv = 0 => a = 0
    <3>1. W[l - w] \in Nat
      <4>1. l - w \in 0..(2 * N)
        BY <1>1, SMT
      <4> QED
        BY <4>1, WeightFacts
    <3>2. dv = 0 => dv * W[l - w] = 0
      BY <3>1, SMT
    <3> QED
      BY <3>2 DEF Normalized
  <2>2. s * e > 0
    <3>1. s > 0
      BY <1>1, SMT
    <3> HIDE DEF s, e
    <3> QED
      BY <3>1, <1>2, SMT
  <2> DEFINE se == s * e
  <2>3. se \in Int /\ se <= 2 * a
    BY <1>2, <1>3, SMT
  <2> HIDE DEF se
  <2> QED
    BY <2>1, <2>2, <2>3, <1>1, SMT DEF se
<1> HIDE DEF e, r
<1>6. d < s
  <2>1. e * d < e * s
    <3>1. s * e = e * s /\ e * d \in Int /\ e * s \in Int
      BY <1>2, <1>4, SMT
    <3> QED
      BY <3>1, <1>3, <1>4, SMT
  <2> HIDE DEF s
  <2> QED
    BY <2>1, <1>2, <1>4, Cancel, SMT
<1>7. s < 2 * d + 2
  <2>1. e * s < e * (2 * d + 2)
    <3>1. e * (2 * d + 2) = 2 * (e * d) + 2 * e /\ s * e = e * s /\ e * d \in Int /\ e * s \in Int
      BY <1>2, <1>4, SMT
    <3> QED
      BY <3>1, <1>2, <1>3, <1>4, SMT
  <2>2. 2 * d + 2 \in Int /\ s \in Int
    BY <1>2, <1>4, SMT
  <2> DEFINE t == 2 * d + 2
  <2> HIDE DEF s, t
  <2>3. t \in Int /\ s \in Int /\ e * s < e * t
    BY <2>1, <2>2 DEF t
  <2>4. s < t
    BY <2>3, <1>2, Cancel
  <2> QED
    BY <2>4 DEF t
<1>8. s <= 2 * d
  <2>1. s = 2 * (HalfB * B) /\ HalfB * B \in Int
    <3>1. B = 2 * HalfB /\ HalfB \in Nat
      BY BaseAssumption DEF B
    <3> DEFINE h == HalfB
    <3>2. (2 * h) * B = 2 * (h * B) /\ h * B \in Int /\ s = (2 * h) * B
      <4>1. h \in Nat /\ B \in Nat
        BY <3>1, <1>1
      <4>2. s = (2 * h) * B
        BY <3>1
      <4> HIDE DEF h, s
      <4> QED
        BY <4>1, <4>2, SMT
    <3> QED
      BY <3>2
  <2> QED
    BY <2>1, <1>4, <1>7, SMT
<1>9. d * e <= a /\ a < d * e + e
  <2>1. d * e = e * d /\ e * d \in Int
    BY <1>2, <1>4, SMT
  <2> QED
    BY <2>1, <1>2, <1>4, SMT
<1> QED
  BY <1>4, <1>5, <1>6, <1>8, <1>9 DEF e

\* The n limbs at its top, of which w are in use.
LEMMA DivisorWindow ==
    ASSUME NEW a, NEW l, NEW w, NEW dv, Normalized(a, l, w, dv),
           NEW n \in 2..l, w <= n, NEW yv, yv = a \div W[l - n]
    PROVE  /\ yv = dv * W[n - w]
           /\ yv \in Nat /\ yv < W[n]
           /\ yv \div W[n - 2] = a \div W[l - 2]
<1> DEFINE e == W[l - n]
           u == W[n - w]
<1>1. l \in Nat /\ l >= 2 /\ l <= N /\ N \in Nat /\ w \in Nat /\ w >= 1 /\ w <= n
      /\ a \in Nat /\ dv \in Nat /\ n \in Nat /\ n >= 2 /\ n <= l
  BY BaseFacts, SMT DEF Normalized
<1>2. /\ e \in Nat /\ e > 0 /\ u \in Nat /\ u > 0 /\ W[l - w] = e * u
  <2>1. l - n \in Nat /\ n - w \in Nat /\ l - w \in Nat /\ l - w = (l - n) + (n - w) /\ l - w <= 2 * N
    BY <1>1, SMT
  <2> QED
    BY <2>1, WeightsAdd
<1>3. W[n] \in Nat /\ W[l] = e * W[n]
  <2>1. l - n \in Nat /\ l = (l - n) + n /\ l <= 2 * N
    BY <1>1, SMT
  <2> QED
    BY <2>1, <1>1, WeightsAdd
<1>4. W[n - 2] \in Nat /\ W[n - 2] > 0 /\ W[l - 2] = e * W[n - 2]
  <2>1. l - n \in Nat /\ n - 2 \in Nat /\ l - 2 \in Nat /\ l - 2 = (l - n) + (n - 2) /\ l - 2 <= 2 * N
    BY <1>1, SMT
  <2> QED
    BY <2>1, WeightsAdd
<1>5. a = dv * W[l - w] /\ a < W[l]
  BY DEF Normalized
<1> DEFINE p == dv * u
<1>6. yv = p /\ p \in Nat
  <2>1. p \in Int /\ p \in Nat /\ 0 \in 0..(e - 1) /\ a = e * p + 0 /\ a \in Int
    <3> HIDE DEF e, u
    <3> QED
      BY <1>1, <1>2, <1>5, SMT
  <2> HIDE DEF p, e
  <2> QED
    BY <2>1, <1>2, DivisionIs DEF e
<1>7. yv < W[n]
  <2> DEFINE m == W[n]
  <2>1. a = e * p /\ a < e * m /\ m \in Int /\ p \in Int
    <3> HIDE DEF e, u
    <3> QED
      BY <1>1, <1>2, <1>3, <1>5, <1>6, SMT
  <2> HIDE DEF m, p, e
  <2>2. p < m
    BY <2>1, <1>2, Cancel
  <2> QED
    BY <2>2, <1>6 DEF m
<1>8. yv \div W[n - 2] = a \div W[l - 2]
  BY <1>1, <1>2, <1>4, DivTwice
<1> QED
  BY <1>6, <1>7, <1>8

\* The n limbs of the dividend up to limb i, and what is above them.
Windowed(x, i, xh, n, k, u) ==
    /\ x \in Nat /\ i \in Nat /\ i >= 1 /\ i + 1 <= 2 * N /\ xh \in Nat
    /\ n \in Nat /\ n >= 2 /\ k \in Nat /\ k + n = i + 1
    /\ u = xh * W[n] + WindowOf(x, k, n)

\* The top is the window, then the limbs below; the leading words of the window are
\* the three words the estimate is made from.
LEMMA DividendWindow ==
    ASSUME NEW x, NEW i, NEW xh, NEW n, NEW k, NEW u, Windowed(x, i, xh, n, k, u)
    PROVE  /\ u \in Nat
           /\ TopOf(xh, x, i) = u * W[k] + (x % W[k])
           /\ x % W[k] \in Nat
           /\ u \div W[n - 2] = Limb(x, i - 1) + (Limb(x, i) + xh * B) * B
<1> DEFINE win == WindowOf(x, k, n)
           c == W[k]
           m == W[n]
           e == W[n - 2]
           l == x % c
<1> USE DEF Windowed
<1>0. /\ x \in Nat /\ i \in Nat /\ i >= 1 /\ i + 1 <= 2 * N /\ xh \in Nat
      /\ n \in Nat /\ n >= 2 /\ k \in Nat /\ k + n = i + 1
      /\ u = xh * W[n] + WindowOf(x, k, n)
  OBVIOUS
<1> USE <1>0
<1> HIDE DEF Windowed
<1>1. k + n <= 2 * N /\ N \in Nat /\ k \in 0..(2 * N - 1)
  BY BaseFacts, SMT
<1>2. B \in Nat /\ B >= 2
  BY BaseFacts
<1>3. /\ win \in Nat /\ win < m /\ l \in Nat
      /\ x % W[i + 1] = l + c * win
      /\ W[i + 1] = m * c /\ c \in Nat /\ c > 0 /\ m \in Nat /\ m > 0
  <2>1. /\ win \in Nat /\ win < m /\ l \in Nat
        /\ x % W[k + n] = l + c * win
        /\ W[k + n] = m * c /\ c \in Nat /\ c > 0 /\ m \in Nat /\ m > 0
    <3>1. /\ WindowOf(x, k, n) \in Nat /\ WindowOf(x, k, n) < W[n]
          /\ x % W[k] \in Nat
          /\ x % W[k + n] = (x % W[k]) + W[k] * WindowOf(x, k, n)
          /\ W[k + n] = W[n] * W[k] /\ W[k] \in Nat /\ W[k] > 0 /\ W[n] \in Nat /\ W[n] > 0
      BY <1>1, WindowParts
    <3> QED
      BY <3>1
  <2> QED
    BY <2>1, <1>1
<1>4. e \in Nat /\ e > 0 /\ m = B * (B * e) /\ W[i - 1] = c * e /\ W[i] = c * (B * e)
  <2>1. n - 2 \in 0..(2 * N) /\ n - 1 \in 0..(2 * N) /\ (n - 2) + 1 = n - 1
        /\ (n - 1) + 1 = n /\ n - 2 < 2 * N /\ n - 1 < 2 * N
    BY <1>1, SMT
  <2>2. W[n - 2] \in Nat /\ W[n - 2] > 0 /\ W[(n - 2) + 1] = B * W[n - 2]
    BY <2>1, WeightFacts
  <2>3. W[(n - 1) + 1] = B * W[n - 1]
    BY <2>1, WeightFacts
  <2>4. m = B * (B * e) /\ W[n - 1] = B * e
    BY <2>1, <2>2, <2>3
  <2>5. k \in Nat /\ n - 2 \in Nat /\ n - 1 \in Nat /\ i - 1 = k + (n - 2) /\ i - 1 <= 2 * N
        /\ i = k + (n - 1) /\ i <= 2 * N /\ i - 1 \in Nat
    BY <1>1, SMT
  <2>6. W[i - 1] = W[k] * W[n - 2]
    BY <2>5, WeightsAdd
  <2>7. W[i] = W[k] * W[n - 1]
    BY <2>5, WeightsAdd
  <2> QED
    BY <2>2, <2>4, <2>6, <2>7
<1>5. u = xh * m + win
  OBVIOUS
<1>6. u \in Nat
  <2> HIDE DEF win, m
  <2> QED
    BY <1>3, <1>5, SMT
<1>7. TopOf(xh, x, i) = u * c + l
  <2>1. TopOf(xh, x, i) = xh * (m * c) + (l + c * win)
    BY <1>3 DEF TopOf
  <2> HIDE DEF win, m, c, l
  <2>2. u * c = xh * (m * c) + c * win /\ xh * (m * c) \in Int /\ c * win \in Int
    BY <1>3, <1>5, SMT
  <2> QED
    BY <2>1, <2>2, <1>3, SMT
<1> DEFINE a == Limb(x, i - 1)
           b == Limb(x, i)
           f == x % W[i - 1]
           g == f \div c
<1>8. /\ x % W[i + 1] = f + (c * e) * a + (c * (B * e)) * b
      /\ a \in Nat /\ b \in Nat /\ f \in Nat /\ f < c * e
  <2>1. i - 1 \in 0..(2 * N - 1) /\ i \in 0..(2 * N - 1) /\ (i - 1) + 1 = i
        /\ i - 1 \in 0..(2 * N) /\ i \in 0..(2 * N)
    BY <1>1, SMT
  <2>2. x % W[i + 1] = (x % W[i]) + W[i] * Limb(x, i)
    BY <2>1, LowLimbs
  <2>3. x % W[(i - 1) + 1] = (x % W[i - 1]) + W[i - 1] * Limb(x, i - 1)
    BY <2>1, LowLimbs
  <2>4. a \in Word /\ b \in Word
    BY <2>1, LimbType
  <2>5. a \in Nat /\ b \in Nat
    BY <2>4, <1>2, SMT DEF Word
  <2>6. W[i - 1] \in Nat /\ W[i - 1] > 0
    BY <2>1, WeightFacts
  <2>7. f \in Nat /\ f < W[i - 1]
    BY <2>6, DivMod, SMT
  <2> QED
    BY <2>1, <2>2, <2>3, <2>5, <2>7, <1>4
<1>9. f % c = l /\ f = c * g + l /\ g \in Nat
  <2>1. (x % W[i - 1]) % W[k] = x % W[k]
    <3>1. i - 1 \in 0..(2 * N) /\ k \in 0..(i - 1)
      BY <1>1, SMT
    <3> QED
      BY <3>1, LowOfLow
  <2>2. f \in Int /\ f >= 0
    BY <1>8
  <2> HIDE DEF f
  <2>3. f = c * g + (f % c) /\ g \in Nat
    BY <2>2, <1>3, DivMod
  <2> QED
    BY <2>1, <2>3 DEF f
<1> DEFINE t == a + (b + xh * B) * B
<1> HIDE DEF win, m, c, l, e, a, b, f, g
<1>10. c * win = c * (g + e * a + (B * e) * b)
  <2>1. c * win = c * g + (c * e) * a + (c * (B * e)) * b
    <3>1. l + c * win = c * g + l + (c * e) * a + (c * (B * e)) * b
      BY <1>3, <1>8, <1>9
    <3> DEFINE p1 == c * win
               p2 == c * g
               p3 == (c * e) * a
               p4 == (c * (B * e)) * b
    <3>2. p1 \in Int /\ p2 \in Int /\ p3 \in Int /\ p4 \in Int
      BY <1>2, <1>3, <1>4, <1>8, <1>9, SMT
    <3>3. l + p1 = p2 + l + p3 + p4
      BY <3>1
    <3> HIDE DEF p1, p2, p3, p4
    <3>4. p1 = p2 + p3 + p4
      BY <3>2, <3>3, <1>3, SMT
    <3> QED
      BY <3>4 DEF p1, p2, p3, p4
  <2>2. c * (g + e * a + (B * e) * b) = c * g + (c * e) * a + (c * (B * e)) * b
    BY <1>2, <1>3, <1>4, <1>8, <1>9, SMT
  <2> QED
    BY <2>1, <2>2
<1>11. win = g + e * a + (B * e) * b
  <2> DEFINE v == g + e * a + (B * e) * b
  <2>1. v \in Int
    BY <1>2, <1>4, <1>8, <1>9, SMT
  <2>3. win \in Int /\ c * win = c * v
    BY <1>3, <1>10
  <2> HIDE DEF v
  <2>2. win = v
    BY <2>1, <2>3, <1>3, CancelEqual
  <2> QED
    BY <2>2 DEF v
<1>12. u = e * t + g
  <2>1. e * t = e * a + (B * e) * b + xh * (B * (B * e))
    BY <1>2, <1>4, <1>8, SMT
  <2>2. e * a \in Int /\ (B * e) * b \in Int /\ xh * (B * (B * e)) \in Int
    BY <1>2, <1>4, <1>8, SMT
  <2>3. u = xh * (B * (B * e)) + win
    BY <1>4, <1>5
  <2> DEFINE p1 == e * a
             p2 == (B * e) * b
             p3 == xh * (B * (B * e))
             p4 == e * t
  <2>4. /\ p1 \in Int /\ p2 \in Int /\ p3 \in Int
        /\ p4 = p1 + p2 + p3 /\ u = p3 + win /\ win = g + p1 + p2
    BY <2>1, <2>2, <2>3, <1>11
  <2> HIDE DEF t, p1, p2, p3, p4
  <2>5. u = p4 + g
    BY <2>4, <1>9, SMT
  <2> QED
    BY <2>5 DEF p4
<1>13. g \in 0..(e - 1)
  <2>1. c * g < c * e
    <3> DEFINE cg == c * g
               ce == c * e
    <3>1. cg \in Int /\ ce \in Int /\ f = cg + l /\ f < ce /\ l \in Nat
      BY <1>3, <1>4, <1>8, <1>9, SMT
    <3> HIDE DEF cg, ce
    <3>2. cg < ce
      BY <3>1, SMT
    <3> QED
      BY <3>2 DEF cg, ce
  <2>2. g < e
    <3>1. g \in Int /\ e \in Int
      BY <1>4, <1>9, SMT
    <3> QED
      BY <2>1, <3>1, <1>3, Cancel
  <2> QED
    BY <2>2, <1>4, <1>9, SMT
<1>14. t \in Nat
  BY <1>2, <1>8, SMT
<1> HIDE DEF t
<1>15. u \div e = t
  <2>1. u \in Int /\ t \in Int
    BY <1>6, <1>14, SMT
  <2> QED
    BY <2>1, <1>4, <1>12, <1>13, DivisionIs
<1> QED
  BY <1>3, <1>6, <1>7, <1>15 DEF c, l, e, t, a, b

\* If what is left fits one more digit, its two leading words are at most those
\* of the divisor.
LEMMA LeadingFits ==
    ASSUME NEW a, NEW l, NEW w, NEW dv, Normalized(a, l, w, dv),
           NEW x \in Nat, NEW i \in Nat, i + 1 <= 2 * N, i + 2 >= w, NEW xh \in Nat,
           TopOf(xh, x, i) < dv * W[i + 2 - w]
    PROVE  Limb(x, i) + xh * B <= a \div W[l - 2]
<1> DEFINE d == a \div W[l - 2]
           f == Limb(x, i)
           c == f + xh * B
           wi == W[i]
           lo == x % wi
           e == W[l - 2]
           u == W[l - w]
           t == W[i + 2 - w]
<1>1. /\ l \in Nat /\ l >= 2 /\ l <= N /\ N \in Nat /\ w \in Nat /\ w >= 1 /\ w <= l
      /\ a \in Nat /\ dv \in Nat /\ B \in Nat /\ B >= 2
  BY BaseFacts, SMT DEF Normalized
<1>2. /\ i \in 0..(2 * N - 1) /\ i \in 0..(2 * N) /\ l - 2 \in 0..(2 * N) /\ l - w \in 0..(2 * N)
      /\ i + 2 - w \in 0..(2 * N) /\ i < 2 * N
  BY <1>1, SMT
<1>3. wi \in Nat /\ wi > 0 /\ W[i + 1] = B * wi
  BY <1>2, WeightFacts
<1>4. e \in Nat /\ e > 0 /\ u \in Nat /\ u > 0 /\ t \in Nat /\ t > 0
  BY <1>2, WeightFacts
<1>5. wi * u = e * t
  <2>1. CASE w = 1
    <3>1. /\ l - 2 \in 0..(2 * N) /\ l - 2 < 2 * N /\ (l - 2) + 1 = l - w /\ i + 1 = i + 2 - w
      BY <1>1, <2>1, SMT
    <3>2. W[(l - 2) + 1] = B * W[l - 2]
      BY <3>1, WeightFacts
    <3>3. u = B * e /\ t = B * wi
      BY <3>1, <3>2, <1>3
    <3> HIDE DEF u, e, t, wi
    <3> QED
      BY <3>3, <1>1, <1>3, <1>4, SMT
  <2>2. CASE w >= 2
    <3>1. /\ w - 2 \in Nat /\ i + 2 - w \in Nat /\ l - w \in Nat
          /\ i = (i + 2 - w) + (w - 2) /\ l - 2 = (l - w) + (w - 2)
          /\ l - 2 \in Nat /\ i <= 2 * N /\ l - 2 <= 2 * N
      BY <1>1, <2>2, SMT
    <3> DEFINE v == W[w - 2]
    <3>2. wi = t * v /\ v \in Nat
      BY <3>1, WeightsAdd
    <3>3. e = u * v
      BY <3>1, WeightsAdd
    <3> HIDE DEF u, e, t, wi, v
    <3>4. (t * v) * u = (u * v) * t
      BY <3>2, <1>4, SMT
    <3> QED
      BY <3>2, <3>3, <3>4
  <2> QED
    BY <2>1, <2>2, <1>1, SMT
<1>6. f \in Nat /\ c \in Nat
  <2>1. f \in Word
    BY <1>2, LimbType
  <2>2. f \in Nat
    BY <2>1, <1>1, SMT DEF Word
  <2> HIDE DEF f
  <2> QED
    BY <2>2, <1>1, SMT
<1>7. TopOf(xh, x, i) = wi * c + lo /\ lo \in Nat
  <2>1. x % W[i + 1] = lo + wi * f
    BY <1>2, LowLimbs
  <2>2. lo \in Nat
    BY <1>3, DivMod, SMT
  <2>3. TopOf(xh, x, i) = xh * (B * wi) + (lo + wi * f)
    BY <2>1, <1>3 DEF TopOf
  <2> HIDE DEF lo, wi, f
  <2>4. wi * c = wi * f + xh * (B * wi) /\ wi * f \in Int /\ xh * (B * wi) \in Int
    BY <1>1, <1>3, <1>6, SMT
  <2> QED
    BY <2>2, <2>3, <2>4, SMT
<1>8. wi * c < dv * t
  <2> DEFINE p == wi * c
             q == dv * t
  <2>1. p \in Int /\ q \in Int
    <3> HIDE DEF wi, c, t
    <3> QED
      BY <1>1, <1>3, <1>4, <1>6, SMT
  <2>2. p + lo < q
    BY <1>7
  <2> HIDE DEF p, q, lo
  <2>3. p < q
    BY <2>1, <2>2, <1>7, SMT
  <2> QED
    BY <2>3 DEF p, q
<1>9. d \in Nat /\ a < e * (d + 1) /\ a = dv * u
  <2>1. d \in Nat /\ a < d * e + e
    BY LeadingWords
  <2> HIDE DEF d, e
  <2>2. d * e + e = e * (d + 1)
    BY <2>1, <1>4, SMT
  <2> QED
    BY <2>1, <2>2 DEF Normalized
<1> DEFINE K == wi * u
<1> HIDE DEF d, f, c, wi, lo, e, u, t
<1>10. K * c <= a * t
  <2>1. u * (wi * c) <= u * (dv * t)
    <3> DEFINE p == wi * c
               q == dv * t
    <3>1. p \in Int /\ q \in Int /\ p <= q
      BY <1>1, <1>3, <1>4, <1>6, <1>8, SMT
    <3> HIDE DEF p, q
    <3>2. u * p <= u * q
      BY <3>1, <1>4, Monotone
    <3> QED
      BY <3>2 DEF p, q
  <2>2. u * (wi * c) = K * c /\ u * (dv * t) = (dv * u) * t
    BY <1>1, <1>3, <1>4, <1>6, SMT
  <2> QED
    BY <2>1, <2>2, <1>9
<1>11. a * t < K * (d + 1)
  <2> DEFINE p == e * (d + 1)
  <2>1. p \in Int /\ a \in Int /\ a + 1 <= p /\ a + 1 \in Int
    BY <1>1, <1>4, <1>9, SMT
  <2> HIDE DEF p
  <2> DEFINE b == a + 1
  <2>2. b \in Int /\ b <= p
    BY <2>1
  <2> HIDE DEF b
  <2>3. t * b <= t * p
    BY <2>1, <2>2, <1>4, Monotone
  <2>4. t * b = a * t + t /\ a * t \in Int
    BY <1>1, <1>4, SMT DEF b
  <2>5. t * p = (e * t) * (d + 1)
    BY <1>4, <1>9, SMT DEF p
  <2>6. t * p = K * (d + 1)
    BY <2>5, <1>5
  <2> DEFINE q == K * (d + 1)
             s == a * t
  <2>7. s + t <= q /\ s \in Int /\ q \in Int
    <3>1. q \in Int
      BY <1>3, <1>4, <1>9, SMT
    <3> QED
      BY <2>3, <2>4, <2>6, <3>1
  <2> HIDE DEF q, s
  <2>8. s < q
    BY <2>7, <1>4, SMT
  <2> QED
    BY <2>8 DEF q, s
<1>12. K * c < K * (d + 1) /\ K \in Nat
  <2> DEFINE p == K * c
             q == K * (d + 1)
             s == a * t
  <2>1. K \in Nat
    BY <1>3, <1>4, SMT
  <2> HIDE DEF K
  <2>2. p \in Int /\ q \in Int /\ s \in Int /\ p <= s /\ s < q
    BY <2>1, <1>1, <1>4, <1>6, <1>9, <1>10, <1>11, SMT
  <2> HIDE DEF p, q, s
  <2>3. p < q
    BY <2>2, SMT
  <2> QED
    BY <2>1, <2>3 DEF p, q
<1>13. c < d + 1
  <2>1. c \in Int /\ d + 1 \in Int
    BY <1>6, <1>9, SMT
  <2> DEFINE b == d + 1
  <2> HIDE DEF K, b
  <2>2. b \in Int /\ K * c < K * b
    BY <2>1, <1>12 DEF b
  <2>3. c < b
    BY <2>1, <2>2, <1>12, Cancel
  <2> QED
    BY <2>3 DEF b
<1>14. c <= d
  BY <1>6, <1>9, <1>13, SMT
<1> QED
  BY <1>14 DEF c, f, d, e

\* One iteration: the digit is a word, what is left is below the divisor at its
\* place, and nothing above limb i changes.
DigitTaken(a, l, x, i, xh, n, k, yv, u, q, r, p, z) ==
    /\ n \in Nat /\ n >= 2 /\ n <= l /\ k \in Nat /\ k + n = i + 1
    /\ yv = a \div W[l - n]
    /\ u = xh * W[n] + WindowOf(x, k, n)
    /\ r = LeftOf(WindowOf(x, k, n), q, u, yv, W[n])
    /\ p = DigitOf(q, u, yv)
    /\ z = x + (r - WindowOf(x, k, n)) * W[k]

\* One digit of div_rem_large: from a top below the divisor at this limb to a top
\* below it one limb lower, by a digit that is a word.
LEMMA DigitDone ==
    ASSUME NEW a, NEW l, NEW w, NEW dv, Normalized(a, l, w, dv),
           NEW x \in Nat, NEW i \in Nat, i >= 1, i + 1 <= 2 * N, i + 1 >= w, NEW xh \in Nat,
           TopOf(xh, x, i) < dv * W[i + 2 - w],
           NEW n, NEW k, NEW yv, NEW u, NEW q, NEW r, NEW p, NEW z,
           DigitTaken(a, l, x, i, xh, n, k, yv, u, q, r, p, z), w <= n,
           Estimated(q, Limb(x, i - 1) + (Limb(x, i) + xh * B) * B, a \div W[l - 2])
    PROVE  /\ p \in Word /\ z \in Nat
           /\ z \div W[i + 1] = x \div W[i + 1]
           /\ z % W[i + 1] \in Nat /\ z % W[i + 1] < dv * W[i + 1 - w]
           /\ TopOf(xh, x, i) = p * (dv * W[i + 1 - w]) + (z % W[i + 1])
<1>0. /\ n \in Nat /\ n >= 2 /\ n <= l /\ k \in Nat /\ k + n = i + 1
      /\ yv = a \div W[l - n]
      /\ u = xh * W[n] + WindowOf(x, k, n)
      /\ r = LeftOf(WindowOf(x, k, n), q, u, yv, W[n])
      /\ p = DigitOf(q, u, yv)
      /\ z = x + (r - WindowOf(x, k, n)) * W[k]
  BY DEF DigitTaken
<1> USE <1>0
<1>1. /\ l \in Nat /\ l >= 2 /\ l <= N /\ N \in Nat /\ w \in Nat /\ w >= 1 /\ w <= l
      /\ a \in Nat /\ dv \in Nat /\ B \in Nat /\ B >= 2
  BY BaseFacts, SMT DEF Normalized
<1>2. n \in 2..l /\ k + n <= 2 * N
  BY <1>1, SMT
<1>3. /\ yv = dv * W[n - w] /\ yv \in Nat /\ yv < W[n]
      /\ yv \div W[n - 2] = a \div W[l - 2]
  BY <1>2, DivisorWindow
<1>4. /\ u \in Nat /\ TopOf(xh, x, i) = u * W[k] + (x % W[k]) /\ x % W[k] \in Nat
      /\ u \div W[n - 2] = Limb(x, i - 1) + (Limb(x, i) + xh * B) * B
  <2>1. Windowed(x, i, xh, n, k, u)
    BY DEF Windowed
  <2> QED
    BY <2>1, DividendWindow
<1> DEFINE c == W[k]
           v == W[n - w]
<1>5. c \in Nat /\ c > 0 /\ v \in Nat /\ W[i + 1 - w] = v * c /\ W[i + 2 - w] = B * (v * c)
  <2>1. /\ n - w \in Nat /\ i + 1 - w \in Nat /\ i + 1 - w = (n - w) + k /\ i + 1 - w <= 2 * N
        /\ i + 1 - w \in 0..(2 * N) /\ i + 1 - w < 2 * N /\ (i + 1 - w) + 1 = i + 2 - w
    BY <1>1, <1>2, SMT
  <2>2. c \in Nat /\ c > 0 /\ v \in Nat /\ W[i + 1 - w] = v * c
    BY <2>1, WeightsAdd
  <2>3. W[(i + 1 - w) + 1] = B * W[i + 1 - w]
    BY <2>1, WeightFacts
  <2> QED
    BY <2>1, <2>2, <2>3
<1>6. u < yv * B
  <2> DEFINE s == yv * B
             g == u * c
             h == dv * (B * (v * c))
             f == x % W[k]
  <2>1. g + f < h
    BY <1>4, <1>5
  <2>2. s \in Int /\ g \in Int /\ h \in Int /\ c * s = h /\ c * u = g
    <3>1. yv = dv * v
      BY <1>3
    <3> HIDE DEF c, v
    <3> QED
      BY <1>1, <1>3, <1>4, <1>5, <3>1, SMT
  <2>3. f \in Nat
    BY <1>4
  <2> HIDE DEF s, g, h, f
  <2>4. g < h
    BY <2>1, <2>2, <2>3, SMT
  <2>5. c * u < c * s /\ u \in Int
    BY <2>2, <2>4, <1>4
  <2>6. u < s
    BY <2>2, <2>5, <1>5, Cancel
  <2> QED
    BY <2>6 DEF s
<1>7. B * B <= 2 * (yv \div W[n - 2])
  <2>1. B * B <= 2 * (a \div W[l - 2])
    BY LeadingWords
  <2> QED
    BY <2>1, <1>3
<1>8. Estimated(q, u \div W[n - 2], yv \div W[n - 2])
  BY <1>3, <1>4
<1>9. p \in Word /\ r \in Nat /\ r < yv /\ u = p * yv + r
  <2>1. DigitGiven(x, k, n, xh, yv, u, q, r, p)
    BY <1>2, <1>3, <1>6, <1>7, <1>8 DEF DigitGiven
  <2> QED
    BY <2>1, QuotientDigit
<1>10. p \in Nat
  BY <1>1, <1>9, SMT DEF Word
<1>11. xh * W[n] + WindowOf(x, k, n) = p * yv + r
  BY <1>9
<1>12. /\ z \in Nat
       /\ z \div W[k + n] = x \div W[k + n]
       /\ z % W[k + n] \in Nat /\ z % W[k + n] < yv * W[k]
       /\ xh * W[k + n] + (x % W[k + n]) = p * (yv * W[k]) + (z % W[k + n])
  <2>1. DigitLeft(x, k, n, xh, yv, p, r, z)
    BY <1>2, <1>3, <1>9, <1>10, <1>11 DEF DigitLeft
  <2> QED
    BY <2>1, DigitStored
<1>13. yv * W[k] = dv * W[i + 1 - w]
  <2>1. yv = dv * v /\ W[i + 1 - w] = v * c
    BY <1>3, <1>5
  <2>2. (dv * v) * c = dv * (v * c)
    <3> HIDE DEF c, v
    <3> QED
      BY <1>1, <1>5, SMT
  <2> QED
    BY <2>1, <2>2
<1> QED
  BY <1>9, <1>12, <1>13 DEF TopOf

\* What a long division keeps: the limb below xh, what is left below the divisor
\* at its place, and the dividend s as the divisor times the quotient so far plus
\* what remains; only a remainder of a wide dividend (wd) stores no quotient.
Kept(dv, w, s, wd, xh, x, xi, i, lo, e) ==
    /\ xi = Limb(x, i)
    /\ TopOf(xh, x, i) < dv * W[i + 2 - w]
    /\ \E g \in Nat : /\ s = dv * g + Remaining(xh, x, i, lo, e)
                      /\ wd \/ g = (x \div W[i + 1]) * W[i + 2 - w]

\* The digit goes to limb i, unless the dividend is wide and only the remainder kept.
StoredIf(x1, wd, z, i, p) == x1 = (IF wd THEN z ELSE SetLimb(z, i, p))

\* After a digit, the limb below is next, and the digit is stored.
LEMMA KeptDown ==
    ASSUME NEW dv \in Nat, NEW w \in Nat, NEW s \in Nat, NEW wd,
           NEW x \in Nat, NEW i \in Nat, i >= 1, i + 1 <= 2 * N, w >= 1, i + 1 >= w, NEW xh \in Nat,
           NEW xi, NEW lo \in Nat, Kept(dv, w, s, wd, xh, x, xi, i, lo, 0),
           NEW p \in Word, NEW z \in Nat, z \div W[i + 1] = x \div W[i + 1],
           z % W[i + 1] < dv * W[i + 1 - w],
           TopOf(xh, x, i) = p * (dv * W[i + 1 - w]) + (z % W[i + 1]),
           NEW x1, StoredIf(x1, wd, z, i, p)
    PROVE  x1 \in Nat /\ Kept(dv, w, s, wd, Limb(z, i), x1, Limb(z, i - 1), i - 1, lo, 0)
<1> DEFINE f == Limb(z, i)
           wi == W[i]
           t == W[i + 1 - w]
           q == z \div W[i + 1]
           lz == z % wi
           rz == z % W[i + 1]
<1>1. /\ i \in 0..(2 * N - 1) /\ i \in 0..(2 * N) /\ i < 2 * N /\ N \in Nat /\ B \in Nat /\ B >= 2
      /\ i + 1 - w \in 0..(2 * N) /\ i + 1 - w < 2 * N /\ (i + 1 - w) + 1 = i + 2 - w
      /\ (i - 1) + 1 = i /\ (i - 1) + 2 - w = i + 1 - w
      /\ i - 1 \in 0..(i - 1) /\ i - 1 \in 0..i /\ i - 1 < i /\ i - 1 \in Nat
  BY BaseFacts, SMT
<1>2. wi \in Nat /\ wi > 0 /\ W[i + 1] = B * wi /\ t \in Nat /\ t > 0 /\ W[i + 2 - w] = B * t
  <2>1. W[i] \in Nat /\ W[i] > 0 /\ W[i + 1] = B * W[i]
    BY <1>1, WeightFacts
  <2>2. W[i + 1 - w] \in Nat /\ W[i + 1 - w] > 0 /\ W[(i + 1 - w) + 1] = B * W[i + 1 - w]
    BY <1>1, WeightFacts
  <2> QED
    BY <2>1, <2>2, <1>1
<1>3. f \in Nat /\ f < B /\ p \in Nat /\ p < B
  <2>1. f \in Word
    BY <1>1, LimbType
  <2> HIDE DEF f
  <2> QED
    BY <2>1, <1>1, SMT DEF Word
<1>4. q \in Nat /\ z \div W[i] = B * q + f
  <2>1. i \in 0..(2 * N - 1) /\ i + 1 \in 0..(2 * N)
    BY <1>1, SMT
  <2>2. z \div W[i] = B * (z \div W[i + 1]) + Limb(z, i)
    BY <2>1, HighLimbs
  <2>3. W[i + 1] \in Nat /\ W[i + 1] > 0 /\ z \in Int /\ z >= 0
    BY <2>1, WeightFacts, SMT
  <2>4. z \div W[i + 1] \in Nat
    BY <2>3, DivMod
  <2> QED
    BY <2>2, <2>4
<1>5. lz \in Nat /\ lz < wi
  BY <1>2, DivMod, SMT
<1>6. rz = lz + wi * f
  BY <1>1, LowLimbs
<1>7. z = wi * (B * q + f) + lz
  <2>1. z = W[i] * (z \div W[i]) + (z % W[i])
    <3>1. z \in Int
      BY SMT
    <3> QED
      BY <3>1, <1>2, DivMod
  <2> QED
    BY <2>1, <1>4
<1> DEFINE dg == IF wd THEN f ELSE p
           h == B * q + dg
<1>8. x1 = wi * h + lz /\ h \in Nat
  <2>1. CASE wd
    <3>1. dg = f /\ x1 = z
      BY <2>1 DEF StoredIf
    <3>2. h \in Nat
      <4>1. h = B * q + f
        BY <3>1
      <4> HIDE DEF h, q, f
      <4> QED
        BY <4>1, <1>1, <1>3, <1>4, SMT
    <3> QED
      BY <3>1, <3>2, <1>7
  <2>2. CASE ~wd
    <3>1. dg = p /\ x1 = z + (p - f) * wi
      BY <2>2 DEF SetLimb, StoredIf
    <3>2. h = B * q + p
      BY <3>1
    <3> HIDE DEF h, q, f, wi, lz
    <3>3. wi * (B * q + f) = wi * (B * q) + wi * f /\ (p - f) * wi = wi * p - wi * f
          /\ wi * (B * q + p) = wi * (B * q) + wi * p
          /\ wi * (B * q) \in Int /\ wi * f \in Int /\ wi * p \in Int /\ B * q + p \in Nat
      BY <1>1, <1>2, <1>3, <1>4, SMT
    <3> DEFINE p1 == wi * (B * q)
               p2 == wi * f
               p3 == wi * p
               p4 == wi * h
    <3>4. p1 \in Int /\ p2 \in Int /\ p3 \in Int /\ x1 = (p1 + p2 + lz) + (p3 - p2) /\ p4 = p1 + p3
      BY <3>1, <3>2, <3>3, <1>7
    <3> HIDE DEF p1, p2, p3, p4
    <3>5. x1 = p4 + lz
      BY <3>4, <1>5, SMT
    <3> QED
      BY <3>2, <3>3, <3>5 DEF p4
  <2> QED
    BY <2>1, <2>2
<1>9. x1 \in Nat /\ x1 \div wi = h /\ x1 % wi = lz
  <2> HIDE DEF h, lz, wi
  <2>1. wi * h \in Nat /\ lz \in 0..(wi - 1)
    BY <1>2, <1>5, <1>8, SMT
  <2>2. x1 \in Nat
    BY <2>1, <1>5, <1>8, SMT
  <2>3. x1 \in Int /\ h \in Int
    BY <2>2, <1>8
  <2> QED
    BY <2>1, <2>2, <2>3, <1>2, <1>8, DivisionIs
<1>10. Limb(x1, i - 1) = Limb(z, i - 1)
  <2>1. x1 % W[i] = z % W[i]
    BY <1>9
  <2>2. Limb(x1 % W[i], i - 1) = Limb(x1, i - 1)
    BY <1>1, <1>9, LowOfLow
  <2>3. Limb(z % W[i], i - 1) = Limb(z, i - 1)
    BY <1>1, LowOfLow
  <2> QED
    BY <2>1, <2>2, <2>3
<1>11. TopOf(f, x1, i - 1) = rz
  <2>1. x1 % W[i] = z % W[i]
    BY <1>9
  <2> QED
    BY <2>1, <1>9, TopDown
<1>12. TopOf(f, x1, i - 1) < dv * W[(i - 1) + 2 - w]
  BY <1>1, <1>11
<1>13. /\ Remaining(f, x1, i - 1, lo, 0) = rz * W[0] + (lo % W[0])
       /\ Remaining(xh, x, i, lo, 0) = (p * (dv * t) + rz) * W[0] + (lo % W[0])
  BY <1>11 DEF Remaining
<1>14. W[0] = 1
  BY WeightAssumption
<1>15. lo % W[0] = 0
  <2>1. lo % 1 = 0
    BY SMT
  <2> QED
    BY <2>1, <1>14
<1>16. rz \in Nat
  <2> HIDE DEF lz, wi, f
  <2>1. wi * f \in Nat
    BY <1>2, <1>3, SMT
  <2> QED
    BY <2>1, <1>5, <1>6, SMT
<1>17. PICK g \in Nat : /\ s = dv * g + Remaining(xh, x, i, lo, 0)
                        /\ wd \/ g = (x \div W[i + 1]) * W[i + 2 - w]
  BY DEF Kept
<1> DEFINE g1 == g + p * t
<1> HIDE DEF f, wi, t, q, lz, rz
<1>18. g1 \in Nat /\ s = dv * g1 + Remaining(f, x1, i - 1, lo, 0)
  <2>1. Remaining(f, x1, i - 1, lo, 0) = rz /\ Remaining(xh, x, i, lo, 0) = p * (dv * t) + rz
    <3> DEFINE v == p * (dv * t)
    <3>1. v \in Nat
      BY <1>2, <1>3, SMT
    <3>2. Remaining(f, x1, i - 1, lo, 0) = rz * 1 + 0 /\ Remaining(xh, x, i, lo, 0) = (v + rz) * 1 + 0
      BY <1>13, <1>14, <1>15
    <3> HIDE DEF v
    <3>3. rz * 1 + 0 = rz /\ (v + rz) * 1 + 0 = v + rz
      BY <3>1, <1>16, SMT
    <3> QED
      BY <3>2, <3>3 DEF v
  <2>2. dv * g1 = dv * g + p * (dv * t) /\ g1 \in Nat /\ dv * g \in Int /\ p * (dv * t) \in Int
    BY <1>2, <1>3, SMT
  <2> DEFINE v == p * (dv * t)
             c == dv * g
             c1 == dv * g1
  <2>3. s = c + (v + rz) /\ c1 = c + v /\ v \in Int /\ c \in Int
    BY <2>1, <2>2, <1>17
  <2> HIDE DEF v, c, c1
  <2>4. s = c1 + rz
    BY <2>3, <1>16, SMT
  <2> QED
    BY <2>1, <2>2, <2>4 DEF c1
<1>19. wd \/ g1 = (x1 \div W[(i - 1) + 1]) * W[(i - 1) + 2 - w]
  <2> SUFFICES ASSUME ~wd PROVE g1 = (x1 \div W[(i - 1) + 1]) * W[(i - 1) + 2 - w]
    OBVIOUS
  <2>1. x1 \div W[(i - 1) + 1] = B * q + p
    BY <1>1, <1>9 DEF wi
  <2>2. W[(i - 1) + 2 - w] = t
    BY <1>1 DEF t
  <2>3. g = q * (B * t)
    BY <1>2, <1>17 DEF q
  <2>4. (B * q + p) * t = q * (B * t) + p * t
    BY <1>1, <1>2, <1>3, <1>4, SMT
  <2> QED
    BY <2>1, <2>2, <2>3, <2>4
<1> QED
  BY <1>9, <1>10, <1>12, <1>18, <1>19 DEF Kept, f

\* A wide dividend moves up by a limb, and limb e - 1 of its low part comes in.
TakenIn(x1, z, i, lo, e) ==
    x1 = z + (((z % W[i]) * B + Limb(lo, e - 1)) - WindowOf(z, 0, i + 1)) * W[0]

\* Or the next limb of the low part of a wide dividend comes in below.
LEMMA KeptIn ==
    ASSUME NEW dv \in Nat, NEW w \in Nat, NEW s \in Nat,
           NEW x \in Nat, NEW i \in Nat, i >= 1, i + 1 <= 2 * N, w >= 1, i + 1 >= w, NEW xh \in Nat,
           NEW xi, NEW lo \in Nat, NEW e \in Nat, e >= 1, e <= 2 * N,
           Kept(dv, w, s, TRUE, xh, x, xi, i, lo, e),
           NEW p \in Word, NEW z \in Nat,
           z % W[i + 1] < dv * W[i + 1 - w],
           TopOf(xh, x, i) = p * (dv * W[i + 1 - w]) + (z % W[i + 1]),
           NEW x1, TakenIn(x1, z, i, lo, e)
    PROVE  x1 \in Nat /\ Kept(dv, w, s, TRUE, Limb(z, i), x1, Limb(z, i - 1), i, lo, e - 1)
<1> DEFINE f == Limb(lo, e - 1)
           t == W[i + 1 - w]
           rz == z % W[i + 1]
           we == W[e]
           le == lo % we
<1>1. /\ i + 1 - w \in 0..(2 * N) /\ i + 1 - w < 2 * N /\ (i + 1 - w) + 1 = i + 2 - w
      /\ e - 1 \in 0..(2 * N) /\ e \in 0..(2 * N) /\ i + 1 \in 0..(2 * N) /\ N \in Nat
  BY BaseFacts, SMT
<1>2. t \in Nat /\ t > 0 /\ W[i + 2 - w] = B * t /\ we \in Nat /\ we > 0
  <2>1. W[i + 1 - w] \in Nat /\ W[i + 1 - w] > 0 /\ W[(i + 1 - w) + 1] = B * W[i + 1 - w]
    BY <1>1, WeightFacts
  <2>2. we \in Nat /\ we > 0
    BY <1>1, WeightFacts
  <2> QED
    BY <2>1, <2>2, <1>1
<1>3. f \in Word
  BY <1>1, LimbType
<1>4. f \in Nat /\ f < B /\ B \in Nat /\ p \in Nat
  <2> HIDE DEF f
  <2> QED
    BY <1>3, BaseFacts, SMT DEF Word
<1>5. rz \in Nat /\ le \in Nat
  <2>1. W[i + 1] \in Nat /\ W[i + 1] > 0
    BY <1>1, WeightFacts
  <2>2. z \in Int /\ lo \in Int
    BY SMT
  <2> QED
    BY <2>1, <2>2, <1>2, DivMod
<1>6. /\ x1 \in Nat
      /\ TopOf(Limb(z, i), x1, i) = rz * B + f
      /\ Limb(x1, i) = Limb(z, i - 1)
  <2>1. x1 = z + (((z % W[i]) * B + f) - WindowOf(z, 0, i + 1)) * W[0]
    BY DEF TakenIn
  <2> QED
    BY <2>1, <1>3, TopIn
<1>7. rz * B + f < dv * W[i + 2 - w]
  <2> DEFINE q == dv * t
  <2>1. q \in Int /\ rz + 1 <= q
    <3>1. q \in Nat
      BY <1>2, SMT
    <3>2. rz < q
      OBVIOUS
    <3> HIDE DEF q, rz
    <3> QED
      BY <3>1, <3>2, <1>5, SMT
  <2> DEFINE r1 == rz + 1
  <2>2. r1 \in Int /\ r1 <= q
    BY <2>1, <1>5, SMT
  <2> HIDE DEF q, r1
  <2>3. B * r1 <= B * q
    BY <2>1, <2>2, <1>4, Monotone
  <2> HIDE DEF rz, t, f
  <2>4. B * r1 = rz * B + B /\ B * q = dv * (B * t) /\ rz * B \in Int /\ dv * (B * t) \in Int
    BY <1>2, <1>4, <1>5, SMT DEF r1, q
  <2> DEFINE a == rz * B
             b == dv * (B * t)
  <2>5. a + B <= b /\ a \in Int /\ b \in Int
    BY <2>3, <2>4
  <2> HIDE DEF a, b
  <2>6. a + f < b
    BY <2>5, <1>4, SMT
  <2> QED
    BY <2>6, <1>2 DEF a, b
<1>8. PICK g \in Nat : s = dv * g + Remaining(xh, x, i, lo, e)
  BY DEF Kept
<1>9. Remaining(xh, x, i, lo, e) = (p * (dv * t) + rz) * we + le
  BY DEF Remaining
<1>10. Remaining(Limb(z, i), x1, i, lo, e - 1) = rz * we + le
  <2>1. (rz * B + f) * W[e - 1] + (lo % W[e - 1]) = rz * we + le
    BY <1>5, RemainingIn
  <2> QED
    BY <2>1, <1>6 DEF Remaining
<1> DEFINE g1 == g + p * (t * we)
           v == p * (dv * t)
<1> HIDE DEF f, t, rz, we, le
<1>11. g1 \in Nat /\ s = dv * g1 + Remaining(Limb(z, i), x1, i, lo, e - 1)
  <2>1. dv * g1 = dv * g + v * we /\ dv * g \in Int /\ v * we \in Int /\ v \in Int
    BY <1>2, <1>4, SMT
  <2>2. g1 \in Nat
    BY <1>2, <1>4, SMT
  <2>3. (v + rz) * we = v * we + rz * we /\ rz * we \in Int
    <3> HIDE DEF v
    <3> QED
      BY <2>1, <1>2, <1>5, SMT
  <2> DEFINE a == dv * g
             b == v * we
             c == rz * we
             a1 == dv * g1
  <2>4. /\ a \in Int /\ b \in Int /\ c \in Int /\ a1 = a + b
        /\ s = a + ((b + c) + le)
    BY <2>1, <2>3, <1>8, <1>9
  <2> HIDE DEF a, b, c, a1
  <2>5. s = a1 + (c + le)
    BY <2>4, <1>5, SMT
  <2> QED
    BY <2>2, <2>5, <1>10 DEF a1, c
<1> QED
  BY <1>6, <1>7, <1>11 DEF Kept, rz, f

\* The dividend as it is entered: xh are the bits shifted out of its xn limbs.
Entered(dv, w, a, l, x, xn, xh, lo, e, s) ==
    /\ Normalized(a, l, w, dv)
    /\ xn \in 1..(2 * N) /\ x \in Nat /\ x < W[xn] /\ xh \in Nat /\ 2 * (xh + 1) <= B
    /\ e \in 0..(2 * N) /\ lo \in Nat /\ lo < W[e]
    /\ s = (xh * W[xn] + x) * W[e] + lo

\* Before the first digit all of the dividend remains, and its leading words are at
\* most those of the divisor.
LEMMA KeptFirst ==
    ASSUME NEW dv, NEW w, NEW a, NEW l, NEW x, NEW xn, NEW xh, NEW lo, NEW e, NEW s,
           Entered(dv, w, a, l, x, xn, xh, lo, e, s), NEW wd
    PROVE  /\ Limb(x, xn - 1) + xh * B <= a \div W[l - 2]
           /\ w <= xn + 1 => Kept(dv, w, s, wd, xh, x, Limb(x, xn - 1), xn - 1, lo, e)
<1>1. /\ l \in Nat /\ l >= 2 /\ l <= N /\ N \in Nat /\ w \in Nat /\ w >= 1 /\ w <= l
      /\ a \in Nat /\ dv \in Nat /\ B \in Nat /\ B >= 2 /\ W[l] <= 2 * a
      /\ Normalized(a, l, w, dv)
  BY BaseFacts, SMT DEF Normalized, Entered
<1>2. /\ xn \in 1..(2 * N) /\ x \in Nat /\ x < W[xn] /\ xh \in Nat /\ 2 * (xh + 1) <= B
      /\ e \in 0..(2 * N) /\ lo \in Nat /\ lo < W[e]
      /\ s = (xh * W[xn] + x) * W[e] + lo
  BY DEF Entered
<1>3. /\ xn \in 0..(2 * N) /\ xn - 1 \in 0..(2 * N) /\ (xn - 1) + 1 = xn
      /\ xn - 1 \in Nat /\ xn \in Nat
  BY <1>1, <1>2, SMT
<1> DEFINE f == Limb(x, xn - 1)
           d == a \div W[l - 2]
           m == W[xn]
<1>4. f \in Nat /\ f < B
  <2>1. f \in Word
    BY <1>2, <1>3, LimbType
  <2> HIDE DEF f
  <2> QED
    BY <2>1, <1>1, SMT DEF Word
<1>5. d \in Nat /\ B * B <= 2 * d
  BY <1>1, LeadingWords
<1>6. f + xh * B <= d
  <2>1. B * (2 * (xh + 1)) <= B * B
    BY <1>1, <1>2, Monotone, SMT
  <2>2. B * (2 * (xh + 1)) = 2 * (xh * B) + 2 * B /\ xh * B \in Int /\ B * B \in Int
    BY <1>1, <1>2, SMT
  <2> DEFINE p == xh * B
             q == B * B
  <2>3. 2 * p + 2 * B <= q /\ p \in Int /\ q \in Int /\ q <= 2 * d
    BY <2>1, <2>2, <1>5
  <2> HIDE DEF p, q, d, f
  <2>4. f + p <= d
    BY <2>3, <1>1, <1>4, <1>5, SMT
  <2> QED
    BY <2>4 DEF p
<1>7. m \in Nat /\ m > 0 /\ W[e] \in Nat /\ W[e] > 0
  BY <1>2, <1>3, WeightFacts
<1>8. x % m = x /\ x \div m = 0
  <2>1. x = m * 0 + x /\ x \in 0..(m - 1) /\ x \in Int
    <3> HIDE DEF m
    <3>1. x < m
      BY <1>2 DEF m
    <3> QED
      BY <3>1, <1>2, <1>7, SMT
  <2> HIDE DEF m
  <2> QED
    BY <2>1, <1>7, DivisionIs, SMT
<1>9. lo % W[e] = lo
  <2> DEFINE we == W[e]
  <2>1. lo = we * 0 + lo /\ lo \in 0..(we - 1) /\ lo \in Int
    <3>1. lo < we /\ we \in Nat
      BY <1>2, <1>7
    <3> HIDE DEF we
    <3> QED
      BY <3>1, <1>2, SMT
  <2>2. we \in Nat /\ we > 0
    BY <1>7
  <2> HIDE DEF we
  <2>3. lo % we = lo
    BY <2>1, <2>2, DivisionIs, SMT
  <2> QED
    BY <2>3 DEF we
<1>10. TopOf(xh, x, xn - 1) = xh * m + x
  BY <1>3, <1>8 DEF TopOf
<1>11. ASSUME w <= xn + 1
       PROVE  Kept(dv, w, s, wd, xh, x, Limb(x, xn - 1), xn - 1, lo, e)
  <2>1. (xn - 1) + 2 - w = xn + 1 - w /\ xn + 1 - w \in 0..(2 * N) /\ l - w \in 0..(2 * N)
    BY <1>1, <1>2, <1>11, SMT
  <2> DEFINE t == W[xn + 1 - w]
             u == W[l - w]
  <2>2. t \in Nat /\ t > 0 /\ u \in Nat /\ u > 0
    BY <2>1, WeightFacts
  <2>3. u * (B * m) = W[l] * t
    <3>1. CASE w = 1
      <4>1. xn + 1 - w = xn /\ l - w \in 0..(2 * N) /\ l - w < 2 * N /\ (l - w) + 1 = l
        BY <1>1, <1>2, <3>1, SMT
      <4>2. W[(l - w) + 1] = B * W[l - w]
        BY <4>1, WeightFacts
      <4>3. t = m /\ W[l] = B * u
        BY <4>1, <4>2
      <4> HIDE DEF t, u, m
      <4>4. u * (B * m) = (B * u) * m
        BY <2>2, <1>1, <1>7, SMT
      <4> QED
        BY <4>3, <4>4
    <3>2. CASE w >= 2
      <4>1. /\ xn + 1 - w \in Nat /\ w - 1 \in Nat /\ xn = (xn + 1 - w) + (w - 1) /\ xn <= 2 * N
            /\ l - w \in Nat /\ l - 1 \in Nat /\ l - 1 = (l - w) + (w - 1) /\ l - 1 <= 2 * N
            /\ l - 1 \in 0..(2 * N) /\ l - 1 < 2 * N /\ (l - 1) + 1 = l
        BY <1>1, <1>2, <1>11, <3>2, SMT
      <4> DEFINE v == W[w - 1]
      <4>2. m = t * v /\ v \in Nat
        BY <4>1, <1>3, WeightsAdd
      <4>3. W[l - 1] = u * v
        BY <4>1, WeightsAdd
      <4>4. W[(l - 1) + 1] = B * W[l - 1]
        BY <4>1, WeightFacts
      <4>5. W[l] = B * (u * v)
        BY <4>1, <4>3, <4>4
      <4> HIDE DEF t, u, m, v
      <4>6. u * (B * (t * v)) = (B * (u * v)) * t
        BY <2>2, <4>2, <1>1, SMT
      <4> QED
        BY <4>2, <4>5, <4>6
    <3> QED
      BY <3>1, <3>2, <1>1, SMT
  <2>4. a = dv * u
    BY <1>1 DEF Normalized
  <2> HIDE DEF t, u, m
  <2>5. B * m <= 2 * (dv * t)
    <3> DEFINE p == B * m
               q == 2 * (dv * t)
    <3>1. t * W[l] <= t * (2 * a)
      <4>1. W[l] \in Int
        <5>1. l \in 0..(2 * N)
          BY <1>1, SMT
        <5> QED
          BY <5>1, WeightFacts, SMT
      <4>2. 2 * a \in Int
        BY <1>1, SMT
      <4> QED
        BY <4>1, <4>2, <1>1, <2>2, Monotone
    <3>2. t * W[l] = u * p
      <4>1. W[l] \in Int
        <5>1. l \in 0..(2 * N)
          BY <1>1, SMT
        <5> QED
          BY <5>1, WeightFacts, SMT
      <4>2. t * W[l] = W[l] * t
        BY <4>1, <2>2, SMT
      <4> QED
        BY <4>2, <2>3
    <3>3. t * (2 * a) = u * q
      <4>1. t * (2 * (dv * u)) = u * (2 * (dv * t))
        BY <1>1, <2>2, SMT
      <4> QED
        BY <4>1, <2>4
    <3>4. p \in Int /\ q \in Int
      BY <1>1, <1>7, <2>2, SMT
    <3>5. u * p <= u * q
      BY <3>1, <3>2, <3>3
    <3> HIDE DEF p, q
    <3>6. ~(q < p)
      <4> SUFFICES ASSUME q < p PROVE FALSE
        OBVIOUS
      <4>1. q + 1 <= p /\ q + 1 \in Int
        BY <3>4, SMT
      <4> DEFINE q1 == q + 1
      <4>2. q1 \in Int /\ q1 <= p
        BY <4>1
      <4> HIDE DEF q1
      <4>3. u * q1 <= u * p
        BY <4>2, <3>4, <2>2, Monotone
      <4>4. u * q1 = u * q + u /\ u * q \in Int /\ u * p \in Int
        BY <3>4, <2>2, SMT DEF q1
      <4> DEFINE uq == u * q
                 up == u * p
      <4>5. uq + u <= up /\ up <= uq /\ uq \in Int /\ up \in Int
        BY <4>3, <4>4, <3>5
      <4> HIDE DEF uq, up
      <4> QED
        BY <4>5, <2>2, SMT
    <3>7. p <= q
      BY <3>4, <3>6, SMT
    <3> QED
      BY <3>7 DEF p, q
  <2>6. xh * m + x < dv * t
    <3>1. m * (2 * (xh + 1)) <= m * B
      BY <1>1, <1>2, <1>7, Monotone, SMT
    <3>2. m * (2 * (xh + 1)) = 2 * (xh * m) + 2 * m /\ m * B = B * m /\ xh * m \in Int
      BY <1>1, <1>2, <1>7, SMT
    <3>3. B * m \in Int /\ dv * t \in Int
      BY <1>1, <1>7, <2>2, SMT
    <3> DEFINE p == xh * m
               q == B * m
               r == dv * t
    <3>4. 2 * p + 2 * m <= q /\ q <= 2 * r /\ p \in Int /\ q \in Int /\ r \in Int /\ x < m
      BY <3>1, <3>2, <3>3, <2>5, <1>2 DEF m
    <3> HIDE DEF p, q, r
    <3>5. p + x < r
      BY <3>4, <1>2, <1>7, SMT
    <3> QED
      BY <3>5 DEF p, r
  <2>7. TopOf(xh, x, xn - 1) < dv * W[(xn - 1) + 2 - w]
    BY <1>10, <2>1, <2>6 DEF t
  <2>8. Remaining(xh, x, xn - 1, lo, e) = s
    BY <1>2, <1>9, <1>10 DEF Remaining, m
  <2>9. s \in Nat
    <3> DEFINE we == W[e]
    <3>1. s = (xh * m + x) * we + lo /\ we \in Nat
      BY <1>2, <1>7 DEF m
    <3> HIDE DEF we
    <3> QED
      BY <3>1, <1>2, <1>7, SMT
  <2>10. /\ 0 \in Nat /\ s = dv * 0 + Remaining(xh, x, xn - 1, lo, e)
         /\ 0 = (x \div W[(xn - 1) + 1]) * W[(xn - 1) + 2 - w]
    <3>1. dv * 0 + s = s
      BY <1>1, <2>9, SMT
    <3>2. x \div W[(xn - 1) + 1] = 0
      BY <1>3, <1>8 DEF m
    <3>3. 0 * t = 0
      BY <2>2, SMT
    <3> QED
      BY <3>1, <3>2, <3>3, <2>1, <2>8 DEF t
  <2> QED
    BY <2>7, <2>10 DEF Kept
<1> QED
  BY <1>6, <1>11

\* What is kept says that every digit is exact.
KeptHere(dv, w, s, wd, xh, x, xi, i, lo, e) ==
    /\ dv \in Nat /\ dv > 0 /\ w \in Nat /\ s \in Nat /\ xh \in Nat /\ x \in Nat
    /\ i \in Nat /\ w >= 1 /\ i + 1 <= 2 * N /\ i + 2 >= w /\ lo \in Nat /\ e \in Nat
    /\ e + i + 1 <= 2 * N /\ Kept(dv, w, s, wd, xh, x, xi, i, lo, e)

\* What DigitsExact says, from what the loop keeps.
LEMMA KeptExact ==
    ASSUME NEW dv, NEW w, NEW s, NEW wd, NEW xh, NEW x, NEW xi, NEW i, NEW lo, NEW e,
           KeptHere(dv, w, s, wd, xh, x, xi, i, lo, e)
    PROVE  /\ Remaining(xh, x, i, lo, e) < dv * W[e + i + 2 - w]
           /\ Remaining(xh, x, i, lo, e) % dv = s % dv
           /\ ~wd => s = dv * ((x \div W[i + 1]) * W[i + 2 - w]) + Remaining(xh, x, i, lo, e)
<1>0. /\ dv \in Nat /\ dv > 0 /\ w \in Nat /\ s \in Nat /\ xh \in Nat /\ x \in Nat
      /\ i \in Nat /\ w >= 1 /\ i + 1 <= 2 * N /\ i + 2 >= w /\ lo \in Nat /\ e \in Nat
      /\ e + i + 1 <= 2 * N /\ Kept(dv, w, s, wd, xh, x, xi, i, lo, e)
  BY DEF KeptHere
<1> USE <1>0
<1> DEFINE t == TopOf(xh, x, i)
           u == W[i + 2 - w]
           we == W[e]
           le == lo % we
           rem == Remaining(xh, x, i, lo, e)
<1>1. /\ i + 2 - w \in Nat /\ e + i + 2 - w \in Nat /\ e + i + 2 - w = (i + 2 - w) + e
      /\ e + i + 2 - w <= 2 * N /\ i + 1 \in 0..(2 * N) /\ N \in Nat
  BY BaseFacts, SMT
<1>2. u \in Nat /\ we \in Nat /\ we > 0 /\ W[e + i + 2 - w] = u * we
  BY <1>1, WeightsAdd
<1>3. le \in Nat /\ le < we
  BY <1>2, DivMod, SMT
<1>4. t \in Nat
  <2> DEFINE v == W[i + 1]
             b == x % v
             a == xh * v
  <2>1. v \in Nat /\ v > 0
    BY <1>1, WeightFacts
  <2>2. b \in Nat
    BY <2>1, DivMod, SMT
  <2>3. a \in Nat
    BY <2>1, SMT
  <2>4. t = a + b
    BY DEF TopOf
  <2> HIDE DEF a, b, t
  <2> QED
    BY <2>2, <2>3, <2>4, SMT
<1>5. t < dv * u
  BY DEF Kept
<1>6. rem = t * we + le
  BY DEF Remaining
<1> HIDE DEF t, u, we, le, rem
<1>7. rem < dv * (u * we) /\ rem \in Nat
  <2> DEFINE q == dv * u
             t1 == t + 1
  <2>1. q \in Int /\ t1 \in Int /\ t1 <= q
    BY <1>2, <1>4, <1>5, SMT
  <2> HIDE DEF q, t1
  <2>2. we * t1 <= we * q
    BY <2>1, <1>2, Monotone
  <2>3. we * t1 = t * we + we /\ we * q = dv * (u * we) /\ t * we \in Nat /\ dv * (u * we) \in Int
    BY <1>2, <1>4, SMT DEF q, t1
  <2> DEFINE a == t * we
             b == dv * (u * we)
  <2>4. a + we <= b /\ a \in Nat /\ b \in Int /\ rem = a + le
    BY <2>2, <2>3, <1>6
  <2> HIDE DEF a, b
  <2>5. rem < b /\ rem \in Nat
    BY <2>4, <1>2, <1>3, SMT
  <2> QED
    BY <2>5 DEF b
<1>8. PICK g \in Nat : s = dv * g + rem /\ (wd \/ g = (x \div W[i + 1]) * W[i + 2 - w])
  BY DEF Kept, rem
<1>9. rem % dv = s % dv
  <2>1. s = rem + g * dv /\ g \in Int /\ s \in Int /\ rem \in Int
    <3>1. dv * g = g * dv /\ g * dv \in Int
      BY SMT
    <3> DEFINE a == g * dv
    <3>2. s = a + rem /\ a \in Int
      BY <3>1, <1>8
    <3> HIDE DEF a
    <3>3. s = rem + a
      BY <3>2, <1>7, SMT
    <3> QED
      BY <3>3, <1>7 DEF a
  <2> QED
    BY <2>1, SameResidue
<1>10. ~wd => s = dv * ((x \div W[i + 1]) * W[i + 2 - w]) + rem
  BY <1>8
<1>11. rem < dv * W[e + i + 2 - w]
  BY <1>2, <1>7
<1> QED
  BY <1>9, <1>10, <1>11 DEF rem

\* The two words at the top of a normalized divisor are its upper two limbs.
LEMMA TopLimbs ==
    ASSUME NEW a, NEW l, NEW w, NEW dv, Normalized(a, l, w, dv)
    PROVE  /\ a \div W[l - 2] = Limb(a, l - 2) + Limb(a, l - 1) * B
           /\ Limb(a, l - 2) \in Word /\ Limb(a, l - 1) \in Word
           /\ B <= 2 * Limb(a, l - 1)
<1>1. l \in Nat /\ l >= 2 /\ l <= N /\ N \in Nat /\ a \in Nat /\ B \in Nat /\ B >= 2 /\ a < W[l]
  BY BaseFacts, SMT DEF Normalized
<1>2. /\ l - 2 \in 0..(2 * N - 1) /\ l - 1 \in 0..(2 * N - 1) /\ l \in 0..(2 * N)
      /\ l - 2 \in 0..(2 * N) /\ l - 1 \in 0..(2 * N) /\ (l - 2) + 1 = l - 1 /\ (l - 1) + 1 = l
  BY <1>1, SMT
<1> DEFINE f == Limb(a, l - 2)
           g == Limb(a, l - 1)
           d == a \div W[l - 2]
<1>3. f \in Word /\ g \in Word
  BY <1>1, <1>2, LimbType
<1>4. d = B * (a \div W[l - 1]) + f
  <2>1. d = B * (a \div W[(l - 2) + 1]) + f
    BY <1>1, <1>2, HighLimbs
  <2> QED
    BY <2>1, <1>2
<1>5. a \div W[l - 1] = B * (a \div W[l]) + g
  <2>1. a \div W[l - 1] = B * (a \div W[(l - 1) + 1]) + g
    BY <1>1, <1>2, HighLimbs
  <2> QED
    BY <2>1, <1>2
<1>6. a \div W[l] = 0
  <2> DEFINE m == W[l]
  <2>1. m \in Nat /\ m > 0 /\ a < m
    BY <1>1, <1>2, WeightFacts
  <2> HIDE DEF m
  <2>2. a = m * 0 + a /\ a \in 0..(m - 1) /\ a \in Int /\ 0 \in Int
    BY <2>1, <1>1, SMT
  <2>3. a \div m = 0
    BY <2>1, <2>2, DivisionIs
  <2> QED
    BY <2>3 DEF m
<1> HIDE DEF f, g
<1>7. f \in Nat /\ f < B /\ g \in Nat /\ g < B
  BY <1>1, <1>3, SMT DEF Word
<1>8. d = f + g * B
  <2>1. a \div W[l - 1] = g
    BY <1>1, <1>5, <1>6, <1>7, SMT
  <2>2. d = B * g + f
    BY <2>1, <1>4
  <2> HIDE DEF d
  <2>3. B * g = g * B /\ g * B \in Int
    BY <1>1, <1>7, SMT
  <2> DEFINE p == g * B
  <2>4. d = p + f /\ p \in Int
    BY <2>2, <2>3
  <2> HIDE DEF p
  <2>5. d = f + p
    BY <2>4, <1>7, SMT
  <2> QED
    BY <2>5 DEF p
<1>9. B <= 2 * g
  <2>1. B * B <= 2 * d
    BY LeadingWords
  <2>2. g * B \in Int /\ B * B \in Int
    BY <1>1, <1>7, SMT
  <2> DEFINE p == g * B
             q == B * B
  <2> HIDE DEF d
  <2>3. q <= 2 * (f + p) /\ p \in Int /\ q \in Int
    BY <2>1, <2>2, <1>8
  <2> HIDE DEF p, q
  <2>4. q < 2 * p + 2 * B
    BY <2>3, <1>7, <1>1, SMT
  <2> DEFINE h == 2 * g + 2
  <2>5. B * h = 2 * p + 2 * B /\ h \in Int
    BY <1>1, <1>7, SMT DEF p
  <2> HIDE DEF h
  <2>6. B * B < B * h
    BY <2>4, <2>5 DEF q
  <2>7. B < h
    BY <2>5, <2>6, <1>1, Cancel, SMT
  <2>8. B = 2 * HalfB /\ HalfB \in Nat
    BY BaseAssumption DEF B
  <2> QED
    BY <2>7, <2>8, <1>7, SMT DEF h
<1> QED
  BY <1>3, <1>8, <1>9 DEF f, g

----------------------------------------------------------------------------
(* A table bw of the weights of bits: wb bits a word, top the last bit.    *)

BitTable(bw, wb, top) ==
    /\ wb \in Nat \ {0} /\ top = (2 * N) * wb
    /\ bw \in [0..top -> Nat \ {0}]
    /\ bw[0] = 1
    /\ \A k \in 0..(top - 1) : bw[k + 1] = 2 * bw[k]
    /\ bw[wb] = B

\* The weights at the two ends and at a word.
LEMMA BitTop ==
    ASSUME NEW bw, NEW wb, NEW top, BitTable(bw, wb, top)
    PROVE  /\ top \in Nat /\ wb \in Nat /\ wb > 0
           /\ bw[wb] = B /\ bw[0] = 1
<1>1. wb \in Nat /\ wb > 0 /\ N \in Nat /\ top = (2 * N) * wb /\ bw[wb] = B /\ bw[0] = 1
  BY BaseFacts, SMT DEF BitTable
<1>2. top \in Nat
  BY <1>1, SMT
<1> QED
  BY <1>1, <1>2

\* A weight is positive and half of the next one.
LEMMA BitFacts ==
    ASSUME NEW bw, NEW wb, NEW top, BitTable(bw, wb, top), NEW k \in Nat, k <= top
    PROVE  /\ bw[k] \in Nat /\ bw[k] > 0
           /\ k < top => bw[k + 1] = 2 * bw[k]
           /\ top \in Nat /\ wb \in Nat /\ wb > 0
<1>1. wb \in Nat /\ wb > 0 /\ N \in Nat /\ top = (2 * N) * wb
  BY BaseFacts, SMT DEF BitTable
<1>2. top \in Nat
  BY <1>1, SMT
<1>3. k \in 0..top /\ (k < top => k \in 0..(top - 1))
  BY <1>2, SMT
<1>4. bw[k] \in Nat \ {0}
  BY <1>3 DEF BitTable
<1> QED
  BY <1>1, <1>2, <1>3, <1>4, SMT DEF BitTable

\* Weights multiply.
LEMMA BitsAdd ==
    ASSUME NEW bw, NEW wb, NEW top, BitTable(bw, wb, top),
           NEW a \in Nat, NEW b \in Nat, NEW c \in Nat, c = a + b, c <= top
    PROVE  /\ bw[c] = bw[a] * bw[b]
           /\ bw[a] \in Nat /\ bw[a] > 0 /\ bw[b] \in Nat /\ bw[b] > 0 /\ bw[c] \in Nat /\ bw[c] > 0
<1>0. top \in Nat
  BY BitFacts
<1> DEFINE S == {n \in Nat : a + n <= top => bw[a + n] = bw[a] * bw[n]}
<1>1. 0 \in S
  <2>1. a <= top /\ a + 0 = a /\ bw[0] = 1
    BY <1>0, SMT DEF BitTable
  <2>2. bw[a] \in Nat
    BY <2>1, BitFacts
  <2>3. bw[a] * 1 = bw[a]
    BY <2>2, SMT
  <2>4. bw[a + 0] = bw[a] * bw[0]
    BY <2>1, <2>3
  <2> QED
    BY <2>4
<1>2. ASSUME NEW n \in S PROVE n + 1 \in S
  <2> SUFFICES ASSUME a + (n + 1) <= top PROVE bw[a + (n + 1)] = bw[a] * bw[n + 1]
    BY SMT
  <2>0. n \in Nat
    OBVIOUS
  <2>1. /\ a + n \in Nat /\ a + n < top /\ (a + n) + 1 = a + (n + 1) /\ n < top /\ a <= top
        /\ a + n <= top /\ n <= top
    BY <1>0, <2>0, SMT
  <2>2. bw[a + n] = bw[a] * bw[n]
    BY <2>1
  <2>3. bw[(a + n) + 1] = 2 * bw[a + n]
    BY <2>1, BitFacts
  <2>4. bw[n + 1] = 2 * bw[n] /\ bw[n] \in Nat
    BY <2>0, <2>1, BitFacts
  <2>5. bw[a] \in Nat
    BY <2>1, BitFacts
  <2>6. 2 * (bw[a] * bw[n]) = bw[a] * (2 * bw[n])
    BY <2>4, <2>5, SMT
  <2> QED
    BY <2>1, <2>2, <2>3, <2>4, <2>6
<1>3. S = Nat
  <2> HIDE DEF S
  <2>1. S \in SUBSET Nat
    BY DEF S
  <2> QED
    BY <2>1, <1>1, <1>2, SetInduction
<1>4. b \in S
  BY <1>3
<1>5. bw[c] = bw[a] * bw[b]
  BY <1>4
<1>6. a <= top /\ b <= top
  BY <1>0, SMT
<1>7. bw[a] \in Nat /\ bw[a] > 0
  BY <1>6, BitFacts
<1>8. bw[b] \in Nat /\ bw[b] > 0
  BY <1>6, BitFacts
<1>9. bw[c] \in Nat /\ bw[c] > 0
  BY BitFacts
<1> QED
  BY <1>5, <1>7, <1>8, <1>9

\* And grow.
LEMMA BitsGrow ==
    ASSUME NEW bw, NEW wb, NEW top, BitTable(bw, wb, top),
           NEW a \in Nat, NEW b \in Nat, a <= b, b <= top
    PROVE  bw[a] <= bw[b]
<1> DEFINE g == b - a
<1>1. g \in Nat /\ b = a + g
  BY SMT
<1> HIDE DEF g
<1> DEFINE e == bw[g]
           f == bw[a]
<1>2. bw[b] = f * e /\ f \in Nat /\ e \in Nat /\ e > 0
  BY <1>1, BitsAdd
<1> HIDE DEF e, f
<1>3. f * 1 <= f * e
  BY <1>2, Monotone, SMT
<1>4. f * 1 = f
  BY <1>2, SMT
<1> QED
  BY <1>2, <1>3, <1>4 DEF f

\* Whole words have the weights of limbs.
LEMMA BitsOfLimbs ==
    ASSUME NEW bw, NEW wb, NEW top, BitTable(bw, wb, top), NEW k \in 0..(2 * N)
    PROVE  k * wb \in Nat /\ k * wb <= top /\ bw[k * wb] = W[k]
<1>1. top = (2 * N) * wb /\ bw[wb] = B /\ bw[0] = 1 /\ wb \in Nat /\ wb > 0 /\ N \in Nat
  BY BaseFacts, SMT DEF BitTable
<1>2. ASSUME NEW j \in Nat, j <= 2 * N PROVE j * wb \in Nat /\ j * wb <= top
  <2>1. wb * j <= wb * (2 * N)
    BY <1>1, <1>2, Monotone, SMT
  <2>2. j * wb \in Nat /\ j * wb = wb * j /\ wb * (2 * N) = (2 * N) * wb
    BY <1>1, SMT
  <2> QED
    BY <2>1, <2>2, <1>1
<1> DEFINE S == {j \in Nat : j <= 2 * N => bw[j * wb] = W[j]}
<1>3. 0 \in S
  <2>1. 0 * wb = 0 /\ W[0] = 1
    BY <1>1, WeightAssumption, SMT
  <2> QED
    BY <2>1, <1>1
<1>4. ASSUME NEW j \in S PROVE j + 1 \in S
  <2> SUFFICES ASSUME j + 1 <= 2 * N PROVE bw[(j + 1) * wb] = W[j + 1]
    BY SMT
  <2>0. j \in Nat /\ j <= 2 * N /\ j \in 0..(2 * N) /\ j < 2 * N /\ j + 1 \in Nat
    BY <1>1, SMT
  <2>1. j * wb \in Nat /\ (j + 1) * wb \in Nat /\ (j + 1) * wb <= top
    BY <2>0, <1>2
  <2>2. (j + 1) * wb = j * wb + wb
    BY <2>0, <1>1, SMT
  <2>3. bw[(j + 1) * wb] = bw[j * wb] * bw[wb] /\ bw[j * wb] \in Nat
    <3> DEFINE u == j * wb
               v == (j + 1) * wb
    <3>1. u \in Nat /\ v \in Nat /\ v <= top /\ v = u + wb /\ wb \in Nat
      BY <2>1, <2>2, <1>1
    <3> HIDE DEF u, v
    <3>2. bw[v] = bw[u] * bw[wb] /\ bw[u] \in Nat
      BY <3>1, BitsAdd
    <3> QED
      BY <3>2 DEF u, v
  <2>4. bw[j * wb] = W[j]
    BY <2>0
  <2>5. W[j + 1] = B * W[j] /\ W[j] \in Nat
    BY <2>0, WeightFacts
  <2>6. B * W[j] = W[j] * B
    BY <2>5, BaseFacts, SMT
  <2> QED
    BY <2>3, <2>4, <2>5, <2>6, <1>1
<1>5. S = Nat
  <2> HIDE DEF S
  <2>1. S \in SUBSET Nat
    BY DEF S
  <2> QED
    BY <2>1, <1>3, <1>4, SetInduction
<1>6. k \in Nat /\ k <= 2 * N
  BY <1>1, SMT
<1>7. k \in S
  BY <1>5, <1>6
<1> QED
  BY <1>2, <1>6, <1>7

\* The number of bits of x.
IsLength(k, x, bw, top) == /\ k \in 0..top /\ x < bw[k]
                           /\ k = 0 \/ bw[k - 1] <= x

\* Every integer below a weight has a length,
LEMMA LengthExists ==
    ASSUME NEW bw, NEW wb, NEW top, BitTable(bw, wb, top),
           NEW x \in Nat, NEW j \in Nat, j <= top, x < bw[j]
    PROVE  \E k \in 0..top : IsLength(k, x, bw, top)
<1>0. top \in Nat
  BY BitFacts
<1> DEFINE S == {n \in Nat : n <= top /\ x < bw[n] => \E k \in 0..top : IsLength(k, x, bw, top)}
<1>1. 0 \in S
  <2>1. ASSUME 0 <= top, x < bw[0] PROVE \E k \in 0..top : IsLength(k, x, bw, top)
    <3>1. 0 \in 0..top
      BY <1>0, SMT
    <3> QED
      BY <2>1, <3>1 DEF IsLength
  <2> QED
    BY <2>1
<1>2. ASSUME NEW n \in S PROVE n + 1 \in S
  <2> SUFFICES ASSUME n + 1 <= top, x < bw[n + 1] PROVE \E k \in 0..top : IsLength(k, x, bw, top)
    BY SMT
  <2>0. n \in Nat /\ n <= top /\ n + 1 \in 0..top /\ (n + 1) - 1 = n
    BY <1>0, SMT
  <2>1. bw[n] \in Nat
    BY <2>0, BitFacts
  <2>2. CASE x < bw[n]
    BY <2>0, <2>2
  <2>3. CASE bw[n] <= x
    <3>1. IsLength(n + 1, x, bw, top)
      BY <2>0, <2>3 DEF IsLength
    <3> QED
      BY <3>1, <2>0
  <2> QED
    BY <2>1, <2>2, <2>3, SMT
<1>3. S = Nat
  <2> HIDE DEF S
  <2>1. S \in SUBSET Nat
    BY DEF S
  <2> QED
    BY <2>1, <1>1, <1>2, SetInduction
<1>4. j \in S
  BY <1>3
<1> QED
  BY <1>4

\* and it is at most the place of any weight above the integer.
LEMMA LengthWithin ==
    ASSUME NEW bw, NEW wb, NEW top, BitTable(bw, wb, top),
           NEW x \in Nat, NEW k, IsLength(k, x, bw, top), NEW j \in Nat, j <= top, x < bw[j]
    PROVE  k \in Nat /\ k <= j
<1>0. top \in Nat
  BY BitFacts
<1>1. k \in Nat /\ k <= top
  BY <1>0, SMT DEF IsLength
<1>2. CASE k <= j
  BY <1>1, <1>2
<1>3. CASE ~(k <= j)
  <2>1. k - 1 \in Nat /\ k - 1 <= top /\ j <= k - 1 /\ k # 0
    BY <1>0, <1>1, <1>3, SMT
  <2>2. bw[k - 1] <= x
    BY <2>1 DEF IsLength
  <2>3. bw[j] <= bw[k - 1]
    BY <2>1, BitsGrow
  <2>4. bw[j] \in Nat
    BY BitFacts
  <2>5. bw[k - 1] \in Nat
    BY <2>1, BitFacts
  <2> QED
    BY <2>2, <2>3, <2>4, <2>5, SMT
<1> QED
  BY <1>2, <1>3

\* A word with its top bit set has all bits.
LEMMA FullLength ==
    ASSUME NEW bw, NEW wb, NEW top, BitTable(bw, wb, top),
           NEW x \in Word, B <= 2 * x, NEW k, IsLength(k, x, bw, top)
    PROVE  k = wb
<1>1. B \in Nat /\ B >= 2 /\ N \in Nat /\ N >= 1
  BY BaseFacts
<1>2. x \in Nat /\ x < B /\ x > 0
  BY <1>1, SMT DEF Word
<1>3. wb \in Nat /\ wb > 0 /\ bw[wb] = B /\ top \in Nat
  BY BitTop
<1>4. wb <= top
  <2>1. 1 \in 0..(2 * N)
    BY <1>1, SMT
  <2>2. 1 * wb <= top
    BY <2>1, BitsOfLimbs
  <2> QED
    BY <2>2, <1>3, SMT
<1>5. k \in Nat /\ k <= wb
  BY <1>2, <1>3, <1>4, LengthWithin
<1>6. CASE k = wb
  BY <1>6
<1>7. CASE k < wb
  <2>1. k + 1 <= wb /\ k + 1 \in Nat /\ k < top /\ k <= top
    BY <1>3, <1>4, <1>5, <1>7, SMT
  <2>2. bw[k + 1] <= bw[wb]
    BY <2>1, <1>3, <1>4, BitsGrow
  <2>3. bw[k + 1] = 2 * bw[k] /\ bw[k] \in Nat
    BY <1>5, <2>1, BitFacts
  <2>4. x < bw[k]
    BY DEF IsLength
  <2> DEFINE v == bw[k]
  <2>5. 2 * v <= B /\ v \in Nat /\ x < v
    BY <2>2, <2>3, <2>4, <1>3
  <2> HIDE DEF v
  <2>6. 2 * x < 2 * v
    BY <2>5, <1>2, SMT
  <2> QED
    BY <2>5, <2>6, <1>1, <1>2, SMT
<1> QED
  BY <1>3, <1>5, <1>6, <1>7, SMT

\* A divisor in use: the limbs that hold its k bits, and how far they are from full.
LEMMA LimbsInUse ==
    ASSUME NEW bw, NEW wb, NEW top, BitTable(bw, wb, top),
           NEW y \in Nat, y > 0, NEW k, IsLength(k, y, bw, top),
           NEW n \in 1..N, y < W[n],
           NEW w, w = (k + wb - 1) \div wb
    PROVE  /\ w \in Nat /\ 1 <= w /\ w <= n
           /\ k \in Nat /\ k >= 1
           /\ w * wb - k \in Nat /\ w * wb - k < wb
           /\ y < W[w]
<1>1. /\ top \in Nat /\ wb \in Nat /\ wb > 0 /\ bw[0] = 1 /\ N \in Nat /\ n \in Nat /\ n >= 1
      /\ n \in 0..(2 * N)
  BY BitTop, BaseFacts, SMT
<1>2. n * wb \in Nat /\ n * wb <= top /\ bw[n * wb] = W[n]
  BY <1>1, BitsOfLimbs
<1> DEFINE nb == n * wb
<1>3. k \in Nat /\ k <= nb
  <2>1. nb \in Nat /\ nb <= top /\ y < bw[nb]
    BY <1>2
  <2> HIDE DEF nb
  <2> QED
    BY <2>1, LengthWithin
<1>4. k >= 1
  <2>1. k = 0 => y < 1
    BY <1>1 DEF IsLength
  <2> QED
    BY <2>1, <1>3, SMT
<1> DEFINE a == k + wb - 1
           r == a % wb
           p == w * wb
<1>5. a \in Nat /\ w \in Nat /\ r \in Nat /\ r < wb /\ a = wb * w + r
  <2>1. a \in Int /\ a >= 0
    BY <1>1, <1>3, <1>4, SMT
  <2> HIDE DEF a
  <2>2. w = a \div wb
    BY DEF a
  <2> QED
    BY <2>1, <2>2, <1>1, DivMod, SMT
<1>6. p = wb * w /\ p \in Nat
  <2>1. wb \in Nat /\ w \in Nat
    BY <1>1, <1>5
  <2>2. w * wb = wb * w /\ w * wb \in Nat
    BY <2>1, SMT
  <2> QED
    BY <2>2
<1>7. p - k \in Nat /\ p - k < wb
  <2>1. k + wb - 1 = p + r
    BY <1>5, <1>6
  <2> HIDE DEF p, r
  <2> QED
    BY <2>1, <1>1, <1>3, <1>5, <1>6, SMT
<1>8. w >= 1
  <2>1. w = 0 => p = 0
    BY <1>1, SMT
  <2>2. p - k \in Nat /\ k \in Nat /\ k >= 1 /\ p \in Nat /\ w \in Nat
    BY <1>3, <1>4, <1>5, <1>6, <1>7
  <2> HIDE DEF p
  <2>3. p # 0
    BY <2>2, SMT
  <2> QED
    BY <2>1, <2>2, <2>3, SMT
<1>9. w <= n
  <2> SUFFICES ASSUME ~(w <= n) PROVE FALSE
    OBVIOUS
  <2>1. n + 1 <= w /\ n + 1 \in Int /\ w \in Int
    BY <1>1, <1>5, SMT
  <2> DEFINE n1 == n + 1
  <2>2. n1 <= w /\ n1 \in Int /\ w \in Int
    BY <2>1
  <2> HIDE DEF n1
  <2>3. wb * n1 <= wb * w
    BY <2>2, <1>1, Monotone
  <2>4. wb * n1 = nb + wb
    BY <1>1, SMT DEF n1
  <2>5. nb + wb <= p /\ nb \in Nat
    BY <2>3, <2>4, <1>2, <1>6
  <2> HIDE DEF nb, p
  <2> QED
    BY <2>5, <1>1, <1>3, <1>6, <1>7, SMT
<1>10. y < W[w]
  <2>1. w \in 0..(2 * N)
    BY <1>1, <1>5, <1>9, SMT
  <2>2. p \in Nat /\ p <= top /\ bw[p] = W[w]
    BY <2>1, BitsOfLimbs
  <2> HIDE DEF p
  <2>3. k <= p
    BY <1>3, <1>6, <1>7, SMT
  <2>4. bw[k] <= bw[p]
    BY <2>2, <2>3, <1>3, BitsGrow
  <2>5. y < bw[k] /\ k <= top
    BY <2>2, <2>3, <1>1, <1>3, SMT DEF IsLength
  <2>6. bw[k] \in Nat
    BY <2>5, <1>3, BitFacts
  <2>7. W[w] \in Nat
    BY <2>1, WeightFacts
  <2> QED
    BY <2>2, <2>4, <2>5, <2>6, <2>7, SMT
<1> QED
  BY <1>3, <1>4, <1>5, <1>7, <1>8, <1>9, <1>10

\* Shifted up to the top of n limbs, it is normalized.
LEMMA DivisorShifted ==
    ASSUME NEW bw, NEW wb, NEW top, BitTable(bw, wb, top),
           NEW y \in Nat, y > 0, NEW k, IsLength(k, y, bw, top),
           NEW n \in 2..N, y < W[n],
           NEW w, w = (k + wb - 1) \div wb,
           NEW z, z = n * wb - k, NEW ls, ls = z % wb,
           NEW a, a = (y * bw[z]) % W[n]
    PROVE  /\ ls \in 0..(wb - 1) /\ ls <= top
           /\ w \in 1..n
           /\ y * bw[ls] \in Nat
           /\ Normalized(a, n, w, y * bw[ls])
<1>1. /\ top \in Nat /\ wb \in Nat /\ wb > 0 /\ N \in Nat /\ n \in Nat /\ n >= 2
      /\ n \in 0..(2 * N) /\ n \in 1..N
  BY BitTop, BaseFacts, SMT
<1>2. /\ w \in Nat /\ 1 <= w /\ w <= n
      /\ k \in Nat /\ k >= 1
      /\ w * wb - k \in Nat /\ w * wb - k < wb
  BY <1>1, LimbsInUse
<1> DEFINE nb == n * wb
           g  == (n - w) * wb
           h  == w * wb - k
<1>3. nb \in Nat /\ nb <= top /\ bw[nb] = W[n]
  BY <1>1, BitsOfLimbs
<1>4. g \in Nat /\ g <= top /\ bw[g] = W[n - w] /\ n - w \in Nat
  <2>1. n - w \in 0..(2 * N) /\ n - w \in Nat
    BY <1>1, <1>2, SMT
  <2> QED
    BY <2>1, BitsOfLimbs
<1>5. z = g + h /\ z \in Nat /\ nb = k + z /\ z = wb * (n - w) + h
  <2>1. g = n * wb - w * wb /\ g = wb * (n - w) /\ w * wb \in Int
    BY <1>1, <1>2, SMT
  <2> DEFINE p == w * wb
  <2>2. g = nb - p /\ h = p - k /\ p \in Int /\ z = nb - k /\ g = wb * (n - w)
    BY <2>1
  <2> HIDE DEF g, h, p, nb
  <2>3. z = g + h /\ z \in Nat /\ nb = k + z
    BY <2>2, <1>2, <1>3, <1>4, SMT DEF h
  <2> QED
    BY <2>2, <2>3
<1>6. h \in 0..(wb - 1) /\ h \in Nat
  <2>1. h \in Nat /\ h < wb
    BY <1>2
  <2> HIDE DEF h
  <2> QED
    BY <2>1, <1>1, SMT
<1>7. ls = h
  <2> DEFINE m == n - w
  <2>1. z = wb * m + h /\ m \in Int /\ z \in Int
    BY <1>1, <1>2, <1>5, SMT
  <2> HIDE DEF m, h
  <2>2. z % wb = h
    BY <2>1, <1>1, <1>6, DivisionIs
  <2> QED
    BY <2>2
<1>8. ls \in 0..(wb - 1) /\ ls \in Nat
  BY <1>6, <1>7
<1>9. w \in 1..n
  BY <1>1, <1>2, SMT
<1>10. z <= top
  <2> HIDE DEF nb
  <2> QED
    BY <1>1, <1>2, <1>3, <1>5, SMT
<1> HIDE DEF g, h, nb
<1>11. bw[z] = bw[g] * bw[ls] /\ bw[z] \in Nat /\ bw[g] \in Nat /\ bw[ls] \in Nat /\ bw[z] > 0
  <2>1. z = g + ls
    BY <1>5, <1>7
  <2> QED
    BY <2>1, <1>4, <1>8, <1>10, BitsAdd
<1>12. ls <= top
  BY <1>1, <1>4, <1>5, <1>6, <1>7, <1>10, SMT
<1> DEFINE v == bw[z]
           q == y * v
           m == W[n]
<1>13. bw[nb] = bw[k] * v /\ bw[k] \in Nat
  BY <1>2, <1>3, <1>5, BitsAdd
<1>14. y < bw[k] /\ bw[k] <= 2 * y
  <2>1. y < bw[k] /\ bw[k - 1] <= y
    BY <1>2, SMT DEF IsLength
  <2>2. k - 1 \in Nat /\ k - 1 < top /\ k - 1 <= top /\ (k - 1) + 1 = k
    BY <1>1, <1>2, <1>3, <1>5, SMT
  <2>3. bw[(k - 1) + 1] = 2 * bw[k - 1] /\ bw[k - 1] \in Nat
    BY <2>2, BitFacts
  <2> QED
    BY <2>1, <2>2, <2>3, SMT
<1>15. q < m /\ m <= 2 * q /\ q \in Nat
  <2> DEFINE f == bw[k]
  <2>1. m = f * v /\ f \in Nat /\ v \in Nat /\ v > 0 /\ y < f /\ f <= 2 * y
    BY <1>3, <1>11, <1>13, <1>14
  <2> HIDE DEF f, v, m
  <2>2. y + 1 <= f /\ y + 1 \in Int /\ f \in Int /\ 2 * y \in Int
    BY <2>1, SMT
  <2>3. v * f <= v * (2 * y)
    BY <2>1, <2>2, Monotone
  <2>4. v * (y + 1) <= v * f
    BY <2>1, <2>2, Monotone
  <2>5. v * f = m /\ v * (2 * y) = 2 * q /\ v * (y + 1) = q + v /\ q \in Nat
    <3>1. v * f = f * v /\ v * (2 * y) = 2 * (y * v) /\ v * (y + 1) = y * v + v /\ y * v \in Nat
      BY <2>1, SMT
    <3> QED
      BY <3>1, <2>1
  <2> HIDE DEF q
  <2> QED
    BY <2>1, <2>3, <2>4, <2>5, SMT
<1>16. a = q
  <2>1. m \in Nat /\ m > 0
    BY <1>1, WeightFacts
  <2>2. a = q % m
    OBVIOUS
  <2> HIDE DEF q, m
  <2>3. q \in 0..(m - 1)
    BY <2>1, <1>15, SMT
  <2> QED
    BY <2>1, <2>2, <2>3, ResidueItself
<1> DEFINE dv == y * bw[ls]
<1>17. a = dv * W[n - w] /\ dv \in Nat
  <2> DEFINE s == bw[ls]
             t == bw[g]
  <2>1. a = y * (t * s) /\ s \in Nat /\ t \in Nat /\ t = W[n - w]
    BY <1>4, <1>11, <1>16
  <2> HIDE DEF s, t
  <2>2. y * (t * s) = (y * s) * t /\ y * s \in Nat
    BY <2>1, SMT
  <2> QED
    BY <2>1, <2>2 DEF s
<1>18. a < W[n] /\ W[n] <= 2 * a /\ a \in Nat
  BY <1>15, <1>16
<1>19. n \in 2..N
  OBVIOUS
<1> QED
  BY <1>8, <1>9, <1>12, <1>17, <1>18, <1>19 DEF Normalized

\* And the dividend with it: what leaves the upper limbs is below half a word.
DividendGiven(x, xn, lo, e, xv) ==
    /\ xn \in 1..(2 * N) /\ e \in 0..(2 * N)
    /\ x \in Nat /\ x < W[xn] /\ lo \in Nat /\ lo < W[e]
    /\ xv = x * W[e] + lo

\* shl of the low limbs and then of the upper ones shifts the whole dividend; less
\* than a word carries out of the top.
LEMMA DividendShifted ==
    ASSUME NEW bw, NEW wb, NEW top, BitTable(bw, wb, top), NEW ls \in 0..(wb - 1),
           NEW x, NEW xn, NEW lo, NEW e, NEW xv, DividendGiven(x, xn, lo, e, xv),
           NEW b, b = bw[ls],
           NEW x1, x1 = ((x * b) % W[xn]) + (lo * b) \div W[e],
           NEW xh, xh = (x * b) \div W[xn],
           NEW lo1, lo1 = (lo * b) % W[e]
    PROVE  /\ x1 \in Nat /\ x1 < W[xn] /\ xh \in Nat /\ 2 * (xh + 1) <= B
           /\ lo1 \in Nat /\ lo1 < W[e]
           /\ xv * b = (xh * W[xn] + x1) * W[e] + lo1
<1>1. /\ top \in Nat /\ wb \in Nat /\ wb > 0 /\ N \in Nat /\ bw[wb] = B /\ B \in Nat
  BY BitTop, BaseFacts
<1>2. /\ xn \in 1..(2 * N) /\ e \in 0..(2 * N)
      /\ x \in Nat /\ x < W[xn] /\ lo \in Nat /\ lo < W[e]
      /\ xv = x * W[e] + lo
  BY DEF DividendGiven
<1>3. xn \in 0..(2 * N) /\ xn \in Nat /\ xn >= 1 /\ ls \in Nat /\ ls < wb
  BY <1>1, <1>2, SMT
<1> DEFINE xb == xn * wb
           c  == bw[xb - ls]
           m  == W[xn]
           we == W[e]
           so == (lo * b) \div we
<1>4. xb \in Nat /\ xb <= top /\ bw[xb] = m
  BY <1>3, BitsOfLimbs
<1>5. wb <= xb
  <2>1. wb * 1 <= wb * xn
    BY <1>1, <1>3, Monotone, SMT
  <2>2. wb * 1 = wb /\ wb * xn = xb
    BY <1>1, <1>3, SMT
  <2> QED
    BY <2>1, <2>2
<1> HIDE DEF xb
<1>6. xb - ls \in Nat /\ xb = (xb - ls) + ls /\ ls + 1 \in Nat /\ ls + 1 <= wb /\ wb <= top
      /\ ls <= top /\ ls < top
  BY <1>1, <1>3, <1>4, <1>5, SMT
<1>7. m = c * b /\ c \in Nat /\ c > 0 /\ b \in Nat /\ b > 0
  <2> DEFINE f == xb - ls
  <2>1. f \in Nat /\ xb = f + ls
    BY <1>6
  <2> HIDE DEF f
  <2>2. bw[xb] = bw[f] * bw[ls] /\ bw[f] \in Nat /\ bw[f] > 0 /\ bw[ls] \in Nat /\ bw[ls] > 0
    BY <2>1, <1>3, <1>4, BitsAdd
  <2> QED
    BY <2>2, <1>4 DEF f
<1>8. 2 * b <= B
  <2>1. bw[ls + 1] <= bw[wb]
    BY <1>1, <1>6, BitsGrow
  <2>2. bw[ls + 1] = 2 * bw[ls]
    BY <1>3, <1>6, BitFacts
  <2> QED
    BY <2>1, <2>2, <1>1
<1>9. we \in Nat /\ we > 0 /\ m \in Nat /\ m > 0
  BY <1>2, <1>3, WeightFacts
<1> HIDE DEF c, m, we
<1>10. so \in Nat /\ so < b /\ lo1 \in Nat /\ lo1 < we /\ lo * b = we * so + lo1
  <2> DEFINE p == lo * b
  <2>1. p \in Nat /\ p \in Int /\ p >= 0
    BY <1>2, <1>7, SMT
  <2>2. lo1 = p % we
    BY DEF we
  <2>3. so = p \div we
    OBVIOUS
  <2> HIDE DEF p, so
  <2>4. so \in Nat /\ lo1 \in Nat /\ lo1 < we /\ p = we * so + lo1
    BY <2>1, <2>2, <2>3, <1>9, DivMod
  <2>5. we * so < we * b
    <3>1. lo + 1 <= we /\ lo + 1 \in Int /\ we \in Int
      BY <1>2, <1>9, SMT DEF we
    <3>2. b * (lo + 1) <= b * we
      BY <3>1, <1>7, Monotone
    <3>3. b * (lo + 1) = p + b /\ b * we = we * b /\ we * b \in Int /\ we * so \in Int
      <4>1. b * (lo + 1) = lo * b + b /\ b * we = we * b /\ we * b \in Int
        BY <1>2, <1>7, <1>9, SMT
      <4>2. we * so \in Int
        BY <1>9, <2>4, SMT
      <4> QED
        BY <4>1, <4>2 DEF p
    <3> DEFINE q1 == we * so
               q2 == we * b
    <3>4. p + b <= q2 /\ q1 \in Int /\ q2 \in Int /\ p = q1 + lo1
      BY <2>4, <3>2, <3>3
    <3> HIDE DEF q1, q2
    <3>5. q1 < q2
      BY <3>4, <2>4, <1>7, SMT
    <3> QED
      BY <3>5 DEF q1, q2
  <2>6. so < b
    BY <2>4, <2>5, <1>7, <1>9, Cancel, SMT
  <2> QED
    BY <2>4, <2>6 DEF p
<1> DEFINE xq == x \div c
           xr == x % c
<1>11. xq \in Nat /\ xr \in Nat /\ xr < c /\ x = c * xq + xr
  BY <1>2, <1>7, DivMod, SMT
<1>12. xh = xq /\ (x * b) % m = b * xr
  <2> DEFINE r == b * xr
             p == x * b
  <2> HIDE DEF xq, xr
  <2>1. p = m * xq + r /\ p \in Int
    <3>1. (c * xq + xr) * b = (c * b) * xq + b * xr /\ (c * xq + xr) * b \in Int
      BY <1>7, <1>11, SMT
    <3> QED
      BY <3>1, <1>7, <1>11
  <2>2. r \in 0..(m - 1)
    <3>1. xr + 1 <= c /\ xr + 1 \in Int /\ c \in Int
      BY <1>7, <1>11, SMT
    <3>2. b * (xr + 1) <= b * c
      BY <3>1, <1>7, Monotone
    <3>3. b * (xr + 1) = r + b /\ b * c = c * b /\ r \in Nat
      BY <1>7, <1>11, SMT
    <3>4. r + b <= m
      BY <3>2, <3>3, <1>7
    <3> HIDE DEF r
    <3> QED
      BY <3>3, <3>4, <1>7, <1>9, SMT
  <2> HIDE DEF p, r
  <2>3. xq \in Int
    BY <1>11
  <2>4. p \div m = xq /\ p % m = r
    BY <2>1, <2>2, <2>3, <1>9, DivisionIs
  <2> QED
    BY <2>4 DEF p, r, m
<1>13. x1 = b * xr + so
  BY <1>12 DEF m, we
<1> HIDE DEF xq, xr, so
<1>14. x1 \in Nat /\ x1 < m
  <2> DEFINE r == b * xr
  <2>1. xr + 1 <= c /\ xr + 1 \in Int /\ c \in Int
    BY <1>7, <1>11, SMT
  <2>2. b * (xr + 1) <= b * c
    BY <2>1, <1>7, Monotone
  <2>3. b * (xr + 1) = r + b /\ b * c = c * b /\ r \in Nat
    BY <1>7, <1>11, SMT
  <2>4. r + b <= m /\ x1 = r + so
    BY <2>2, <2>3, <1>7, <1>13
  <2> HIDE DEF r
  <2> QED
    BY <2>3, <2>4, <1>7, <1>9, <1>10, SMT
<1>15. xh \in Nat /\ 2 * (xh + 1) <= B
  <2>1. c * xq < c * b
    <3> DEFINE p == c * xq
               q == c * b
    <3>0. p \in Int /\ q \in Int
      BY <1>7, <1>11, SMT
    <3>1. x = p + xr /\ x < q
      BY <1>2, <1>7, <1>11 DEF m
    <3> HIDE DEF p, q
    <3>2. p < q
      BY <3>0, <3>1, <1>11, SMT
    <3> QED
      BY <3>2 DEF p, q
  <2>2. xq < b
    BY <2>1, <1>7, <1>11, Cancel, SMT
  <2> QED
    BY <2>2, <1>1, <1>7, <1>8, <1>11, <1>12, SMT
<1>16. xv * b = (xh * m + x1) * we + lo1
  <2> DEFINE p == b * xr
  <2>1. x * b = m * xh + p
    <3>1. (c * xq + xr) * b = (c * b) * xq + b * xr
      BY <1>7, <1>11, SMT
    <3> QED
      BY <3>1, <1>7, <1>11, <1>12
  <2>2. (x * we + lo) * b = (x * b) * we + lo * b
    BY <1>2, <1>7, <1>9, SMT
  <2>3. p \in Nat
    BY <1>7, <1>11, SMT
  <2> HIDE DEF p
  <2>4. (m * xh + p) * we = (xh * m) * we + p * we /\ (xh * m + (p + so)) * we = (xh * m) * we + p * we + we * so
        /\ (xh * m) * we \in Int /\ p * we \in Int /\ we * so \in Int
    BY <2>3, <1>9, <1>10, <1>15, SMT
  <2> DEFINE q1 == (xh * m) * we
             q2 == p * we
             q3 == we * so
             s1 == xv * b
             s2 == (xh * m + x1) * we
  <2>5. s1 = (x * b) * we + lo * b
    BY <2>2, <1>2 DEF we
  <2>6. s1 = (q1 + q2) + (q3 + lo1)
    BY <2>5, <2>1, <2>4, <1>10
  <2>7. s2 = q1 + q2 + q3
    BY <2>4, <1>13 DEF p
  <2>8. q1 \in Int /\ q2 \in Int /\ q3 \in Int
    BY <2>4
  <2> HIDE DEF q1, q2, q3, s1, s2
  <2>9. s1 = s2 + lo1
    BY <2>6, <2>7, <2>8, <1>10, SMT
  <2> QED
    BY <2>9 DEF s1, s2
<1> QED
  BY <1>10, <1>14, <1>15, <1>16 DEF m, we

----------------------------------------------------------------------------
(* The inverse of an odd word modulo the word base.                        *)

\* A lower weight divides a higher one.
LEMMA BitDivides ==
    ASSUME NEW bw, NEW wb, NEW top, BitTable(bw, wb, top),
           NEW a \in Nat, NEW b \in Nat, a <= b, b <= top
    PROVE  \E c \in Nat : c > 0 /\ bw[b] = bw[a] * c
<1> DEFINE g == b - a
<1>1. g \in Nat /\ b = a + g
  BY SMT
<1> HIDE DEF g
<1> DEFINE e == bw[g]
           f == bw[a]
<1>2. bw[b] = f * e /\ f \in Nat /\ e \in Nat /\ e > 0
  BY <1>1, BitsAdd
<1> HIDE DEF e
<1> QED
  BY <1>2

\* The weights up to that of bit 5 divide 32.
LEMMA BitDivides32 ==
    ASSUME NEW bw, NEW wb, NEW top, BitTable(bw, wb, top), NEW j \in 0..5, j <= top
    PROVE  \E c \in Nat : 32 = bw[j] * c
<1> DEFINE b(k) == bw[k]
<1>0. top \in Nat /\ bw[0] = 1
  BY BitTop
<1>1. ASSUME NEW k \in Nat, k < top PROVE bw[k + 1] = 2 * bw[k]
  BY <1>1, BitFacts
<1>2. top >= 1 => bw[1] = 2
  BY <1>0, <1>1, SMT
<1>3. top >= 2 => bw[2] = 4
  <2>1. top >= 2 => bw[1 + 1] = 2 * bw[1]
    BY <1>0, <1>1, SMT
  <2> QED
    BY <1>0, <1>2, <2>1, SMT
<1>4. top >= 3 => bw[3] = 8
  <2>1. top >= 3 => bw[2 + 1] = 2 * bw[2]
    BY <1>0, <1>1, SMT
  <2> QED
    BY <1>0, <1>3, <2>1, SMT
<1>5. top >= 4 => bw[4] = 16
  <2>1. top >= 4 => bw[3 + 1] = 2 * bw[3]
    BY <1>0, <1>1, SMT
  <2> QED
    BY <1>0, <1>4, <2>1, SMT
<1>6. top >= 5 => bw[5] = 32
  <2>1. top >= 5 => bw[4 + 1] = 2 * bw[4]
    BY <1>0, <1>1, SMT
  <2> QED
    BY <1>0, <1>5, <2>1, SMT
<1>7. 32 = 1 * 32 /\ 32 = 2 * 16 /\ 32 = 4 * 8 /\ 32 = 8 * 4 /\ 32 = 16 * 2 /\ 32 = 32 * 1
  BY SMT
<1>8. j = 0 \/ j = 1 \/ j = 2 \/ j = 3 \/ j = 4 \/ j = 5
  BY SMT
<1>9. CASE j = 0
  BY <1>0, <1>7, <1>9
<1>10. CASE j = 1
  BY <1>0, <1>2, <1>7, <1>10, SMT
<1>11. CASE j = 2
  <2>1. bw[2] = 4
    BY <1>0, <1>3, <1>11, SMT
  <2> QED
    BY <2>1, <1>7, <1>11
<1>12. CASE j = 3
  <2>1. bw[3] = 8
    BY <1>0, <1>4, <1>12, SMT
  <2> QED
    BY <2>1, <1>7, <1>12
<1>13. CASE j = 4
  <2>1. bw[4] = 16
    BY <1>0, <1>5, <1>13, SMT
  <2> QED
    BY <2>1, <1>7, <1>13
<1>14. CASE j = 5
  <2>1. bw[5] = 32
    BY <1>0, <1>6, <1>14, SMT
  <2> QED
    BY <2>1, <1>7, <1>14
<1> QED
  BY <1>8, <1>9, <1>10, <1>11, <1>12, <1>13, <1>14

\* 3v with one bit changed is right in five bits.
InvertSeed(v) == 3 * v + IF ((3 * v) \div 2) % 2 = 1 THEN -2 ELSE 2

\* So it is: a seed times v is one modulo 32.
LEMMA SeedRight ==
    ASSUME NEW v \in Nat, v % 2 = 1
    PROVE  InvertSeed(v) \in Int /\ \E c \in Int : InvertSeed(v) * v = 1 + 32 * c
<1>1. ASSUME NEW a \in Nat, NEW d \in Int, d = 1 \/ d = 5
      PROVE  \E e \in Int : a * (3 * a + d) = 2 * e
  <2>1. a = 2 * (a \div 2) + (a % 2) /\ a \div 2 \in Nat /\ a % 2 \in Nat /\ a % 2 < 2
    BY DivMod, SMT
  <2> DEFINE q == a \div 2
             r == a % 2
  <2> HIDE DEF q, r
  <2>2. a = 2 * q + r /\ q \in Nat /\ (r = 0 \/ r = 1)
    BY <2>1, SMT DEF q, r
  <2>3. CASE r = 0
    <3> DEFINE e == q * (3 * a + d)
    <3>1. a = 2 * q /\ e \in Int
      BY <2>2, <2>3, SMT
    <3>2. a * (3 * a + d) = 2 * e
      BY <3>1, <2>2, SMT
    <3> QED
      BY <3>1, <3>2
  <2>4. CASE r = 1
    <3>1. a = 2 * q + 1
      BY <2>2, <2>4
    <3>2. CASE d = 1
      <4> DEFINE e == a * (3 * q + 2)
      <4>1. 3 * a + d = 2 * (3 * q + 2) /\ e \in Int
        BY <3>1, <3>2, <2>2, SMT
      <4>2. a * (3 * a + d) = 2 * e
        BY <4>1, <2>2, SMT
      <4> QED
        BY <4>1, <4>2
    <3>3. CASE d = 5
      <4> DEFINE e == a * (3 * q + 4)
      <4>1. 3 * a + d = 2 * (3 * q + 4) /\ e \in Int
        BY <3>1, <3>3, <2>2, SMT
      <4>2. a * (3 * a + d) = 2 * e
        BY <4>1, <2>2, SMT
      <4> QED
        BY <4>1, <4>2
    <3> QED
      BY <3>2, <3>3, <1>1
  <2> QED
    BY <2>2, <2>3, <2>4
<1>2. PICK c \in Nat : v = 2 * c + 1
  <2>1. v = 2 * (v \div 2) + (v % 2) /\ v \div 2 \in Nat
    BY DivMod, SMT
  <2> QED
    BY <2>1
<1>3. PICK a \in Nat : c = 2 * a \/ c = 2 * a + 1
  <2>1. c = 2 * (c \div 2) + (c % 2) /\ c \div 2 \in Nat /\ c % 2 \in Nat /\ c % 2 < 2
    BY DivMod, SMT
  <2> DEFINE q == c \div 2
             r == c % 2
  <2> HIDE DEF q, r
  <2>2. c = 2 * q + r /\ q \in Nat /\ (r = 0 \/ r = 1)
    BY <2>1, SMT DEF q, r
  <2>3. c = 2 * q \/ c = 2 * q + 1
    BY <2>2, SMT
  <2> QED
    BY <2>2, <2>3
<1>4. (3 * v) \div 2 = 3 * c + 1
  <2>1. 3 * v = 2 * (3 * c + 1) + 1 /\ 3 * c + 1 \in Int /\ 3 * v \in Int /\ 1 \in 0..(2 - 1)
    BY <1>2, SMT
  <2> DEFINE p == 3 * v
             q == 3 * c + 1
  <2>2. p = 2 * q + 1 /\ p \in Int /\ q \in Int
    BY <2>1
  <2> HIDE DEF p, q
  <2>3. p \div 2 = q
    BY <2>1, <2>2, DivisionIs, SMT
  <2> QED
    BY <2>3 DEF p, q
<1>5. CASE c = 2 * a
  <2>1. (3 * c + 1) % 2 = 1
    <3> DEFINE p == 3 * c + 1
               q == 3 * a
    <3>1. p = 2 * q + 1 /\ p \in Int /\ q \in Int
      BY <1>5, SMT
    <3> HIDE DEF p, q
    <3>2. p % 2 = 1
      BY <3>1, DivisionIs, SMT
    <3> QED
      BY <3>2 DEF p
  <2>2. InvertSeed(v) = 3 * v + (-2)
    BY <1>4, <2>1 DEF InvertSeed
  <2>3. v = 4 * a + 1
    BY <1>2, <1>5, SMT
  <2>4. InvertSeed(v) = 12 * a + 1
    BY <2>2, <2>3, SMT
  <2>5. PICK e \in Int : a * (3 * a + 1) = 2 * e
    <3> DEFINE d == 1
    <3>1. d \in Int /\ (d = 1 \/ d = 5)
      OBVIOUS
    <3> HIDE DEF d
    <3>2. \E e \in Int : a * (3 * a + d) = 2 * e
      BY <1>1, <3>1
    <3> QED
      BY <3>2 DEF d
  <2>6. (12 * a + 1) * (4 * a + 1) = 1 + 16 * (a * (3 * a + 1))
    <3>1. (12 * a + 1) * (4 * a + 1) = 48 * (a * a) + 16 * a + 1
          /\ a * (3 * a + 1) = 3 * (a * a) + a /\ a * a \in Int
      BY SMT
    <3> DEFINE s == a * a
               p == (12 * a + 1) * (4 * a + 1)
               q == a * (3 * a + 1)
    <3>2. p = 48 * s + 16 * a + 1 /\ q = 3 * s + a /\ s \in Int
      BY <3>1
    <3> HIDE DEF s, p, q
    <3>3. p = 1 + 16 * q
      BY <3>2, SMT
    <3> QED
      BY <3>3 DEF p, q
  <2>7. InvertSeed(v) * v = 1 + 32 * e
    <3> DEFINE g == a * (3 * a + 1)
    <3>1. InvertSeed(v) * v = 1 + 16 * g /\ g = 2 * e
      BY <2>3, <2>4, <2>5, <2>6
    <3> HIDE DEF g
    <3> QED
      BY <3>1, SMT
  <2>8. InvertSeed(v) \in Int
    BY <2>4, SMT
  <2> QED
    BY <2>7, <2>8
<1>6. CASE c = 2 * a + 1
  <2>1. (3 * c + 1) % 2 = 0
    <3> DEFINE p == 3 * c + 1
               q == 3 * a + 2
    <3>1. p = 2 * q + 0 /\ p \in Int /\ q \in Int
      BY <1>6, SMT
    <3> HIDE DEF p, q
    <3>2. p % 2 = 0
      BY <3>1, DivisionIs, SMT
    <3> QED
      BY <3>2 DEF p
  <2>2. InvertSeed(v) = 3 * v + 2
    BY <1>4, <2>1 DEF InvertSeed
  <2>3. v = 4 * a + 3
    BY <1>2, <1>6, SMT
  <2>4. InvertSeed(v) = 12 * a + 11
    BY <2>2, <2>3, SMT
  <2>5. PICK e \in Int : a * (3 * a + 5) = 2 * e
    <3> DEFINE d == 5
    <3>1. d \in Int /\ (d = 1 \/ d = 5)
      OBVIOUS
    <3> HIDE DEF d
    <3>2. \E e \in Int : a * (3 * a + d) = 2 * e
      BY <1>1, <3>1
    <3> QED
      BY <3>2 DEF d
  <2>6. (12 * a + 11) * (4 * a + 3) = 33 + 16 * (a * (3 * a + 5))
    <3>1. (12 * a + 11) * (4 * a + 3) = 48 * (a * a) + 80 * a + 33
          /\ a * (3 * a + 5) = 3 * (a * a) + 5 * a /\ a * a \in Int
      BY SMT
    <3> DEFINE s == a * a
               p == (12 * a + 11) * (4 * a + 3)
               q == a * (3 * a + 5)
    <3>2. p = 48 * s + 80 * a + 33 /\ q = 3 * s + 5 * a /\ s \in Int
      BY <3>1
    <3> HIDE DEF s, p, q
    <3>3. p = 33 + 16 * q
      BY <3>2, SMT
    <3> QED
      BY <3>3 DEF p, q
  <2>7. InvertSeed(v) * v = 1 + 32 * (e + 1) /\ e + 1 \in Int
    <3> DEFINE g == a * (3 * a + 5)
    <3>1. InvertSeed(v) * v = 33 + 16 * g /\ g = 2 * e
      BY <2>3, <2>4, <2>5, <2>6
    <3> HIDE DEF g
    <3> QED
      BY <3>1, SMT
  <2>8. InvertSeed(v) \in Int
    BY <2>4, SMT
  <2> QED
    BY <2>7, <2>8
<1> QED
  BY <1>3, <1>5, <1>6

\* Newton's iteration for the inverse of v modulo m keeps pairs x, y: y is the
\* error of x, and a multiple of 2^j.
ErrorOf(x, y, v, m) == \E d \in Int : x * v = 1 - y + m * d
BitsRight(y, j, bw) == \E e \in Int : y = bw[j] * e

\* Before the first step five bits are right, or all of the word.
LEMMA SeedError ==
    ASSUME NEW bw, NEW wb, NEW top, BitTable(bw, wb, top), wb <= top,
           NEW v \in Nat, v % 2 = 1,
           NEW x, x = InvertSeed(v) % B, NEW y, y = (1 - InvertSeed(v) * v) % B,
           NEW j, j = IF 5 <= wb THEN 5 ELSE wb
    PROVE  /\ x \in Int /\ y \in Int /\ ErrorOf(x, y, v, B)
           /\ j \in 0..wb /\ BitsRight(y, j, bw)
<1>1. B \in Nat /\ B > 0 /\ wb \in Nat /\ wb > 0 /\ bw[wb] = B /\ top \in Nat
  BY BitTop, BaseFacts, SMT
<1> DEFINE x0 == InvertSeed(v)
<1>2. PICK c \in Int : x0 * v = 1 + 32 * c
  BY SeedRight
<1>3. x0 \in Int
  BY SeedRight
<1>4. j \in 0..wb /\ j \in 0..5 /\ j \in Nat /\ j <= wb /\ j <= top
  BY <1>1, SMT
<1>5. PICK f \in Nat : 32 = bw[j] * f
  BY <1>4, BitDivides32
<1>6. PICK g \in Nat : bw[wb] = bw[j] * g
  BY <1>1, <1>4, BitDivides
<1> HIDE DEF x0
<1> DEFINE p == x0 * v
           e == 1 - p
           a == x0 \div B
           h == e \div B
           b == bw[j]
<1>7. p \in Int /\ e \in Int
  BY <1>3, SMT
<1>8. b \in Int
  <2>1. bw[j] \in Nat
    BY <1>4, BitFacts
  <2> QED
    BY <2>1
<1>9. x \in Int /\ a \in Int /\ x0 = B * a + x
  <2>1. x = x0 % B
    BY DEF x0
  <2> QED
    BY <2>1, <1>1, <1>3, DivMod, SMT
<1>10. y \in Int /\ h \in Int /\ e = B * h + y
  <2>1. y = e % B
    BY DEF x0
  <2> HIDE DEF e
  <2> QED
    BY <2>1, <1>1, <1>7, DivMod, SMT
<1> HIDE DEF a, h, b
<1>11. ErrorOf(x, y, v, B)
  <2> DEFINE d == -h - a * v
             q == a * v
  <2>1. d \in Int /\ q \in Int
    BY <1>9, <1>10, SMT
  <2>2. x * v = p - B * q
    <3>0. B * a \in Int /\ x * v \in Int /\ B * (a * v) \in Int /\ (B * a) * v = B * (a * v)
      BY <1>1, <1>9, SMT
    <3> DEFINE ba == B * a
    <3>01. (ba + x) * v = ba * v + x * v
      <4>1. ba \in Int
        BY <3>0
      <4> HIDE DEF ba
      <4> QED
        BY <4>1, <1>9, SMT
    <3>1. (B * a + x) * v = B * (a * v) + x * v /\ x * v \in Int /\ B * (a * v) \in Int
      BY <3>0, <3>01
    <3>2. p = B * q + x * v
      BY <3>1, <1>9
    <3> DEFINE s == x * v
               t == B * q
    <3>3. s \in Int /\ t \in Int /\ p = t + s
      BY <3>1, <3>2
    <3> HIDE DEF s, t, p
    <3>4. s = p - t
      BY <3>3, <1>7, SMT
    <3> QED
      BY <3>4 DEF s, t
  <2> DEFINE t == B * q
             k == B * h
  <2>3. B * d = -k - t /\ t \in Int /\ k \in Int
    <3>1. B * (-h - q) = -(B * h) - B * q /\ B * q \in Int /\ B * h \in Int
      BY <1>1, <1>10, <2>1, SMT
    <3> QED
      BY <3>1
  <2>4. x * v = p - t /\ 1 - p = k + y
    BY <2>2, <1>10
  <2> DEFINE s == x * v
             l == B * d
  <2>5. s = p - t /\ 1 - p = k + y /\ l = -k - t
    BY <2>3, <2>4
  <2> HIDE DEF s, l, t, k, p, d
  <2>6. s = 1 - y + l
    BY <2>3, <2>5, <1>7, <1>10, SMT
  <2> QED
    BY <2>1, <2>6 DEF ErrorOf, s, l
<1>12. BitsRight(y, j, bw)
  <2> DEFINE w == -(f * c) - g * h
             k == b * w
             q1 == f * c
             q2 == g * h
  <2>1. w \in Int /\ q1 \in Int /\ q2 \in Int
    BY <1>10, SMT
  <2>2. 32 * c = b * q1 /\ B * h = b * q2
    <3>1. (b * f) * c = b * (f * c) /\ (b * g) * h = b * (g * h)
      BY <1>8, <1>10, SMT
    <3>2. 32 = b * f /\ B = b * g
      BY <1>1, <1>5, <1>6 DEF b
    <3> QED
      BY <3>1, <3>2
  <2>3. k = -(b * q1) - b * q2 /\ b * q1 \in Int /\ b * q2 \in Int
    <3>1. b * (-q1 - q2) = -(b * q1) - b * q2 /\ b * q1 \in Int /\ b * q2 \in Int
      BY <1>8, <2>1, SMT
    <3> QED
      BY <3>1
  <2> DEFINE t1 == b * q1
             t2 == b * q2
  <2>4. 32 * c = t1 /\ B * h = t2 /\ k = -t1 - t2 /\ t1 \in Int /\ t2 \in Int /\ p = 1 + 32 * c
    BY <2>2, <2>3, <1>2
  <2> DEFINE u == B * h
  <2>5. u = t2 /\ 1 - p = u + y
    BY <2>4, <1>10
  <2> HIDE DEF t1, t2, k, p, u, w
  <2>6. y = k
    BY <2>4, <2>5, <1>10, SMT
  <2> QED
    BY <2>1, <2>6 DEF BitsRight, k, b
<1> QED
  BY <1>4, <1>9, <1>10, <1>11, <1>12

\* Each step doubles the bits that are right, up to those of the word.
PairStep(x1, y1, j1, x, y, j, wb) ==
    /\ x1 = (x * (y + 1)) % B
    /\ y1 = (y * y) % B
    /\ j1 = IF 2 * j <= wb THEN 2 * j ELSE wb

\* A step keeps the pair and doubles the number of bits that are right.
LEMMA StepError ==
    ASSUME NEW bw, NEW wb, NEW top, BitTable(bw, wb, top), wb <= top,
           NEW v \in Nat, NEW x \in Int, NEW y \in Int, ErrorOf(x, y, v, B),
           NEW j \in 0..wb, BitsRight(y, j, bw),
           NEW x1, NEW y1, NEW j1, PairStep(x1, y1, j1, x, y, j, wb)
    PROVE  /\ x1 \in Int /\ y1 \in Int /\ ErrorOf(x1, y1, v, B)
           /\ j1 \in 0..wb /\ BitsRight(y1, j1, bw)
<1>0. /\ x1 = (x * (y + 1)) % B /\ y1 = (y * y) % B
      /\ j1 = IF 2 * j <= wb THEN 2 * j ELSE wb
  BY DEF PairStep
<1>1. B \in Nat /\ B > 0 /\ wb \in Nat /\ wb > 0 /\ bw[wb] = B /\ top \in Nat
  BY BitTop, BaseFacts, SMT
<1>2. /\ j \in Nat /\ j1 \in Nat /\ j1 \in 0..wb /\ j1 <= wb /\ j1 <= top /\ j <= top
      /\ j1 - j \in Nat /\ j1 = j + (j1 - j) /\ j1 - j <= j
  BY <1>0, <1>1, SMT
<1>3. PICK d \in Int : x * v = 1 - y + B * d
  BY DEF ErrorOf
<1>4. PICK e \in Int : y = bw[j] * e
  BY DEF BitsRight
<1> DEFINE jd == j1 - j
<1>5. bw[j1] = bw[j] * bw[jd] /\ bw[j] \in Nat /\ bw[jd] \in Nat /\ bw[j1] \in Nat
  <2>1. jd \in Nat /\ j1 = j + jd /\ j1 <= top /\ j \in Nat /\ j1 \in Nat
    BY <1>2
  <2> HIDE DEF jd
  <2>2. /\ bw[j1] = bw[j] * bw[jd]
        /\ bw[j] \in Nat /\ bw[j] > 0 /\ bw[jd] \in Nat /\ bw[jd] > 0 /\ bw[j1] \in Nat /\ bw[j1] > 0
    BY <2>1, BitsAdd
  <2> QED
    BY <2>2
<1>6. PICK f \in Nat : bw[j] = bw[jd] * f
  <2>1. jd \in Nat /\ jd <= j
    BY <1>2
  <2> HIDE DEF jd
  <2> QED
    BY <2>1, <1>2, BitDivides
<1>7. PICK g \in Nat : bw[wb] = bw[j1] * g
  BY <1>1, <1>2, BitDivides
<1> DEFINE p == x * (y + 1)
           q == y * y
           a == p \div B
           h == q \div B
<1>8. p \in Int /\ q \in Int
  BY SMT
<1>9. x1 \in Int /\ a \in Int /\ p = B * a + x1
  <2>1. x1 = p % B
    BY <1>0
  <2> HIDE DEF p
  <2> QED
    BY <2>1, <1>1, <1>8, DivMod, SMT
<1>10. y1 \in Int /\ h \in Int /\ q = B * h + y1
  <2>1. y1 = q % B
    BY <1>0
  <2> HIDE DEF q
  <2> QED
    BY <2>1, <1>1, <1>8, DivMod, SMT
<1> HIDE DEF a, h
<1>11. ErrorOf(x1, y1, v, B)
  <2> DEFINE r1 == d * (y + 1)
             r2 == a * v
             w  == r1 - r2 - h
             s  == x1 * v
             t1 == B * r1
             t2 == B * r2
             t3 == B * h
             l  == B * w
  <2>1. r1 \in Int /\ r2 \in Int /\ w \in Int
    BY <1>9, <1>10, SMT
  <2>2. s \in Int /\ t1 \in Int /\ t2 \in Int /\ t3 \in Int
    BY <2>1, <1>1, <1>9, <1>10, SMT
  <2>3. l = t1 - t2 - t3
    <3> HIDE DEF r1, r2
    <3> QED
      BY <2>1, <1>1, <1>10, SMT
  <2>4. p * v = t2 + s
    <3>1. (B * a + x1) * v = B * (a * v) + x1 * v
      BY <1>1, <1>9, SMT
    <3> QED
      BY <3>1, <1>9
  <2>5. p * v = 1 - q + t1
    <3>1. p * v = (x * v) * (y + 1)
      BY SMT
    <3> DEFINE c == B * d
    <3>2. c \in Int
      BY <1>1, SMT
    <3>3. (1 - y + c) * (y + 1) = 1 - y * y + c * (y + 1)
      <4> HIDE DEF c
      <4>1. (1 - y + c) * (y + 1) = (1 - y) * (y + 1) + c * (y + 1)
        BY <3>2, SMT
      <4>2. (1 - y) * (y + 1) = 1 - y * y
        BY SMT
      <4> QED
        BY <4>1, <4>2
    <3>4. c * (y + 1) = t1
      BY <1>1, SMT
    <3> QED
      BY <3>1, <3>3, <3>4, <1>3
  <2> DEFINE u == p * v
  <2>6. u = t2 + s /\ u = 1 - q + t1 /\ q = t3 + y1
    BY <2>4, <2>5, <1>10
  <2>8. q \in Int /\ y1 \in Int
    BY <1>8, <1>10
  <2> HIDE DEF s, t1, t2, t3, l, u, q, w
  <2>7. s = 1 - y1 + l
    <3>1. t2 + s = 1 - (t3 + y1) + t1
      BY <2>6
    <3> DEFINE yy == y1
    <3>2. yy \in Int /\ s \in Int /\ t1 \in Int /\ t2 \in Int /\ t3 \in Int
          /\ t2 + s = 1 - (t3 + yy) + t1
      BY <3>1, <2>2, <2>8
    <3> HIDE DEF yy
    <3>3. s = 1 - yy + (t1 - t2 - t3)
      BY <3>2, SMT
    <3>4. s = 1 - y1 + (t1 - t2 - t3)
      BY <3>3 DEF yy
    <3> QED
      BY <3>4, <2>3
  <2> QED
    BY <2>1, <2>7 DEF ErrorOf, s, l
<1>12. BitsRight(y1, j1, bw)
  <2> DEFINE b  == bw[j1]
             r1 == f * (e * e)
             r2 == g * h
             w  == r1 - r2
             t1 == b * r1
             t2 == b * r2
             k  == b * w
  <2>1. r1 \in Int /\ r2 \in Int /\ w \in Int /\ b \in Int
    BY <1>5, <1>10, SMT
  <2>2. q = t1
    <3> DEFINE m == bw[j]
               n == bw[jd]
    <3>1. y = m * e /\ m = n * f /\ b = m * n /\ m \in Int /\ n \in Int
      BY <1>4, <1>5, <1>6
    <3> HIDE DEF m, n, b
    <3>2. q = (m * e) * (m * e)
      BY <3>1
    <3>3. (m * e) * (m * e) = (m * m) * (e * e) /\ e * e \in Int
      BY <3>1, SMT
    <3>4. m * m = (m * n) * f
      <4>1. m * (n * f) = (m * n) * f
        BY <3>1, SMT
      <4> QED
        BY <4>1, <3>1
    <3> DEFINE ee == e * e
    <3>5. q = (b * f) * ee /\ ee \in Int
      BY <3>1, <3>2, <3>3, <3>4
    <3>6. t1 = b * (f * ee)
      OBVIOUS
    <3> HIDE DEF ee
    <3>7. (b * f) * ee = b * (f * ee)
      BY <2>1, <3>5, SMT
    <3> QED
      BY <3>5, <3>6, <3>7
  <2>3. B * h = t2
    <3>1. (b * g) * h = b * (g * h)
      BY <2>1, <1>10, SMT
    <3> QED
      BY <3>1, <1>1, <1>7
  <2>4. k = t1 - t2 /\ t1 \in Int /\ t2 \in Int
    <3> HIDE DEF r1, r2, b
    <3> QED
      BY <2>1, SMT
  <2> DEFINE u == B * h
  <2>5. q = t1 /\ u = t2 /\ q = u + y1
    BY <2>2, <2>3, <1>10
  <2> HIDE DEF q, t1, t2, k, u, w
  <2>6. y1 = k
    BY <2>4, <2>5, <1>10, SMT
  <2> QED
    BY <2>1, <2>6 DEF BitsRight, k
<1> QED
  BY <1>2, <1>9, <1>10, <1>11, <1>12

\* The function that the loop computes.
InverseRun(v, m, steps) ==
    CHOOSE s : s = [r \in 0..steps |->
        IF r = 0 THEN [x |-> InvertSeed(v) % m, y |-> (1 - InvertSeed(v) * v) % m]
        ELSE [x |-> (s[r - 1].x * (s[r - 1].y + 1)) % m,
              y |-> (s[r - 1].y * s[r - 1].y) % m]]

\* The pairs of the iteration, and the step from one to the next.
InversePairs == [x : Int, y : Int]
InverseStepping(m) ==
    [r \in Nat |-> [u \in InversePairs |-> [x |-> (u.x * (u.y + 1)) % m, y |-> (u.y * u.y) % m]]]

\* The pairs are what the recursion says.
LEMMA InverseRuns ==
    ASSUME NEW v \in Nat, v % 2 = 1, NEW m \in Nat, m > 0, NEW steps \in Nat,
           NEW s, s = InverseRun(v, m, steps)
    PROVE  /\ s[0] = [x |-> InvertSeed(v) % m, y |-> (1 - InvertSeed(v) * v) % m]
           /\ \A r \in 1..steps : s[r] = [x |-> (s[r - 1].x * (s[r - 1].y + 1)) % m,
                                          y |-> (s[r - 1].y * s[r - 1].y) % m]
<1> DEFINE x0 == InvertSeed(v)
           a  == [x |-> x0 % m, y |-> (1 - x0 * v) % m]
           F  == InverseStepping(m)
<1>0. x0 \in Int /\ 1 - x0 * v \in Int
  <2>1. x0 \in Int
    BY SeedRight
  <2> HIDE DEF x0
  <2> QED
    BY <2>1, SMT
<1>1. a \in InversePairs
  <2> HIDE DEF x0
  <2>1. x0 % m \in Int
    BY <1>0, SMT
  <2> DEFINE e == 1 - x0 * v
  <2>2. e \in Int
    BY <1>0
  <2> HIDE DEF e
  <2>3. e % m \in Int
    BY <2>2, SMT
  <2>4. a = [x |-> x0 % m, y |-> e % m]
    BY DEF e
  <2> QED
    BY <2>1, <2>3, <2>4 DEF InversePairs
<1>2. Closed(F, InversePairs)
  <2> SUFFICES ASSUME NEW j \in Nat, NEW u \in InversePairs PROVE F[j][u] \in InversePairs
    BY DEF Closed
  <2>1. u.x \in Int /\ u.y \in Int
    BY DEF InversePairs
  <2> DEFINE p == u.x * (u.y + 1)
             q == u.y * u.y
  <2>2. p \in Int /\ q \in Int
    BY <2>1, SMT
  <2>3. F[j][u] = [x |-> p % m, y |-> q % m]
    BY DEF InverseStepping
  <2> HIDE DEF p, q, F
  <2>4. p % m \in Int /\ q % m \in Int
    BY <2>2, SMT
  <2> QED
    BY <2>3, <2>4 DEF InversePairs
<1>3. PICK f : IsRecursion(f, InversePairs, a, steps, F)
  <2> HIDE DEF a, F
  <2> QED
    BY <1>1, <1>2, RecursionExists
<1>4. f = [r \in 0..steps |->
        IF r = 0 THEN [x |-> InvertSeed(v) % m, y |-> (1 - InvertSeed(v) * v) % m]
        ELSE [x |-> (f[r - 1].x * (f[r - 1].y + 1)) % m,
              y |-> (f[r - 1].y * f[r - 1].y) % m]]
  <2>1. f \in [0..steps -> InversePairs] /\ f[0] = a /\ \A j \in 1..steps : f[j] = F[j][f[j - 1]]
    BY <1>3 DEF IsRecursion
  <2>2. ASSUME NEW r \in 0..steps
        PROVE  f[r] = IF r = 0 THEN [x |-> InvertSeed(v) % m, y |-> (1 - InvertSeed(v) * v) % m]
                      ELSE [x |-> (f[r - 1].x * (f[r - 1].y + 1)) % m,
                            y |-> (f[r - 1].y * f[r - 1].y) % m]
    <3>1. CASE r = 0
      BY <2>1, <3>1
    <3>2. CASE r # 0
      <4>1. r \in Nat /\ r \in 1..steps /\ r - 1 \in 0..steps
        BY <3>2, SMT
      <4>2. f[r] = F[r][f[r - 1]] /\ f[r - 1] \in InversePairs
        BY <2>1, <4>1
      <4>3. F[r][f[r - 1]] = [x |-> (f[r - 1].x * (f[r - 1].y + 1)) % m,
                              y |-> (f[r - 1].y * f[r - 1].y) % m]
        BY <4>1, <4>2 DEF InverseStepping
      <4> QED
        BY <3>2, <4>2, <4>3
    <3> QED
      BY <3>1, <3>2
  <2> QED
    BY <2>1, <2>2
<1>5. s = [r \in 0..steps |->
        IF r = 0 THEN [x |-> InvertSeed(v) % m, y |-> (1 - InvertSeed(v) * v) % m]
        ELSE [x |-> (s[r - 1].x * (s[r - 1].y + 1)) % m,
              y |-> (s[r - 1].y * s[r - 1].y) % m]]
  BY <1>4 DEF InverseRun
<1>6. s[0] = a
  <2>1. 0 \in 0..steps
    BY SMT
  <2> QED
    BY <1>5, <2>1
<1>7. ASSUME NEW r \in 1..steps
      PROVE  s[r] = [x |-> (s[r - 1].x * (s[r - 1].y + 1)) % m,
                     y |-> (s[r - 1].y * s[r - 1].y) % m]
  <2>1. r \in 0..steps /\ r # 0
    BY SMT
  <2> QED
    BY <1>5, <2>1
<1> QED
  BY <1>6, <1>7

\* After r steps, 5 * 2^r bits are right.
RightAfter(u, r, v, bw, wb) ==
    /\ u.x \in Int /\ u.y \in Int /\ ErrorOf(u.x, u.y, v, B)
    /\ \E j \in 0..wb : BitsRight(u.y, j, bw) /\ (5 * PowerOfTwo(r) <= j \/ j = wb)

\* After enough steps the first of the pair is the inverse.
LEMMA InverseRight ==
    ASSUME NEW bw, NEW wb, NEW top, BitTable(bw, wb, top), wb <= top,
           NEW v \in Nat, v % 2 = 1, NEW steps \in Nat, wb <= 5 * PowerOfTwo(steps),
           NEW s, s = InverseRun(v, B, steps)
    PROVE  s[steps].x \in Int /\ (s[steps].x * v) % B = 1
<1>1. B \in Nat /\ B >= 2 /\ B > 0 /\ wb \in Nat /\ wb > 0 /\ bw[wb] = B /\ top \in Nat
  BY BitTop, BaseFacts, SMT
<1>2. /\ s[0] = [x |-> InvertSeed(v) % B, y |-> (1 - InvertSeed(v) * v) % B]
      /\ \A r \in 1..steps : s[r] = [x |-> (s[r - 1].x * (s[r - 1].y + 1)) % B,
                                     y |-> (s[r - 1].y * s[r - 1].y) % B]
  BY <1>1, InverseRuns
<1> DEFINE S == {r \in Nat : r <= steps => RightAfter(s[r], r, v, bw, wb)}
<1>3. 0 \in S
  <2> DEFINE x == InvertSeed(v) % B
             y == (1 - InvertSeed(v) * v) % B
             j == IF 5 <= wb THEN 5 ELSE wb
  <2>1. /\ x \in Int /\ y \in Int /\ ErrorOf(x, y, v, B)
        /\ j \in 0..wb /\ BitsRight(y, j, bw)
    BY SeedError
  <2>2. s[0].x = x /\ s[0].y = y
    BY <1>2
  <2>3. 5 * PowerOfTwo(0) <= j \/ j = wb
    <3>1. PowerOfTwo(0) = 1
      BY PowerDoubles
    <3>2. 5 * PowerOfTwo(0) = 5
      BY <3>1, SMT
    <3> QED
      BY <3>2, <1>1, SMT
  <2> HIDE DEF x, y, j
  <2>4. RightAfter(s[0], 0, v, bw, wb)
    BY <2>1, <2>2, <2>3 DEF RightAfter
  <2> QED
    BY <2>4
<1>4. ASSUME NEW r \in S PROVE r + 1 \in S
  <2> SUFFICES ASSUME r + 1 <= steps PROVE RightAfter(s[r + 1], r + 1, v, bw, wb)
    BY SMT
  <2>1. r \in Nat /\ r <= steps /\ r + 1 \in 1..steps /\ (r + 1) - 1 = r
    BY SMT
  <2>2. RightAfter(s[r], r, v, bw, wb)
    BY <2>1
  <2> DEFINE x == s[r].x
             y == s[r].y
             x1 == (x * (y + 1)) % B
             y1 == (y * y) % B
  <2>3. s[r + 1] = [x |-> x1, y |-> y1]
    BY <1>2, <2>1
  <2>4. x \in Int /\ y \in Int /\ ErrorOf(x, y, v, B)
    BY <2>2 DEF RightAfter
  <2>5. PICK j \in 0..wb : BitsRight(y, j, bw) /\ (5 * PowerOfTwo(r) <= j \/ j = wb)
    BY <2>2 DEF RightAfter
  <2> DEFINE j1 == IF 2 * j <= wb THEN 2 * j ELSE wb
  <2>6. /\ x1 \in Int /\ y1 \in Int /\ ErrorOf(x1, y1, v, B)
        /\ j1 \in 0..wb /\ BitsRight(y1, j1, bw)
    <3> HIDE DEF x, y
    <3>1. PairStep(x1, y1, j1, x, y, j, wb)
      BY DEF PairStep
    <3> HIDE DEF x1, y1, j1
    <3> QED
      BY <2>4, <2>5, <3>1, StepError
  <2>7. 5 * PowerOfTwo(r + 1) <= j1 \/ j1 = wb
    <3>1. PowerOfTwo(r + 1) = 2 * PowerOfTwo(r) /\ PowerOfTwo(r) \in Nat
      BY <2>1, PowerDoubles
    <3> DEFINE g == PowerOfTwo(r)
               h == PowerOfTwo(r + 1)
    <3>2. h = 2 * g /\ g \in Nat /\ (5 * g <= j \/ j = wb) /\ j \in Nat /\ j <= wb
      BY <3>1, <2>5, <1>1, SMT
    <3> HIDE DEF g, h
    <3>3. 5 * h <= j1 \/ j1 = wb
      BY <3>2, <1>1, SMT
    <3> QED
      BY <3>3 DEF h
  <2>8. s[r + 1].x = x1 /\ s[r + 1].y = y1
    BY <2>3
  <2> HIDE DEF x1, y1, j1
  <2> QED
    BY <2>6, <2>7, <2>8 DEF RightAfter
<1>5. S = Nat
  <2> HIDE DEF S
  <2>1. S \in SUBSET Nat
    BY DEF S
  <2> QED
    BY <2>1, <1>3, <1>4, SetInduction
<1>6. RightAfter(s[steps], steps, v, bw, wb)
  BY <1>5
<1> DEFINE x == s[steps].x
           y == s[steps].y
<1>7. x \in Int /\ y \in Int /\ ErrorOf(x, y, v, B)
  BY <1>6 DEF RightAfter
<1>8. PICK j \in 0..wb : BitsRight(y, j, bw) /\ (5 * PowerOfTwo(steps) <= j \/ j = wb)
  BY <1>6 DEF RightAfter
<1> HIDE DEF x, y
<1>9. j = wb
  <2>1. PowerOfTwo(steps) \in Nat
    BY PowerDoubles
  <2> QED
    BY <2>1, <1>1, <1>8, SMT
<1>10. PICK e \in Int : y = B * e
  BY <1>1, <1>8, <1>9 DEF BitsRight
<1>11. PICK d \in Int : x * v = 1 - y + B * d
  BY <1>7 DEF ErrorOf
<1> DEFINE p == x * v
           q == d - e
<1>12. p = B * q + 1 /\ p \in Int /\ q \in Int /\ 1 \in 0..(B - 1)
  <2>1. B * (d - e) = B * d - B * e /\ B * d \in Int /\ B * e \in Int /\ d - e \in Int
    BY <1>1, SMT
  <2>2. p = 1 - B * e + B * d
    BY <1>10, <1>11
  <2>3. p \in Int
    BY <1>7, SMT
  <2> DEFINE s1 == B * e
             s2 == B * d
             s3 == B * q
  <2>4. p = 1 - s1 + s2 /\ s3 = s2 - s1 /\ s1 \in Int /\ s2 \in Int
    BY <2>1, <2>2
  <2> HIDE DEF p, q, s1, s2, s3
  <2>5. p = s3 + 1 /\ 1 \in 0..(B - 1)
    BY <2>3, <2>4, <1>1, SMT
  <2> QED
    BY <2>1, <2>3, <2>5 DEF s3, q
<1> HIDE DEF p, q
<1>13. p % B = 1
  BY <1>1, <1>12, DivisionIs
<1> QED
  BY <1>7, <1>13 DEF p, x

\* Enough steps are found.
EnoughSteps(r, k) == 5 * PowerOfTwo(r) >= k /\ (r = 0 \/ 5 * PowerOfTwo(r - 1) < k)

\* There is such a number for every word size.
LEMMA StepsExist ==
    ASSUME NEW k \in Nat
    PROVE  \E r \in 0..k : EnoughSteps(r, k)
<1> DEFINE T == {n \in Nat : PowerOfTwo(n) > n}
<1>1. T = Nat
  <2>1. 0 \in T
    BY PowerDoubles, SMT
  <2>2. ASSUME NEW n \in T PROVE n + 1 \in T
    <3>1. n \in Nat /\ PowerOfTwo(n) > n /\ PowerOfTwo(n) \in Nat /\ PowerOfTwo(n + 1) = 2 * PowerOfTwo(n)
      BY PowerDoubles
    <3> QED
      BY <3>1, SMT
  <2> HIDE DEF T
  <2>3. T \in SUBSET Nat
    BY DEF T
  <2> QED
    BY <2>1, <2>2, <2>3, SetInduction
<1>2. PowerOfTwo(k) > k /\ PowerOfTwo(k) \in Nat
  <2>1. k \in T
    BY <1>1
  <2> QED
    BY <2>1, PowerDoubles
<1> HIDE DEF T
<1> DEFINE S == {n \in Nat : n <= k /\ 5 * PowerOfTwo(n) >= k => \E r \in 0..k : EnoughSteps(r, k)}
<1>3. 0 \in S
  <2>1. ASSUME 5 * PowerOfTwo(0) >= k PROVE \E r \in 0..k : EnoughSteps(r, k)
    <3>1. 0 \in 0..k /\ EnoughSteps(0, k)
      BY <2>1, SMT DEF EnoughSteps
    <3> QED
      BY <3>1
  <2> QED
    BY <2>1
<1>4. ASSUME NEW n \in S PROVE n + 1 \in S
  <2> SUFFICES ASSUME n + 1 <= k, 5 * PowerOfTwo(n + 1) >= k PROVE \E r \in 0..k : EnoughSteps(r, k)
    BY SMT
  <2>1. n \in Nat /\ n <= k /\ n + 1 \in 0..k /\ (n + 1) - 1 = n
    BY SMT
  <2>2. PowerOfTwo(n) \in Nat
    BY <2>1, PowerDoubles
  <2>3. CASE 5 * PowerOfTwo(n) >= k
    BY <2>1, <2>3
  <2>4. CASE 5 * PowerOfTwo(n) < k
    <3>1. EnoughSteps(n + 1, k)
      BY <2>1, <2>4 DEF EnoughSteps
    <3> QED
      BY <3>1, <2>1
  <2> QED
    BY <2>2, <2>3, <2>4, SMT
<1>5. S = Nat
  <2> HIDE DEF S
  <2>1. S \in SUBSET Nat
    BY DEF S
  <2> QED
    BY <2>1, <1>3, <1>4, SetInduction
<1>6. k \in S /\ 5 * PowerOfTwo(k) >= k
  BY <1>2, <1>5, SMT
<1> QED
  BY <1>6

----------------------------------------------------------------------------
(* One digit of an exact division, from the low end.                       *)

\* The weights of the two lowest limbs.
LEMMA FirstWeights == W[0] = 1 /\ W[1] = B
<1>1. N \in Nat /\ N >= 1 /\ B \in Nat
  BY BaseFacts
<1>2. 0 \in 0..(2 * N) /\ 0 < 2 * N
  BY <1>1, SMT
<1>3. W[0 + 1] = B * W[0] /\ W[0] = 1
  BY <1>2, WeightFacts, WeightAssumption
<1> QED
  BY <1>1, <1>3, SMT

\* Storing a word into a limb, whatever the number of limbs.
LEMMA LimbStored ==
    ASSUME NEW x \in Nat, NEW k \in Nat, k + 1 <= 2 * N, NEW v \in Word,
           NEW z, z = SetLimb(x, k, v)
    PROVE  /\ z \in Nat
           /\ z \div W[k + 1] = x \div W[k + 1]
           /\ z % W[k + 1] = (x % W[k]) + W[k] * v
           /\ z % W[k] = x % W[k]
           /\ z = x + (v - Limb(x, k)) * W[k]
<1>1. W[1] = B /\ B \in Nat
  BY FirstWeights, BaseFacts
<1>2. WindowOf(x, k, 1) = Limb(x, k)
  BY <1>1 DEF WindowOf, Limb
<1>3. v \in Nat /\ v < W[1]
  BY <1>1, SMT DEF Word
<1>4. z = x + (v - Limb(x, k)) * W[k]
  BY DEF SetLimb
<1>5. z = x + (v - WindowOf(x, k, 1)) * W[k]
  BY <1>2, <1>4
<1>6. /\ z \in Nat
      /\ z \div W[k + 1] = x \div W[k + 1]
      /\ z % W[k + 1] = (x % W[k]) + W[k] * v
      /\ z % W[k] = x % W[k]
  BY <1>3, <1>5, WindowStored
<1> QED
  BY <1>4, <1>6

\* The quotient limb that clears a limb l of the dividend.
ClearedBy(q, l, inv, y) ==
    /\ l \in Word /\ inv \in Int /\ y \in Nat
    /\ (inv * Limb(y, 0)) % B = 1
    /\ q = (l * inv) % B

\* A word times the inverse of the lowest limb, times the divisor, has that word for its
\* lowest limb.
LEMMA LimbCleared ==
    ASSUME NEW q, NEW l, NEW inv, NEW y, ClearedBy(q, l, inv, y)
    PROVE  q \in Word /\ (q * y) % B = l
<1>1. B \in Nat /\ B >= 2 /\ B > 0
  BY BaseFacts, SMT
<1>2. /\ l \in Nat /\ l \in 0..(B - 1) /\ inv \in Int /\ y \in Nat
      /\ (inv * Limb(y, 0)) % B = 1
      /\ q = (l * inv) % B
  BY <1>1, SMT DEF ClearedBy, Word
<1> DEFINE y0 == Limb(y, 0)
           h  == y \div B
           p  == inv * y0
           a  == p \div B
           e  == l * inv
           g  == e \div B
<1>3. y = B * h + y0 /\ y0 \in Int /\ h \in Int
  <2>1. y \div 1 = y
    BY <1>2, SMT
  <2>2. y0 = y % B
    BY <2>1, FirstWeights DEF Limb
  <2> HIDE DEF y0
  <2> QED
    BY <2>2, <1>1, <1>2, DivMod, SMT
<1> HIDE DEF y0, h
<1>4. p \in Int /\ e \in Int
  BY <1>2, <1>3, SMT
<1>5. p = B * a + 1 /\ a \in Int
  <2>1. p % B = 1
    BY <1>2 DEF y0
  <2> HIDE DEF p
  <2> QED
    BY <2>1, <1>1, <1>4, DivMod, SMT
<1>6. e = B * g + q /\ g \in Int /\ q \in Nat /\ q < B
  <2>1. q = e % B
    BY <1>2
  <2> HIDE DEF e
  <2> QED
    BY <2>1, <1>1, <1>4, DivMod, SMT
<1> HIDE DEF a, g
<1>7. q \in Word
  BY <1>1, <1>6, SMT DEF Word
<1> DEFINE c  == a + inv * h
           d  == l * c - g * y
           qy == q * y
<1>8. c \in Int /\ d \in Int /\ qy \in Int
  BY <1>2, <1>3, <1>5, <1>6, SMT
<1>9. inv * y = 1 + B * c
  <2>1. inv * (B * h + y0) = B * (inv * h) + inv * y0
    BY <1>1, <1>2, <1>3, SMT
  <2>2. B * (a + inv * h) = B * a + B * (inv * h) /\ B * (inv * h) \in Int /\ B * a \in Int
    BY <1>1, <1>2, <1>3, <1>5, SMT
  <2> DEFINE t1 == B * (inv * h)
             t2 == B * a
             t3 == B * c
             s  == inv * y
  <2>3. s = t1 + p /\ t3 = t2 + t1 /\ p = t2 + 1 /\ t1 \in Int /\ t2 \in Int
    BY <2>1, <2>2, <1>3, <1>5
  <2> HIDE DEF s, t1, t2, t3, p
  <2>4. s = 1 + t3
    BY <2>3, SMT
  <2> QED
    BY <2>4 DEF s, t3
<1> HIDE DEF c
<1>10. qy = B * d + l
  <2>1. e * y = B * (g * y) + qy
    <3>1. (B * g + q) * y = B * (g * y) + q * y
      BY <1>1, <1>2, <1>6, SMT
    <3> QED
      BY <3>1, <1>6
  <2>2. e * y = l + B * (l * c)
    <3>1. e * y = l * (inv * y)
      BY <1>2, SMT
    <3>2. l * (1 + B * c) = l + B * (l * c)
      BY <1>1, <1>2, <1>8, SMT
    <3> QED
      BY <3>1, <3>2, <1>9
  <2>3. B * d = B * (l * c) - B * (g * y) /\ B * (l * c) \in Int /\ B * (g * y) \in Int
    <3> DEFINE f1 == l * c
               f2 == g * y
    <3>1. f1 \in Int /\ f2 \in Int
      BY <1>2, <1>6, <1>8, SMT
    <3> HIDE DEF f1, f2
    <3>2. B * (f1 - f2) = B * f1 - B * f2 /\ B * f1 \in Int /\ B * f2 \in Int
      BY <3>1, <1>1, SMT
    <3> QED
      BY <3>2 DEF f1, f2
  <2> DEFINE t1 == B * (l * c)
             t2 == B * (g * y)
             t3 == B * d
             ey == e * y
  <2>4. ey = t2 + qy /\ ey = l + t1 /\ t3 = t1 - t2 /\ t1 \in Int /\ t2 \in Int
    BY <2>1, <2>2, <2>3
  <2> HIDE DEF t1, t2, t3, ey, qy, d
  <2>5. qy = t3 + l
    BY <2>4, <1>2, <1>8, SMT
  <2> QED
    BY <2>5 DEF t3
<1> HIDE DEF qy, d
<1>11. qy % B = l
  BY <1>1, <1>2, <1>8, <1>10, DivisionIs
<1> QED
  BY <1>7, <1>11 DEF qy

\* The digit q is stored in limb k of x, and q * y, without its low limb, taken
\* from the r - 1 limbs above: sub is what is taken, b what that borrows.
HenselAt(x, k, r, y, q, sub, b, z) ==
    /\ x \in Nat /\ k \in Nat /\ r \in Nat /\ r >= 1 /\ k + r <= 2 * N
    /\ y \in Nat /\ y < W[r] /\ q \in Word
    /\ (q * y) % B = Limb(x, k) /\ sub = (q * y) \div B
    /\ b = IF WindowOf(x, k + 1, r - 1) < sub % W[r - 1] THEN 1 ELSE 0
    /\ z = SetLimb(x, k, q)
             + (((WindowOf(x, k + 1, r - 1) - sub) % W[r - 1])
                  - WindowOf(SetLimb(x, k, q), k + 1, r - 1)) * W[k + 1]

\* The parts of that.
LEMMA HenselParts ==
    ASSUME NEW x, NEW k, NEW r, NEW y, NEW q, NEW sub, NEW b, NEW z,
           HenselAt(x, k, r, y, q, sub, b, z)
    PROVE  /\ x \in Nat /\ k \in Nat /\ r \in Nat /\ r >= 1 /\ k + r <= 2 * N
           /\ y \in Nat /\ q \in Word /\ q \in Nat /\ q < B
           /\ sub \in Nat /\ q * y = B * sub + Limb(x, k) /\ Limb(x, k) \in Nat
           /\ sub \div W[r - 1] \in Nat /\ (sub \div W[r - 1]) + 2 <= B
           /\ b \in 0..1
           /\ (WindowOf(x, k + 1, r - 1) - sub) % W[r - 1]
                = WindowOf(x, k + 1, r - 1) - sub + ((sub \div W[r - 1]) + b) * W[r - 1]
           /\ (WindowOf(x, k + 1, r - 1) - sub) % W[r - 1] \in Nat
           /\ (WindowOf(x, k + 1, r - 1) - sub) % W[r - 1] < W[r - 1]
<1>0. /\ x \in Nat /\ k \in Nat /\ r \in Nat /\ r >= 1 /\ k + r <= 2 * N
      /\ y \in Nat /\ y < W[r] /\ q \in Word
      /\ (q * y) % B = Limb(x, k) /\ sub = (q * y) \div B
      /\ b = IF WindowOf(x, k + 1, r - 1) < sub % W[r - 1] THEN 1 ELSE 0
  BY DEF HenselAt
<1>1. B \in Nat /\ B >= 2 /\ B > 0 /\ q \in Nat /\ q < B /\ N \in Nat
  BY <1>0, BaseFacts, SMT DEF Word
<1> DEFINE n   == r - 1
           win == WindowOf(x, k + 1, n)
           m   == W[n]
           qy  == q * y
           l   == Limb(x, k)
           su  == sub \div m
           s0  == sub % m
<1>2. n \in Nat /\ k + 1 \in Nat /\ (k + 1) + n <= 2 * N /\ n \in 0..(2 * N) /\ n < 2 * N /\ n + 1 = r
  BY <1>0, <1>1, SMT
<1>3. m \in Nat /\ m > 0 /\ W[r] = B * m
  BY <1>2, WeightFacts
<1>4. win \in Nat /\ win < m
  BY <1>0, <1>2, WindowParts
<1>5. qy \in Nat
  BY <1>0, <1>1, SMT
<1>6. qy = B * sub + l /\ sub \in Nat /\ l \in Nat
  <2>1. qy % B = l /\ sub = qy \div B
    BY <1>0
  <2> HIDE DEF qy, l
  <2> QED
    BY <2>1, <1>1, <1>5, DivMod, SMT
<1>7. sub = m * su + s0 /\ su \in Nat /\ s0 \in Nat /\ s0 < m
  <2> HIDE DEF m
  <2> QED
    BY <1>3, <1>6, DivMod, SMT
<1> HIDE DEF su, s0, n
<1>8. sub < (B - 1) * m
  <2> DEFINE mm == (B - 1) * m
             c  == B - 1
  <2>1. c \in Nat /\ q <= c /\ mm \in Int
    BY <1>1, <1>3, SMT
  <2>2. y * q <= y * c
    <3> HIDE DEF c
    <3> QED
      BY <2>1, <1>0, <1>1, Monotone, SMT
  <2>3. c * y <= c * (B * m) /\ c > 0
    <3>1. y <= B * m /\ B * m \in Int /\ y \in Int
      BY <1>0, <1>1, <1>3, SMT
    <3>2. c > 0
      BY <1>1, SMT
    <3> HIDE DEF c
    <3> DEFINE bm == B * m
    <3>3. y <= bm /\ bm \in Int
      BY <3>1
    <3> HIDE DEF bm
    <3>4. c * y <= c * bm
      BY <3>1, <3>3, <2>1, Monotone
    <3> QED
      BY <3>2, <3>4 DEF bm
  <2>4. c * y < c * (B * m)
    <3> DEFINE bm == B * m
    <3>1. y + 1 <= bm /\ bm \in Int /\ y + 1 \in Int
      BY <1>0, <1>1, <1>3, SMT
    <3> HIDE DEF bm, c
    <3> DEFINE y1 == y + 1
    <3>2. y1 <= bm /\ y1 \in Int
      BY <3>1
    <3> HIDE DEF y1
    <3>3. c * y1 <= c * bm
      BY <3>1, <3>2, <2>1, Monotone
    <3>4. c * y1 = c * y + c /\ c * y \in Int /\ c * bm \in Int
      BY <3>1, <2>1, <1>0, SMT DEF y1
    <3> DEFINE s1 == c * y1
               s2 == c * y
               s3 == c * bm
    <3>5. s1 <= s3 /\ s1 = s2 + c /\ s2 \in Int /\ s3 \in Int /\ c > 0 /\ c \in Nat
      BY <3>3, <3>4, <2>3, <2>1
    <3> HIDE DEF s1, s2, s3
    <3>6. s2 < s3
      BY <3>5, SMT
    <3> QED
      BY <3>6 DEF s2, s3, bm
  <2>5. y * q = qy /\ y * c = c * y /\ c * (B * m) = B * mm /\ B * sub \in Int /\ B * mm \in Int /\ c * y \in Int
    BY <2>1, <1>0, <1>1, <1>3, <1>6, SMT
  <2> DEFINE s1 == c * y
             s2 == B * mm
             s3 == B * sub
  <2>6. qy <= s1 /\ s1 < s2 /\ qy = s3 + l /\ s1 \in Int /\ s2 \in Int /\ s3 \in Int
    BY <2>2, <2>4, <2>5, <1>6
  <2> HIDE DEF s1, s2, s3, qy, l, mm
  <2>7. s3 < s2
    BY <2>6, <1>5, <1>6, SMT
  <2>8. B * sub < B * mm
    BY <2>7 DEF s2, s3
  <2>9. sub < mm
    BY <2>8, <2>1, <1>1, <1>6, Cancel, SMT
  <2> QED
    BY <2>9 DEF mm
<1>9. su + 2 <= B
  <2> DEFINE c == B - 1
             s1 == m * su
             s2 == m * c
  <2>1. c \in Int /\ (B - 1) * m = s2 /\ s1 \in Int /\ s2 \in Int
    <3>1. c \in Int
      BY <1>1, SMT
    <3> HIDE DEF c, m
    <3>2. c * m = m * c /\ m * su \in Int /\ m * c \in Int
      BY <3>1, <1>3, <1>7, SMT
    <3> QED
      BY <3>1, <3>2 DEF c
  <2>2. sub < s2 /\ sub = s1 + s0
    BY <2>1, <1>7, <1>8
  <2> HIDE DEF s1, s2
  <2>3. s1 < s2
    BY <2>1, <2>2, <1>7, SMT
  <2>4. m * su < m * c
    BY <2>3 DEF s1, s2
  <2> HIDE DEF c, m
  <2>5. su < c
    BY <2>1, <2>4, <1>3, <1>7, Cancel, SMT
  <2> QED
    BY <2>5, <1>1, <1>7, SMT DEF c
<1>10. b = (IF win < s0 THEN 1 ELSE 0) /\ b \in 0..1
  BY <1>0, SMT DEF s0, n
<1> DEFINE v == win - s0 + b * m
           k1 == -su - b
           d == win - sub
<1>11. v \in 0..(m - 1) /\ v \in Nat /\ v < m
  <2> HIDE DEF win, m
  <2>1. CASE win < s0
    <3>1. b = 1
      BY <2>1, <1>10
    <3>2. v = win - s0 + m
      BY <3>1, <1>3, <1>4, <1>7, SMT
    <3> QED
      BY <2>1, <3>2, <1>3, <1>4, <1>7, SMT
  <2>2. CASE ~(win < s0)
    <3>1. b = 0
      BY <2>2, <1>10
    <3>2. v = win - s0
      BY <3>1, <1>3, <1>4, <1>7, SMT
    <3> QED
      BY <2>2, <3>2, <1>3, <1>4, <1>7, SMT
  <2> QED
    BY <2>1, <2>2
<1>12. d = m * k1 + v /\ k1 \in Int /\ d \in Int
  <2> HIDE DEF win, m
  <2>1. m * (-su - b) = -(m * su) - b * m /\ m * su \in Int /\ b * m \in Int /\ b \in Int
    BY <1>3, <1>7, <1>10, SMT
  <2> DEFINE s1 == m * su
             s2 == b * m
             s3 == m * k1
  <2>2. s3 = -s1 - s2 /\ s1 \in Int /\ s2 \in Int /\ sub = s1 + s0
    BY <2>1, <1>7
  <2>3. k1 \in Int /\ d \in Int
    BY <2>1, <1>4, <1>6, <1>7, SMT
  <2>4. v = win - s0 + s2 /\ d = win - sub
    OBVIOUS
  <2> HIDE DEF s1, s2, s3, v, d, k1
  <2>5. d = s3 + v
    BY <2>2, <2>4, <1>4, <1>6, <1>7, SMT
  <2> QED
    BY <2>3, <2>5 DEF s3
<1>13. d % m = v
  <2> HIDE DEF v, k1, d, m
  <2> QED
    BY <1>3, <1>11, <1>12, DivisionIs
<1>14. v = win - sub + (su + b) * m
  <2> HIDE DEF win, m
  <2>1. (su + b) * m = m * su + b * m /\ m * su \in Int /\ b * m \in Int
    BY <1>3, <1>7, <1>10, SMT
  <2> DEFINE s1 == m * su
             s2 == b * m
             s3 == (su + b) * m
  <2>2. s3 = s1 + s2 /\ s1 \in Int /\ s2 \in Int /\ sub = s1 + s0 /\ v = win - s0 + s2
    BY <2>1, <1>7
  <2>3. win \in Int /\ sub \in Int /\ s0 \in Int
    BY <1>4, <1>6, <1>7, SMT
  <2> DEFINE sb == sub
             wi == win
  <2>4. s3 = s1 + s2 /\ s1 \in Int /\ s2 \in Int /\ sb = s1 + s0 /\ v = wi - s0 + s2
        /\ wi \in Int /\ sb \in Int /\ s0 \in Int
    BY <2>2, <2>3
  <2> HIDE DEF s1, s2, s3, v, sb, wi
  <2>5. v = wi - sb + s3
    BY <2>4, SMT
  <2> QED
    BY <2>5 DEF s3, sb, wi
<1>15. d % m = win - sub + (su + b) * m /\ d % m \in Nat /\ d % m < m
  BY <1>11, <1>13, <1>14
<1> HIDE DEF v, k1
<1> QED
  BY <1>0, <1>1, <1>6, <1>7, <1>9, <1>10, <1>15 DEF su, n

\* What is stored there: the sum of the quotient limbs' products and the limbs
\* not yet cleared grows by what is to be subtracted above the window.
LEMMA HenselWindow ==
    ASSUME NEW x, NEW k, NEW r, NEW y, NEW q, NEW sub, NEW b, NEW z,
           HenselAt(x, k, r, y, q, sub, b, z),
           NEW t, t = k + r, NEW o, o = (sub \div W[r - 1]) + b
    PROVE  /\ z \in Nat /\ z \div W[t] = x \div W[t]
           /\ z % W[k + 1] = (x % W[k]) + W[k] * q
           /\ y * (z % W[k + 1]) + (z - (z % W[k + 1]))
                = y * (x % W[k]) + (x - (x % W[k])) + o * W[t]
<1> DEFINE n   == r - 1
           win == WindowOf(x, k + 1, n)
           m   == W[n]
           l   == Limb(x, k)
           v   == (win - sub) % m
           x1  == SetLimb(x, k, q)
<1>1. /\ x \in Nat /\ k \in Nat /\ r \in Nat /\ r >= 1 /\ k + r <= 2 * N
      /\ y \in Nat /\ q \in Word /\ q \in Nat /\ q < B
      /\ sub \in Nat /\ q * y = B * sub + l /\ l \in Nat
      /\ sub \div m \in Nat /\ b \in 0..1
      /\ v = win - sub + o * m
      /\ v \in Nat /\ v < m
  BY HenselParts
<1>2. z = x1 + (v - WindowOf(x1, k + 1, n)) * W[k + 1]
  BY DEF HenselAt
<1>3. /\ n \in Nat /\ k + 1 \in Nat /\ (k + 1) + n <= 2 * N /\ (k + 1) + n = t /\ k + 1 <= 2 * N
      /\ k \in 0..(2 * N) /\ k < 2 * N /\ t \in Nat /\ t <= 2 * N /\ o \in Nat
  BY <1>1, BaseFacts, SMT
<1> DEFINE k1 == k + 1
<1>4. k1 \in Nat /\ k1 + n <= 2 * N /\ k1 + n = t /\ k1 <= 2 * N /\ t = k1 + n
  BY <1>3
<1>5. /\ x1 \in Nat
      /\ x1 \div W[k1] = x \div W[k1]
      /\ x1 % W[k1] = (x % W[k]) + W[k] * q
      /\ x1 = x + (q - l) * W[k]
  BY <1>1, <1>3, LimbStored
<1>6. WindowOf(x1, k1, n) = win
  BY <1>5 DEF WindowOf
<1>7. z = x1 + (v - WindowOf(x1, k1, n)) * W[k1]
  BY <1>2
<1> HIDE DEF v, x1, n, k1, l, win, m
<1>8. /\ z \in Nat /\ z \div W[k1 + n] = x1 \div W[k1 + n] /\ z % W[k1] = x1 % W[k1]
  <2>1. v < W[n]
    BY <1>1 DEF m
  <2> QED
    BY <1>1, <1>3, <1>4, <1>5, <1>7, <2>1, WindowStored
<1>9. /\ W[t] = W[k1] * W[n] /\ W[k1] \in Nat /\ W[k1] > 0 /\ W[n] \in Nat /\ W[n] > 0 /\ W[t] \in Nat
  BY <1>3, <1>4, WeightsAdd
<1>10. W[k1] = B * W[k] /\ W[k] \in Nat /\ B \in Nat
  <2>1. k \in 0..(2 * N) /\ k < 2 * N
    BY <1>3
  <2>2. W[k + 1] = B * W[k] /\ W[k] \in Nat
    BY <2>1, WeightFacts
  <2> QED
    BY <2>2, BaseFacts DEF k1
<1>11. z \div W[t] = x \div W[t]
  <2> DEFINE wk1 == W[k1]
             wn  == W[n]
             wt1 == W[t]
  <2>3. x1 \in Nat /\ x \in Nat /\ wk1 \in Nat /\ wk1 > 0 /\ wn \in Nat /\ wn > 0 /\ wt1 = wk1 * wn
    BY <1>1, <1>5, <1>9
  <2> HIDE DEF wk1, wn, wt1
  <2>4. (x1 \div wk1) \div wn = x1 \div wt1
    BY <2>3, DivTwice
  <2>5. (x \div wk1) \div wn = x \div wt1
    BY <2>3, DivTwice
  <2>1. (x1 \div W[k1]) \div W[n] = x1 \div W[t]
    BY <2>4 DEF wk1, wn, wt1
  <2>2. (x \div W[k1]) \div W[n] = x \div W[t]
    BY <2>5 DEF wk1, wn, wt1
  <2> QED
    BY <2>1, <2>2, <1>4, <1>5, <1>8
<1> DEFINE wk == W[k]
           wt == W[t]
           xl == x % wk
           zl == z % W[k1]
<1>12. zl = xl + wk * q
  BY <1>5, <1>8
<1>13. wk \in Nat /\ wt \in Nat /\ xl \in Int /\ win \in Int /\ m \in Nat
  <2>1. wk \in Nat /\ wt \in Nat /\ wk > 0
    <3>1. k \in 0..(2 * N)
      BY <1>3
    <3> QED
      BY <3>1, <1>9, <1>10, WeightFacts
  <2>2. xl \in Int
    <3> HIDE DEF wk
    <3> QED
      BY <2>1, <1>1, DivMod, SMT
  <2>3. win \in Int
    BY <1>1, <1>3, <1>4, WindowParts DEF win, k1
  <2> QED
    BY <2>1, <2>2, <2>3, <1>9 DEF m
<1>14. z = x + (q - l) * wk + (o * m - sub) * (B * wk)
  <2>1. v - win = o * m - sub
    <3> DEFINE om == o * m
    <3>1. om \in Int /\ v = win - sub + om
      BY <1>1, <1>3, <1>13, SMT
    <3> HIDE DEF om
    <3>2. v - win = om - sub
      BY <3>1, <1>1, <1>13, SMT
    <3> QED
      BY <3>2 DEF om
  <2> QED
    BY <2>1, <1>5, <1>6, <1>7, <1>10
<1>15. wt = m * (B * wk)
  <2>1. W[t] = (B * W[k]) * m
    BY <1>9, <1>10 DEF m
  <2> DEFINE bw == B * W[k]
  <2>2. bw \in Int /\ m \in Int /\ W[t] = bw * m
    BY <2>1, <1>10, <1>13, SMT
  <2> HIDE DEF bw
  <2>3. bw * m = m * bw
    BY <2>2, SMT
  <2> QED
    BY <2>2, <2>3 DEF bw
<1> HIDE DEF wk, wt, xl, zl
<1> DEFINE qk == q * wk
           a  == o * wt
           c  == q * y
           p  == c * wk
<1>16. z = x + qk - p + a
  <2> DEFINE s1 == l * wk
             s2 == sub * (B * wk)
  <2>1. (q - l) * wk = qk - s1 /\ qk \in Int /\ s1 \in Int
    BY <1>1, <1>13, SMT
  <2>2. (o * m - sub) * (B * wk) = a - s2 /\ a \in Int /\ s2 \in Int
    <3> DEFINE bw == B * wk
               om == o * m
    <3>1. bw \in Int /\ om \in Int
      BY <1>3, <1>10, <1>13, SMT
    <3>2. (om - sub) * bw = om * bw - sub * bw /\ om * bw \in Int /\ sub * bw \in Int
      <4> HIDE DEF bw, om
      <4> QED
        BY <3>1, <1>1, SMT
    <3>3. om * bw = o * (m * bw)
      <4> HIDE DEF bw
      <4> QED
        BY <3>1, <1>3, <1>13, SMT
    <3> QED
      BY <3>2, <3>3, <1>15
  <2>3. p = s2 + s1
    <3>1. (B * sub + l) * wk = sub * (B * wk) + l * wk
      BY <1>1, <1>10, <1>13, SMT
    <3> QED
      BY <3>1, <1>1
  <2>4. z = x + (q - l) * wk + (o * m - sub) * (B * wk)
    BY <1>14
  <2>5. z = x + (qk - s1) + (a - s2)
    BY <2>1, <2>2, <2>4
  <2>6. qk \in Int /\ s1 \in Int /\ a \in Int /\ s2 \in Int
    BY <2>1, <2>2
  <2> HIDE DEF qk, s1, s2, a, p
  <2> QED
    BY <2>3, <2>5, <2>6, <1>1, SMT
<1>17. y * zl + (z - zl) = y * xl + (x - xl) + a
  <2>1. y * zl = y * xl + p /\ y * xl \in Int /\ p \in Int
    <3>1. y * (xl + wk * q) = y * xl + (q * y) * wk /\ y * xl \in Int /\ (q * y) * wk \in Int
      BY <1>1, <1>13, SMT
    <3> QED
      BY <3>1, <1>12
  <2>2. zl = xl + qk /\ qk \in Int /\ a \in Int
    <3>1. wk * q = q * wk /\ q * wk \in Int /\ o * wt \in Int
      BY <1>1, <1>3, <1>13, SMT
    <3> QED
      BY <3>1, <1>12
  <2> DEFINE s1 == y * zl
             s2 == y * xl
  <2>3. s1 = s2 + p /\ s2 \in Int /\ p \in Int /\ zl = xl + qk /\ qk \in Int /\ a \in Int
        /\ xl \in Int /\ x \in Int
    BY <2>1, <2>2, <1>1, <1>13
  <2> HIDE DEF s1, s2, p, qk, a
  <2>4. s1 + (z - zl) = s2 + (x - xl) + a
    BY <2>3, <1>16, SMT
  <2> QED
    BY <2>4 DEF s1, s2
<1> QED
  BY <1>5, <1>8, <1>11, <1>17 DEF zl, xl, wk, wt, a, k1

\* The shifted dividend: the quotient limbs below limb k times the divisor, and
\* the limbs from it upward, less c at limb t.
HenselEqn(v, y, x, k, c, t) == v = y * (x % W[k]) + (x - (x % W[k])) - c * W[t]

\* What has to be subtracted above the window fits a word.
LEMMA MetaFits ==
    ASSUME NEW su \in Nat, su + 2 <= B, NEW c \in 0..1, NEW b \in 0..1
    PROVE  /\ (c + su) % B = c + su /\ c + su \in Word
           /\ (c + su) + b \in Nat
<1>1. B \in Nat /\ B > 0
  BY BaseFacts, SMT
<1> DEFINE s == c + su
<1>2. s \in 0..(B - 1) /\ s + b \in Nat
  BY <1>1, SMT
<1> HIDE DEF s
<1>3. s % B = s
  BY <1>1, <1>2, ResidueItself
<1> QED
  BY <1>2, <1>3 DEF s, Word

\* If there is a limb above the window, it takes it, and what that borrows is
\* the new meta-carry.
HenselAbove(z, t, meta, b, p, z2, c2) ==
    /\ p = borrowing_sub(Limb(z, t), meta, Mask(b = 1))
    /\ z2 = SetLimb(z, t, p[1])
    /\ c2 = wrapping_sub(0, p[2])

\* So stored, the borrow out of limb t has the weight of the limb above.
LEMMA MetaStored ==
    ASSUME NEW z \in Nat, NEW t \in Nat, t + 1 <= 2 * N, NEW meta \in Word, NEW b \in 0..1,
           NEW p, NEW z2, NEW c2, HenselAbove(z, t, meta, b, p, z2, c2)
    PROVE  /\ z2 \in Nat /\ c2 \in 0..1
           /\ z2 \div W[t + 1] = z \div W[t + 1]
           /\ z2 % W[t] = z % W[t]
           /\ z2 = z - (meta + b) * W[t] + c2 * W[t + 1]
<1>0. /\ p = borrowing_sub(Limb(z, t), meta, Mask(b = 1))
      /\ z2 = SetLimb(z, t, p[1])
      /\ c2 = wrapping_sub(0, p[2])
  BY DEF HenselAbove
<1>1. B \in Nat /\ B >= 2 /\ B > 0 /\ N \in Nat
  BY BaseFacts, SMT
<1>2. t \in 0..(2 * N) /\ t < 2 * N /\ t \in 0..(2 * N - 1)
  BY <1>1, SMT
<1>3. Limb(z, t) \in Word
  BY <1>2, LimbType
<1>4. Mask(b = 1) \in Word /\ BorrowBit(Mask(b = 1)) = b
  <2>1. b = 0 \/ b = 1
    BY SMT
  <2> QED
    BY <2>1, BorrowBits DEF Mask
<1> DEFINE l  == Limb(z, t)
           mk == Mask(b = 1)
           e  == BorrowBit(p[2])
           s1 == p[1]
<1>5. /\ p[1] \in Word /\ (p[2] = 0 \/ p[2] = WordMAX)
      /\ p[1] - B * BorrowBit(p[2]) = l - meta - BorrowBit(mk)
  <2> HIDE DEF l, mk
  <2>1. p = borrowing_sub(l, meta, mk) /\ l \in Word /\ mk \in Word
    BY <1>0, <1>3, <1>4 DEF l, mk
  <2>2. p[1] \in Word /\ p[2] \in {0, WordMAX} /\ p[1] - B * BorrowBit(p[2]) = l - meta - BorrowBit(mk)
    BY <2>1, BorrowingSubExact
  <2> QED
    BY <2>2
<1>6. c2 = e /\ e \in 0..1
  <2>1. CASE p[2] = 0
    <3>1. e = 0
      BY <2>1, BorrowBits
    <3>2. 0 \in 0..(B - 1)
      BY <1>1, SMT
    <3>3. 0 % B = 0
      BY <3>2, <1>1, ResidueItself
    <3>4. c2 = (0 - 0) % B
      BY <1>0, <2>1 DEF wrapping_sub
    <3>5. 0 - 0 = 0
      BY SMT
    <3> QED
      BY <3>1, <3>3, <3>4, <3>5, SMT
  <2>2. CASE p[2] = WordMAX
    <3>1. e = 1
      BY <2>2, BorrowBits
    <3>2. c2 = (0 - (B - 1)) % B
      BY <1>0, <2>2 DEF wrapping_sub, WordMAX
    <3> DEFINE a == 0 - (B - 1)
               k == -1
    <3>3. a = B * k + 1 /\ a \in Int /\ k \in Int /\ 1 \in 0..(B - 1)
      BY <1>1, SMT
    <3> HIDE DEF a, k
    <3>4. a % B = 1
      BY <3>3, <1>1, DivisionIs
    <3> QED
      BY <3>1, <3>2, <3>4 DEF a
  <2> QED
    BY <2>1, <2>2, <1>5
<1> DEFINE wt == W[t]
           wn == W[t + 1]
<1>7. /\ z2 \in Nat /\ z2 \div wn = z \div wn /\ z2 % wt = z % wt
      /\ z2 = z + (s1 - l) * wt
  BY <1>0, <1>5, LimbStored
<1>8. wn = B * wt /\ wt \in Nat
  BY <1>2, WeightFacts
<1>9. s1 = l - meta - b + B * e /\ s1 \in Int /\ l \in Int /\ meta \in Int /\ B * e \in Int
  <2>1. s1 \in Int /\ l \in Int /\ meta \in Int /\ e \in Int
    BY <1>1, <1>3, <1>5, <1>6, SMT DEF Word
  <2>2. B * e \in Int
    <3> HIDE DEF e
    <3> QED
      BY <2>1, <1>1, SMT
  <2> DEFINE be == B * e
             bm == BorrowBit(mk)
  <2>3. s1 - be = l - meta - bm /\ bm = b /\ be \in Int
    BY <2>2, <1>4, <1>5
  <2> HIDE DEF be, bm, s1, l
  <2>4. s1 = l - meta - b + be
    BY <2>1, <2>3, SMT
  <2> QED
    BY <2>1, <2>2, <2>4 DEF be
<1> HIDE DEF l, s1, wt, wn, e
<1>10. z2 = z - (meta + b) * wt + c2 * wn
  <2> DEFINE be == B * e
             g  == meta + b
  <2>1. s1 - l = be - g /\ be \in Int /\ g \in Int
    <3> HIDE DEF be
    <3>1. be \in Int /\ s1 = l - meta - b + be
      BY <1>9 DEF be
    <3> QED
      BY <3>1, <1>9, SMT
  <2>2. (be - g) * wt = be * wt - g * wt /\ g * wt \in Int /\ be * wt \in Int
    <3> HIDE DEF be, g
    <3> QED
      BY <2>1, <1>8, SMT
  <2>3. be * wt = c2 * wn
    <3>1. e \in Int
      BY <1>6, SMT
    <3>2. (B * e) * wt = e * (B * wt)
      BY <3>1, <1>1, <1>8, SMT
    <3> QED
      BY <3>2, <1>6, <1>8
  <2>4. z2 = z + (be * wt - g * wt)
    BY <2>1, <2>2, <1>7
  <2> DEFINE u1 == be * wt
             u2 == g * wt
  <2>5. z2 = z + (u1 - u2) /\ u1 \in Int /\ u2 \in Int /\ z \in Int
    BY <2>2, <2>4
  <2> HIDE DEF u1, u2
  <2>6. z2 = z - u2 + u1
    BY <2>5, SMT
  <2> QED
    BY <2>3, <2>6 DEF u1, u2
<1> QED
  BY <1>6, <1>7, <1>10 DEF wt, wn

\* What the loop keeps, limb k being the next and t the top of its window.
HenselGood(v, y, x, k, c, t, xn) ==
    /\ v \in Nat /\ x \in Nat /\ x < W[xn] /\ c \in 0..1
    /\ HenselEqn(v, y, x, k, c, t)

\* An integer is below the weight of a limb if it has nothing from there upward.
LEMMA NothingFrom ==
    ASSUME NEW x \in Nat, NEW z \in Nat, NEW t \in Nat, NEW xn \in Nat, t <= xn, xn <= 2 * N,
           z \div W[t] = x \div W[t], x < W[xn]
    PROVE  z < W[xn]
<1> DEFINE g == xn - t
           a == W[t]
           b == W[g]
           m == W[xn]
<1>1. g \in Nat /\ xn = t + g
  BY SMT
<1> HIDE DEF g
<1>2. m = a * b /\ a \in Nat /\ a > 0 /\ b \in Nat /\ b > 0 /\ m \in Nat /\ m > 0
  BY <1>1, WeightsAdd
<1>3. z \div a = x \div a /\ x < m
  OBVIOUS
<1> HIDE DEF a, b, m
<1>4. (z \div a) \div b = z \div m
  BY <1>2, DivTwice
<1>5. (x \div a) \div b = x \div m
  BY <1>2, DivTwice
<1>6. x \div m = 0
  <2>1. x = m * 0 + x /\ x \in 0..(m - 1) /\ x \in Int /\ 0 \in Int
    BY <1>2, <1>3, SMT
  <2> QED
    BY <2>1, <1>2, DivisionIs
<1>7. z \div m = 0
  BY <1>3, <1>4, <1>5, <1>6
<1>8. z = m * (z \div m) + (z % m) /\ z % m < m /\ z % m \in Nat
  BY <1>2, DivMod, SMT
<1> DEFINE h == z % m
<1>9. z = m * 0 + h /\ h \in Nat /\ h < m
  BY <1>7, <1>8
<1> HIDE DEF h
<1>10. z < m
  BY <1>2, <1>9, SMT
<1> QED
  BY <1>10 DEF m

\* The equation after the window was stored, before the top is taken from.
LEMMA HenselSummed ==
    ASSUME NEW x, NEW k, NEW r, NEW y, NEW q, NEW sub, NEW b, NEW z,
           HenselAt(x, k, r, y, q, sub, b, z),
           NEW v, NEW c, NEW t, t = k + r, NEW xn, HenselGood(v, y, x, k, c, t, xn),
           NEW su, su = sub \div W[r - 1]
    PROVE  /\ z \in Nat /\ z \div W[t] = x \div W[t] /\ W[t] \in Nat
           /\ (c + su) + b \in Nat
           /\ v = y * (z % W[k + 1]) + (z - (z % W[k + 1])) - ((c + su) + b) * W[t]
<1> DEFINE o  == su + b
           wt == W[t]
           xl == x % W[k]
           zl == z % W[k + 1]
<1>1. /\ x \in Nat /\ k \in Nat /\ r \in Nat /\ k + r <= 2 * N
      /\ y \in Nat /\ su \in Nat /\ b \in 0..1
  BY HenselParts
<1>2. o = (sub \div W[r - 1]) + b
  OBVIOUS
<1> HIDE DEF o
<1>3. /\ z \in Nat /\ z \div wt = x \div wt
      /\ y * zl + (z - zl) = y * xl + (x - xl) + o * wt
  BY <1>2, HenselWindow
<1>4. v = y * xl + (x - xl) - c * wt /\ c \in 0..1 /\ v \in Nat
  BY DEF HenselGood, HenselEqn
<1>5. r >= 1
  BY HenselParts
<1>6. /\ wt \in Nat /\ W[k] \in Nat /\ W[k] > 0 /\ W[k + 1] \in Nat /\ W[k + 1] > 0
  <2>1. t \in 0..(2 * N) /\ k \in 0..(2 * N) /\ k + 1 \in 0..(2 * N)
    BY <1>1, <1>5, BaseFacts, SMT
  <2> QED
    BY <2>1, WeightFacts
<1>7. xl \in Int /\ zl \in Int /\ wt \in Nat
  <2> DEFINE wk == W[k]
             w1 == W[k + 1]
  <2>1. wk \in Nat /\ wk > 0 /\ w1 \in Nat /\ w1 > 0 /\ wt \in Nat
    BY <1>6
  <2> HIDE DEF wk, w1
  <2>2. x % wk \in Int /\ z % w1 \in Int
    BY <2>1, <1>1, <1>3, DivMod, SMT
  <2> QED
    BY <2>1, <2>2 DEF wk, w1
<1> HIDE DEF xl, zl, wt
<1>8. ((c + su) + b) * wt = c * wt + o * wt /\ c * wt \in Int /\ o * wt \in Int /\ (c + su) + b \in Nat
  <2>1. c \in Nat /\ o \in Nat /\ o = su + b /\ (c + su) + b = c + o /\ (c + su) + b \in Nat
    BY <1>1, <1>4, SMT DEF o
  <2>2. (c + o) * wt = c * wt + o * wt /\ c * wt \in Int /\ o * wt \in Int
    BY <2>1, <1>7, SMT
  <2> QED
    BY <2>1, <2>2
<1>9. y * zl \in Int /\ y * xl \in Int
  BY <1>1, <1>7, SMT
<1> DEFINE s1 == y * zl
           s2 == y * xl
           u1 == c * wt
           u2 == o * wt
           u3 == ((c + su) + b) * wt
<1>10. /\ s1 + (z - zl) = s2 + (x - xl) + u2 /\ v = s2 + (x - xl) - u1 /\ u3 = u1 + u2
       /\ s1 \in Int /\ s2 \in Int /\ u1 \in Int /\ u2 \in Int
  BY <1>3, <1>4, <1>8, <1>9
<1> HIDE DEF s1, s2, u1, u2, u3
<1>11. v = s1 + (z - zl) - u3
  BY <1>1, <1>3, <1>4, <1>7, <1>10, SMT
<1> QED
  BY <1>3, <1>7, <1>8, <1>11 DEF s1, u3, zl, wt

\* With a limb above the window,
TopInside(t, k, r, xn) == t = k + r /\ t < xn /\ xn \in Nat /\ xn <= 2 * N

\* a step keeps what the iterations keep,
LEMMA HenselInside ==
    ASSUME NEW x, NEW k, NEW r, NEW y, NEW q, NEW sub, NEW b, NEW z,
           HenselAt(x, k, r, y, q, sub, b, z),
           NEW v, NEW c, NEW t, NEW xn, TopInside(t, k, r, xn),
           HenselGood(v, y, x, k, c, t, xn),
           NEW su, su = sub \div W[r - 1],
           NEW meta, meta = wrapping_add(c, su),
           NEW p, NEW z2, NEW c2, HenselAbove(z, t, meta, b, p, z2, c2)
    PROVE  HenselGood(v, y, z2, k + 1, c2, t + 1, xn)
<1>0. t = k + r /\ t < xn /\ xn \in Nat /\ xn <= 2 * N
  BY DEF TopInside
<1>1. /\ x \in Nat /\ k \in Nat /\ r \in Nat /\ r >= 1 /\ k + r <= 2 * N
      /\ y \in Nat /\ su \in Nat /\ su + 2 <= B /\ b \in 0..1
  BY HenselParts
<1>2. /\ z \in Nat /\ z \div W[t] = x \div W[t] /\ W[t] \in Nat
      /\ v = y * (z % W[k + 1]) + (z - (z % W[k + 1])) - ((c + su) + b) * W[t]
  BY <1>0, HenselSummed
<1>3. v \in Nat /\ x < W[xn] /\ c \in 0..1
  BY DEF HenselGood
<1>4. meta = c + su /\ meta \in Word
  <2>1. meta = (c + su) % B
    BY DEF wrapping_add
  <2> QED
    BY <2>1, <1>1, <1>3, MetaFits
<1>5. t \in Nat /\ t + 1 <= 2 * N /\ t <= xn /\ k + 1 \in 0..t /\ t \in 0..(2 * N) /\ t + 1 \in 0..(2 * N)
      /\ t + 1 \in Nat /\ t + 1 <= xn
  BY <1>0, <1>1, BaseFacts, SMT
<1>6. /\ z2 \in Nat /\ c2 \in 0..1
      /\ z2 \div W[t + 1] = z \div W[t + 1]
      /\ z2 % W[t] = z % W[t]
      /\ z2 = z - (meta + b) * W[t] + c2 * W[t + 1]
  BY <1>1, <1>2, <1>4, <1>5, MetaStored
<1>7. z < W[xn]
  BY <1>0, <1>1, <1>2, <1>3, <1>5, NothingFrom
<1> DEFINE t1 == t + 1
<1>8. t1 \in Nat /\ t1 <= xn /\ z2 \div W[t1] = z \div W[t1]
  BY <1>5, <1>6
<1> HIDE DEF t1
<1>9. z2 < W[xn]
  BY <1>0, <1>2, <1>6, <1>7, <1>8, NothingFrom
<1> DEFINE k1 == k + 1
<1>10. z2 % W[k1] = z % W[k1]
  <2>1. k1 \in 0..t /\ t \in 0..(2 * N)
    BY <1>5
  <2> HIDE DEF k1
  <2>2. (z2 % W[t]) % W[k1] = z2 % W[k1]
    BY <2>1, <1>6, LowOfLow
  <2>3. (z % W[t]) % W[k1] = z % W[k1]
    BY <2>1, <1>2, LowOfLow
  <2> QED
    BY <2>2, <2>3, <1>6
<1>11. HenselEqn(v, y, z2, k1, c2, t1)
  <2> DEFINE zl == z % W[k1]
             o  == (c + su) + b
             a  == o * W[t]
             e  == c2 * W[t1]
             s  == y * zl
  <2>1. v = s + (z - zl) - a /\ z2 = z - a + e
    BY <1>2, <1>4, <1>6 DEF t1
  <2>2. zl \in Int /\ a \in Int /\ e \in Int /\ s \in Int
    <3>1. k1 \in 0..(2 * N) /\ t1 \in 0..(2 * N)
      <4>1. k + 1 \in 0..t /\ t + 1 \in 0..(2 * N) /\ k + 1 \in 0..(2 * N)
        BY <1>0, <1>1, <1>5, BaseFacts, SMT
      <4> QED
        BY <4>1 DEF t1
    <3> HIDE DEF k1
    <3>2. W[k1] \in Nat /\ W[k1] > 0 /\ W[t1] \in Nat
      BY <3>1, WeightFacts
    <3>3. zl \in Int
      <4> DEFINE m == W[k1]
      <4> HIDE DEF m
      <4>1. z % m \in Int
        BY <3>2, <1>2, DivMod, SMT DEF m
      <4> QED
        BY <4>1 DEF m
    <3>4. o \in Int
      BY <1>1, <1>3, SMT
    <3> HIDE DEF zl, o
    <3> DEFINE wt == W[t]
               w1 == W[t1]
    <3>5. wt \in Int /\ w1 \in Int /\ c2 \in Int /\ y \in Int /\ zl \in Int
      BY <3>2, <3>3, <1>1, <1>2, <1>6, SMT
    <3> HIDE DEF wt, w1
    <3>6. o * wt \in Int /\ c2 * w1 \in Int /\ y * zl \in Int
      BY <3>4, <3>5, SMT
    <3>7. a \in Int /\ e \in Int /\ s \in Int
      BY <3>6 DEF wt, w1
    <3> QED
      BY <3>3, <3>7
  <2> HIDE DEF zl, a, e, s
  <2>3. v = s + (z2 - zl) - e
    BY <2>1, <2>2, <1>2, SMT
  <2> QED
    BY <2>3, <1>10 DEF HenselEqn, zl, s, e
<1> QED
  BY <1>3, <1>6, <1>9, <1>11 DEF HenselGood, k1, t1

\* and without, as long as the divisor fits above the next limb.
TopAtEnd(t, k, r, xn, w, y) ==
    /\ t = k + r /\ t = xn /\ xn \in Nat /\ xn <= 2 * N
    /\ w \in Nat /\ k + 1 + w <= xn /\ y < W[w]

\* a step keeps it at the end as well.
LEMMA HenselAtEnd ==
    ASSUME NEW x, NEW k, NEW r, NEW y, NEW q, NEW sub, NEW b, NEW z,
           HenselAt(x, k, r, y, q, sub, b, z),
           NEW v, NEW c, NEW t, NEW xn, NEW w, TopAtEnd(t, k, r, xn, w, y),
           HenselGood(v, y, x, k, c, t, xn),
           NEW su, su = sub \div W[r - 1],
           NEW c2, c2 = wrapping_add(wrapping_add(c, su), b)
    PROVE  HenselGood(v, y, z, k + 1, c2, t, xn)
<1>0. /\ t = k + r /\ t = xn /\ xn \in Nat /\ xn <= 2 * N
      /\ w \in Nat /\ k + 1 + w <= xn /\ y < W[w]
  BY DEF TopAtEnd
<1>1. /\ x \in Nat /\ k \in Nat /\ r \in Nat /\ r >= 1 /\ k + r <= 2 * N
      /\ y \in Nat /\ su \in Nat /\ su + 2 <= B /\ b \in 0..1
  BY HenselParts
<1>2. /\ z \in Nat /\ z \div W[t] = x \div W[t] /\ W[t] \in Nat
      /\ v = y * (z % W[k + 1]) + (z - (z % W[k + 1])) - ((c + su) + b) * W[t]
  BY <1>0, HenselSummed
<1>3. v \in Nat /\ x < W[xn] /\ c \in 0..1
  BY DEF HenselGood
<1>4. z < W[xn]
  <2>1. t \in Nat /\ t <= xn
    BY <1>0, SMT
  <2> QED
    BY <2>1, <1>0, <1>1, <1>2, <1>3, NothingFrom
<1> DEFINE o   == (c + su) + b
           k1  == k + 1
           m   == W[xn]
           zl  == z % W[k1]
           w1  == W[k1]
           ww  == W[w]
<1>5. k1 \in Nat /\ k1 + w <= xn /\ k1 \in 0..(2 * N) /\ k1 + w \in Nat /\ k1 + w <= 2 * N
  BY <1>0, <1>1, BaseFacts, SMT
<1>6. w1 \in Nat /\ w1 > 0 /\ ww \in Nat /\ ww > 0 /\ m \in Nat /\ m > 0 /\ w1 * ww <= m
  <2> DEFINE e == k1 + w
             g == xn - e
  <2>1. e \in Nat /\ e = k1 + w /\ e <= 2 * N /\ g \in Nat /\ xn = e + g /\ k1 \in Nat
    BY <1>0, <1>5, SMT
  <2> HIDE DEF e, g, k1
  <2>2. W[e] = W[k1] * W[w] /\ W[k1] \in Nat /\ W[k1] > 0 /\ W[w] \in Nat /\ W[w] > 0
    BY <2>1, <1>0, WeightsAdd
  <2>3. W[xn] = W[e] * W[g] /\ W[e] \in Nat /\ W[g] \in Nat /\ W[g] > 0 /\ W[xn] \in Nat /\ W[xn] > 0
    BY <2>1, <1>0, WeightsAdd
  <2> DEFINE f == W[e]
             h == W[g]
  <2>4. m = f * h /\ f \in Nat /\ h \in Nat /\ 1 <= h
    BY <2>3
  <2> HIDE DEF f, h
  <2>5. f * 1 <= f * h
    BY <2>4, Monotone, SMT
  <2>6. f * 1 = f
    BY <2>4, SMT
  <2>7. f <= m
    BY <2>4, <2>5, <2>6
  <2> QED
    BY <2>2, <2>3, <2>7 DEF f
<1>7. zl \in Nat /\ zl < w1
  <2> HIDE DEF w1
  <2>1. z % w1 \in Nat /\ z % w1 < w1
    BY <1>2, <1>6, DivMod, SMT
  <2> QED
    BY <2>1 DEF w1
<1>8. v = y * zl + (z - zl) - o * m
  BY <1>0, <1>2
<1>9. o \in Nat
  BY <1>1, <1>3, SMT
<1>10. y < ww /\ z < m
  BY <1>0, <1>4
<1> HIDE DEF zl, w1, ww, m, o
<1>11. y * zl < m
  <2> DEFINE p1 == y * zl
             p2 == ww * w1
  <2>1. zl * y <= zl * ww
    BY <1>1, <1>6, <1>7, <1>10, Monotone, SMT
  <2>2. ww * (zl + 1) <= ww * w1
    BY <1>6, <1>7, Monotone, SMT
  <2>3. zl * y = p1 /\ zl * ww = ww * zl /\ ww * (zl + 1) = ww * zl + ww /\ w1 * ww = p2 /\ ww * zl \in Int
        /\ p1 \in Int /\ p2 \in Int
    BY <1>1, <1>6, <1>7, SMT
  <2> DEFINE p3 == ww * zl
  <2>4. p1 <= p3 /\ p3 + ww <= p2 /\ p2 <= m /\ p1 \in Int /\ p2 \in Int /\ p3 \in Int
    BY <2>1, <2>2, <2>3, <1>6
  <2> HIDE DEF p1, p2, p3
  <2>5. p1 < m
    BY <2>4, <1>6, SMT
  <2> QED
    BY <2>5 DEF p1
<1>12. o <= 1
  <2> DEFINE p1 == y * zl
             p2 == o * m
  <2>1. p1 \in Int /\ p2 \in Int
    BY <1>1, <1>6, <1>7, <1>9, SMT
  <2>2. v = p1 + (z - zl) - p2 /\ p1 < m
    BY <1>8, <1>11
  <2> HIDE DEF p1, p2
  <2>3. p2 < 2 * m
    BY <2>1, <2>2, <1>2, <1>3, <1>7, <1>10, <1>6, SMT
  <2>4. m * o < m * 2
    <3>1. o * m = m * o /\ 2 * m = m * 2
      BY <1>6, <1>9, SMT
    <3> QED
      BY <2>3, <3>1 DEF p2
  <2>5. o < 2
    BY <2>4, <1>6, <1>9, Cancel, SMT
  <2> QED
    BY <2>5, <1>9, SMT
<1>13. c2 = o
  <2>1. wrapping_add(c, su) = c + su
    <3>1. wrapping_add(c, su) = (c + su) % B
      BY DEF wrapping_add
    <3> QED
      BY <3>1, <1>1, <1>3, MetaFits
  <2>2. c2 = ((c + su) + b) % B
    BY <2>1 DEF wrapping_add
  <2>3. c2 = o % B
    BY <2>2 DEF o
  <2>4. B \in Nat /\ B > 0 /\ o \in 0..(B - 1)
    BY <1>9, <1>12, BaseFacts, SMT
  <2> QED
    BY <2>3, <2>4, ResidueItself
<1>14. HenselEqn(v, y, z, k1, c2, t)
  BY <1>0, <1>8, <1>13 DEF HenselEqn, zl, m
<1>15. c2 \in 0..1
  BY <1>9, <1>12, <1>13, SMT
<1> QED
  BY <1>2, <1>3, <1>10, <1>14, <1>15 DEF HenselGood, k1, m

----------------------------------------------------------------------------
(* What exact division starts with: the divisor shifted until it is odd.   *)

\* k is the position of the lowest bit of y that is set.
ZerosAre(k, y, bw) == y % bw[k + 1] # 0 /\ y % bw[k] = 0

\* There is one, below any bit whose weight y does not reach.
LEMMA ZerosExist ==
    ASSUME NEW bw, NEW wb, NEW top, BitTable(bw, wb, top),
           NEW y \in Nat, y > 0, NEW j \in Nat, j <= top, y < bw[j]
    PROVE  \E k \in Nat : k + 1 <= j /\ ZerosAre(k, y, bw)
<1>0. top \in Nat /\ bw[0] = 1
  BY BitTop
<1> DEFINE S == {n \in Nat : n <= top /\ y % bw[n] # 0 =>
                               \E k \in Nat : k + 1 <= n /\ ZerosAre(k, y, bw)}
<1>1. 0 \in S
  <2>1. y % 1 = 0
    BY SMT
  <2>2. y % bw[0] = 0
    BY <2>1, <1>0
  <2> QED
    BY <2>2
<1>2. ASSUME NEW n \in S PROVE n + 1 \in S
  <2> SUFFICES ASSUME n + 1 <= top, y % bw[n + 1] # 0
               PROVE  \E k \in Nat : k + 1 <= n + 1 /\ ZerosAre(k, y, bw)
    BY SMT
  <2>0. n \in Nat /\ n <= top
    BY <1>0, SMT
  <2>1. CASE y % bw[n] # 0
    <3>1. PICK k \in Nat : k + 1 <= n /\ ZerosAre(k, y, bw)
      BY <2>0, <2>1
    <3>2. k + 1 <= n + 1
      BY <2>0, <3>1, SMT
    <3> QED
      BY <3>1, <3>2
  <2>2. CASE y % bw[n] = 0
    <3>1. ZerosAre(n, y, bw) /\ n + 1 <= n + 1
      BY <2>0, <2>2, SMT DEF ZerosAre
    <3> QED
      BY <3>1, <2>0
  <2> QED
    BY <2>1, <2>2
<1>3. S = Nat
  <2> HIDE DEF S
  <2>1. S \in SUBSET Nat
    BY DEF S
  <2> QED
    BY <2>1, <1>1, <1>2, SetInduction
<1>4. j \in S
  BY <1>3
<1>5. y % bw[j] # 0
  <2> DEFINE b == bw[j]
  <2>1. b \in Nat /\ b > 0 /\ y < b
    BY BitFacts
  <2> HIDE DEF b
  <2>2. y \in 0..(b - 1)
    BY <2>1, SMT
  <2>3. y % b = y
    BY <2>1, <2>2, ResidueItself
  <2>4. y % b # 0
    BY <2>3, SMT
  <2> QED
    BY <2>4 DEF b
<1> HIDE DEF S
<1> QED
  BY <1>4, <1>5 DEF S

\* What is left of y is odd.
LEMMA OddPart ==
    ASSUME NEW bw, NEW wb, NEW top, BitTable(bw, wb, top),
           NEW y \in Nat, y > 0, NEW k \in Nat, k + 1 <= top, ZerosAre(k, y, bw),
           NEW c, c = y \div bw[k]
    PROVE  c \in Nat /\ c > 0 /\ c % 2 = 1 /\ y = bw[k] * c
<1> DEFINE b == bw[k]
           b1 == bw[k + 1]
<1>0. top \in Nat
  BY BitTop
<1>1. k <= top /\ k < top
  BY <1>0, SMT
<1>2. b \in Nat /\ b > 0 /\ b1 = 2 * b
  BY <1>1, BitFacts
<1>3. y % b1 # 0 /\ y % b = 0
  BY DEF ZerosAre
<1>4. c = y \div b
  OBVIOUS
<1> HIDE DEF b, b1
<1>5. c \in Nat /\ y = b * c
  <2> DEFINE r == y % b
  <2>1. c \in Nat /\ y = b * c + r
    BY <1>2, <1>4, DivMod, SMT
  <2>2. r = 0
    BY <1>3
  <2> HIDE DEF r
  <2>3. b * c \in Int
    BY <1>2, <2>1, SMT
  <2> DEFINE p == b * c
  <2>4. p \in Int /\ y = p + r
    BY <2>1, <2>3
  <2> HIDE DEF p
  <2>5. y = p
    BY <2>2, <2>4, SMT
  <2> QED
    BY <2>1, <2>5 DEF p
<1>6. c # 0
  <2>1. ASSUME c = 0 PROVE FALSE
    <3>1. b * 0 = 0
      BY <1>2, SMT
    <3>2. y = 0
      BY <1>5, <2>1, <3>1
    <3> QED
      BY <3>2, SMT
  <2> QED
    BY <2>1
<1>7. c % 2 # 0
  <2>1. ASSUME c % 2 = 0 PROVE FALSE
    <3> DEFINE h == c \div 2
    <3>1. c = 2 * h /\ h \in Int
      BY <1>5, <2>1, SMT
    <3> HIDE DEF h
    <3>2. b * (2 * h) = b1 * h
      BY <1>2, <3>1, SMT
    <3>3. y = b1 * h
      BY <1>5, <3>1, <3>2
    <3>4. y \in Int /\ b1 \in Nat /\ b1 > 0 /\ 0 \in 0..(b1 - 1)
      BY <1>2, SMT
    <3> DEFINE p == b1 * h
    <3>5. p \in Int /\ y = p
      BY <3>3
    <3> HIDE DEF p
    <3>6. y = p + 0
      BY <3>5, SMT
    <3>7. y = b1 * h + 0
      BY <3>6 DEF p
    <3>8. y % b1 = 0
      BY <3>1, <3>4, <3>7, DivisionIs
    <3> QED
      BY <3>8, <1>3
  <2> QED
    BY <2>1
<1>8. c > 0 /\ c % 2 = 1
  BY <1>5, <1>6, <1>7, SMT
<1> QED
  BY <1>5, <1>8 DEF b

\* It is as much shorter as it is shifted.
LEMMA OddLength ==
    ASSUME NEW bw, NEW wb, NEW top, BitTable(bw, wb, top),
           NEW y \in Nat, NEW l, IsLength(l, y, bw, top),
           NEW k \in Nat, k <= top, NEW c \in Nat, c > 0, y = bw[k] * c
    PROVE  l \in Nat /\ l - k \in Nat /\ IsLength(l - k, c, bw, top) /\ c <= y
<1>0. top \in Nat
  BY BitTop
<1>1. l \in Nat /\ l <= top /\ y < bw[l]
  BY <1>0, SMT DEF IsLength
<1> DEFINE b == bw[k]
           g == l - k
           e == bw[g]
           f == bw[g - 1]
<1>2. b \in Nat /\ b > 0
  BY BitFacts
<1>3. b <= y /\ c <= y
  <2>1. b * 1 <= b * c /\ c * 1 <= c * b /\ c * b = b * c
    <3> HIDE DEF b
    <3>1. 1 <= c /\ 1 <= b
      BY <1>2, SMT
    <3>2. b * 1 <= b * c
      BY <1>2, <3>1, Monotone, SMT
    <3>3. c * 1 <= c * b
      BY <1>2, <3>1, Monotone, SMT
    <3>4. c * b = b * c
      BY <1>2, SMT
    <3> QED
      BY <3>2, <3>3, <3>4
  <2> HIDE DEF b
  <2>2. b * 1 = b /\ c * 1 = c
    BY <1>2, SMT
  <2> QED
    BY <2>1, <2>2 DEF b
<1>4. k < l
  <2>1. ASSUME l <= k PROVE FALSE
    <3>1. bw[l] <= bw[k]
      BY <2>1, <1>1, BitsGrow
    <3>2. bw[l] \in Nat
      BY <1>1, BitFacts
    <3> QED
      BY <3>1, <3>2, <1>1, <1>2, <1>3, SMT
  <2> QED
    BY <2>1, <1>1, SMT
<1>5. g \in Nat /\ g >= 1 /\ l = k + g /\ g - 1 \in Nat /\ l - 1 = k + (g - 1) /\ g <= top
      /\ l - 1 \in Nat /\ l - 1 <= top /\ l # 0
  BY <1>0, <1>1, <1>4, SMT
<1> HIDE DEF g
<1>6. bw[l] = b * e /\ e \in Nat
  BY <1>1, <1>5, BitsAdd
<1>7. bw[l - 1] = b * f /\ f \in Nat
  <2> DEFINE g1 == g - 1
             l1 == l - 1
  <2>1. g1 \in Nat /\ l1 \in Nat /\ l1 = k + g1 /\ l1 <= top
    BY <1>5
  <2> HIDE DEF g1, l1
  <2>2. bw[l1] = bw[k] * bw[g1] /\ bw[g1] \in Nat
    BY <2>1, BitsAdd
  <2> QED
    BY <2>2 DEF g1, l1
<1>8. bw[l - 1] <= y
  BY <1>5 DEF IsLength
<1> HIDE DEF b, e, f
<1>9. c < e
  <2>1. b * c < b * e
    BY <1>1, <1>6 DEF b
  <2> QED
    BY <2>1, <1>2, <1>6, Cancel, SMT
<1>10. f <= c
  <2>1. ASSUME c < f PROVE FALSE
    <3>1. c + 1 <= f
      BY <2>1, <1>7, SMT
    <3>2. b * (c + 1) <= b * f
      BY <3>1, <1>2, <1>7, Monotone, SMT
    <3>3. b * (c + 1) = b * c + b
      BY <1>2, SMT
    <3> DEFINE p == b * c
               q == b * f
    <3>4. p + b <= q /\ q <= p /\ p \in Int /\ q \in Int
      <4>1. b * f <= b * c
        BY <1>7, <1>8 DEF b
      <4>2. b * c \in Int /\ b * f \in Int
        BY <1>2, <1>7, SMT
      <4> QED
        BY <3>2, <3>3, <4>1, <4>2
    <3> HIDE DEF p, q
    <3> QED
      BY <3>4, <1>2, SMT
  <2> QED
    BY <2>1, <1>7, SMT
<1>11. IsLength(g, c, bw, top)
  <2>1. g \in 0..top
    BY <1>0, <1>5, SMT
  <2> QED
    BY <2>1, <1>9, <1>10 DEF IsLength, e, f
<1> QED
  BY <1>1, <1>3, <1>5, <1>11 DEF g

\* The lowest limb of an odd integer is odd.
LEMMA OddLimb ==
    ASSUME NEW bw, NEW wb, NEW top, BitTable(bw, wb, top), NEW y \in Nat, y % 2 = 1
    PROVE  Limb(y, 0) \in Nat /\ Limb(y, 0) % 2 = 1
<1>1. /\ top \in Nat /\ wb \in Nat /\ wb > 0 /\ bw[wb] = B /\ wb <= top /\ wb - 1 \in Nat
      /\ (wb - 1) + 1 = wb /\ wb - 1 <= top /\ wb - 1 < top
  <2>1. top \in Nat /\ wb \in Nat /\ wb > 0 /\ bw[wb] = B
    BY BitTop
  <2>2. 1 \in 0..(2 * N) /\ 1 * wb = wb
    BY <2>1, BaseFacts, SMT
  <2>3. wb <= top
    BY <2>2, BitsOfLimbs
  <2> QED
    BY <2>1, <2>3, SMT
<1> DEFINE h == bw[wb - 1]
           q == y \div B
           l == Limb(y, 0)
<1>2. B = 2 * h /\ h \in Nat /\ B \in Nat /\ B > 0
  BY <1>1, BitFacts, BaseFacts, SMT
<1>3. l = y % B
  <2>1. y \div 1 = y
    BY SMT
  <2> QED
    BY <2>1, FirstWeights DEF Limb
<1> HIDE DEF h
<1>4. y = B * q + l /\ q \in Nat /\ l \in Nat
  <2> HIDE DEF l
  <2> QED
    BY <1>2, <1>3, DivMod, SMT
<1> HIDE DEF q, l
<1> DEFINE p == h * q
<1>5. p \in Int /\ B * q = 2 * p
  BY <1>2, <1>4, SMT
<1> HIDE DEF p
<1>6. y = 2 * p + l
  BY <1>4, <1>5
<1>7. l % 2 = 1
  BY <1>4, <1>5, <1>6, SMT
<1> QED
  BY <1>4, <1>7 DEF l

\* What the loop of an exact division starts with: an odd divisor c and the
\* limbs w of it that are in use.
LEMMA ExactEntered ==
    ASSUME NEW bw, NEW wb, NEW top, BitTable(bw, wb, top),
           NEW y \in Nat, y > 0, NEW n \in 1..N, y < W[n],
           NEW l, IsLength(l, y, bw, top),
           NEW k \in Nat, k + 1 <= top, ZerosAre(k, y, bw),
           NEW c, c = y \div bw[k],
           NEW w, w = ((l - k) + wb - 1) \div wb
    PROVE  c \in Nat /\ c % 2 = 1 /\ w \in 1..n /\ c < W[w]
<1>0. top \in Nat /\ k <= top
  <2>1. top \in Nat
    BY BitTop
  <2> QED
    BY <2>1, SMT
<1>1. c \in Nat /\ c > 0 /\ c % 2 = 1 /\ y = bw[k] * c
  BY OddPart
<1> DEFINE g == l - k
<1>2. l \in Nat /\ g \in Nat /\ IsLength(g, c, bw, top) /\ c <= y
  BY <1>0, <1>1, OddLength
<1>3. w = (g + wb - 1) \div wb
  OBVIOUS
<1> HIDE DEF g
<1>4. c < W[n]
  <2> DEFINE m == W[n]
  <2>1. n \in 0..(2 * N)
    BY BaseFacts, SMT
  <2>2. m \in Nat /\ y < m
    BY <2>1, WeightFacts
  <2> HIDE DEF m
  <2>3. c < m
    BY <2>2, <1>1, <1>2, SMT
  <2> QED
    BY <2>3 DEF m
<1>5. w \in Nat /\ 1 <= w /\ w <= n /\ c < W[w]
  BY <1>1, <1>2, <1>3, <1>4, LimbsInUse
<1> QED
  BY <1>1, <1>5, BaseFacts, SMT

\* One iteration, r limbs of the divisor being above limb k.
HenselStep(x, k, r, y, inv, c, xn, x2, c2) ==
    \E q, sub, b, z, meta :
       /\ q = (Limb(x, k) * inv) % B
       /\ sub = (q * (y % W[r])) \div B
       /\ b = IF WindowOf(x, k + 1, r - 1) < sub % W[r - 1] THEN 1 ELSE 0
       /\ z = SetLimb(x, k, q)
                + (((WindowOf(x, k + 1, r - 1) - sub) % W[r - 1])
                     - WindowOf(SetLimb(x, k, q), k + 1, r - 1)) * W[k + 1]
       /\ meta = wrapping_add(c, sub \div W[r - 1])
       /\ IF k + r < xn
            THEN \E p : HenselAbove(z, k + r, meta, b, p, x2, c2)
            ELSE x2 = z /\ c2 = wrapping_add(meta, b)

\* Limb k is to be worked on: the limbs w of the divisor in use fit above it.
HenselHere(x, k, l, r, y, inv, w, xn) ==
    /\ x \in Nat /\ k \in Nat /\ xn \in Nat /\ xn <= 2 * N /\ k + r <= xn /\ r \in Nat
    /\ l \in Nat /\ (IF l < xn - k THEN r = l ELSE r = xn - k)
    /\ w \in Nat /\ w >= 1 /\ w <= r /\ y \in Nat /\ y < W[w]
    /\ inv \in Int /\ (inv * Limb(y, 0)) % B = 1

\* A step of div_exact keeps the equation, at the end of the dividend or before it.
LEMMA HenselDone ==
    ASSUME NEW x, NEW k, NEW l, NEW r, NEW y, NEW inv, NEW w, NEW xn,
           HenselHere(x, k, l, r, y, inv, w, xn),
           NEW v, NEW c, HenselGood(v, y, x, k, c, k + r, xn),
           NEW x2, NEW c2, HenselStep(x, k, r, y, inv, c, xn, x2, c2),
           NEW t2, t2 = IF (k + 1) + l < xn THEN (k + 1) + l ELSE xn,
           (k + 1) + w <= xn
    PROVE  HenselGood(v, y, x2, k + 1, c2, t2, xn)
<1>0. /\ x \in Nat /\ k \in Nat /\ xn \in Nat /\ xn <= 2 * N /\ k + r <= xn /\ r \in Nat
      /\ l \in Nat /\ (IF l < xn - k THEN r = l ELSE r = xn - k)
      /\ w \in Nat /\ w >= 1 /\ w <= r /\ y \in Nat /\ y < W[w]
      /\ inv \in Int /\ (inv * Limb(y, 0)) % B = 1
  BY DEF HenselHere
<1>1. r >= 1 /\ k + r <= 2 * N /\ r \in 0..(2 * N) /\ w \in 0..(2 * N) /\ k \in 0..(2 * N) /\ r <= 2 * N
  BY <1>0, BaseFacts, SMT
<1>2. W[w] <= W[r] /\ W[r] \in Nat /\ W[r] > 0
  <2> DEFINE g == r - w
  <2>1. g \in Nat /\ r = w + g
    BY <1>0, SMT
  <2> HIDE DEF g
  <2> DEFINE a == W[w]
             e == W[g]
             m == W[r]
  <2>2. m = a * e /\ a \in Nat /\ e \in Nat /\ e > 0 /\ m \in Nat /\ m > 0
    BY <2>1, <1>0, <1>1, WeightsAdd
  <2> HIDE DEF a, e, m
  <2>3. a * 1 <= a * e
    BY <2>2, Monotone, SMT
  <2>4. a * 1 = a
    BY <2>2, SMT
  <2>5. a <= m
    BY <2>2, <2>3, <2>4
  <2> QED
    BY <2>2, <2>5 DEF a, m
<1>3. y < W[r] /\ y % W[r] = y
  <2> DEFINE a == W[w]
             m == W[r]
  <2>1. a \in Nat
    BY <1>1, WeightFacts
  <2>2. m \in Nat /\ m > 0 /\ a <= m /\ y < a /\ y \in Nat
    BY <1>0, <1>2
  <2> HIDE DEF a, m
  <2>3. y < m /\ y \in 0..(m - 1)
    BY <2>1, <2>2, SMT
  <2>4. y % m = y
    BY <2>2, <2>3, ResidueItself
  <2> QED
    BY <2>3, <2>4 DEF m
<1>4. PICK q, sub, b, z, meta :
       /\ q = (Limb(x, k) * inv) % B
       /\ sub = (q * (y % W[r])) \div B
       /\ b = IF WindowOf(x, k + 1, r - 1) < sub % W[r - 1] THEN 1 ELSE 0
       /\ z = SetLimb(x, k, q)
                + (((WindowOf(x, k + 1, r - 1) - sub) % W[r - 1])
                     - WindowOf(SetLimb(x, k, q), k + 1, r - 1)) * W[k + 1]
       /\ meta = wrapping_add(c, sub \div W[r - 1])
       /\ IF k + r < xn
            THEN \E p : HenselAbove(z, k + r, meta, b, p, x2, c2)
            ELSE x2 = z /\ c2 = wrapping_add(meta, b)
  BY DEF HenselStep
<1>5. Limb(x, k) \in Word
  BY <1>0, <1>1, LimbType
<1>6. ClearedBy(q, Limb(x, k), inv, y)
  BY <1>0, <1>4, <1>5 DEF ClearedBy
<1>7. q \in Word /\ (q * y) % B = Limb(x, k)
  BY <1>6, LimbCleared
<1>8. sub = (q * y) \div B
  BY <1>3, <1>4
<1>9. HenselAt(x, k, r, y, q, sub, b, z)
  BY <1>0, <1>1, <1>3, <1>4, <1>7, <1>8 DEF HenselAt
<1> DEFINE t  == k + r
           su == sub \div W[r - 1]
<1>10. HenselGood(v, y, x, k, c, t, xn) /\ meta = wrapping_add(c, su) /\ su = sub \div W[r - 1]
  BY <1>4
<1>11. CASE k + r < xn
  <2>1. TopInside(t, k, r, xn)
    BY <1>0, <1>11 DEF TopInside
  <2>2. PICK p : HenselAbove(z, t, meta, b, p, x2, c2)
    BY <1>4, <1>11
  <2>3. t + 1 = t2
    BY <1>0, <1>11, SMT
  <2> HIDE DEF t, su
  <2>4. HenselGood(v, y, x2, k + 1, c2, t + 1, xn)
    BY <1>9, <1>10, <2>1, <2>2, HenselInside
  <2> QED
    BY <2>3, <2>4
<1>12. CASE ~(k + r < xn)
  <2>1. t = xn /\ t2 = xn /\ k + 1 + w <= xn
    BY <1>0, <1>12, SMT
  <2>2. TopAtEnd(t, k, r, xn, w, y)
    BY <1>0, <2>1 DEF TopAtEnd
  <2>3. x2 = z /\ c2 = wrapping_add(wrapping_add(c, su), b)
    BY <1>4, <1>10, <1>12
  <2> HIDE DEF t, su
  <2>4. HenselGood(v, y, z, k + 1, c2, t, xn)
    BY <1>9, <1>10, <2>2, <2>3, HenselAtEnd
  <2> QED
    BY <2>1, <2>3, <2>4
<1> QED
  BY <1>11, <1>12

----------------------------------------------------------------------------
(* Sums, given by their terms.                                             *)

\* The terms of a sum are natural numbers.
Terms(t) == \A e \in Nat : t[e] \in Nat

\* One step of the recursion that adds them up.
AddingTerms(t) == [e \in Nat |-> [v \in Nat |-> v + t[e]]]

\* s[n] is the sum of the terms 1 to n of t.
IsSum(s, t) ==
    /\ s \in [Nat -> Nat]
    /\ s[0] = 0
    /\ \A e \in Nat : s[e + 1] = s[e] + t[e + 1]

\* The sums of terms exist.
LEMMA SumsExist ==
    ASSUME NEW t, Terms(t)
    PROVE  \E s : IsSum(s, t)
<1> DEFINE Step(n) == CHOOSE f : IsRecursion(f, Nat, 0, n, AddingTerms(t))
           s == [n \in Nat |-> Step(n)[n]]
<1>1. Closed(AddingTerms(t), Nat)
  <2> SUFFICES ASSUME NEW e \in Nat, NEW v \in Nat PROVE v + t[e] \in Nat
    BY DEF Closed, AddingTerms
  <2>1. t[e] \in Nat
    BY DEF Terms
  <2> QED
    BY <2>1, SMT
<1>2. ASSUME NEW n \in Nat PROVE IsRecursion(Step(n), Nat, 0, n, AddingTerms(t))
  <2>1. \E f : IsRecursion(f, Nat, 0, n, AddingTerms(t))
    BY <1>1, RecursionExists
  <2> QED
    BY <2>1
<1> HIDE DEF Step
<1>3. ASSUME NEW n \in Nat
      PROVE  s[n] \in Nat /\ (n = 0 => s[n] = 0)
  <2>1. Step(n) \in [0..n -> Nat] /\ Step(n)[0] = 0
    BY <1>2 DEF IsRecursion
  <2>2. n \in 0..n
    BY SMT
  <2> QED
    BY <2>1, <2>2
<1>4. ASSUME NEW n \in Nat PROVE s[n + 1] = s[n] + t[n + 1]
  <2>1. n + 1 \in Nat /\ n + 1 \in 1..(n + 1) /\ (n + 1) - 1 = n /\ n <= n + 1 /\ n <= n
        /\ n \in 0..(n + 1)
    BY SMT
  <2>2. /\ IsRecursion(Step(n), Nat, 0, n, AddingTerms(t))
        /\ IsRecursion(Step(n + 1), Nat, 0, n + 1, AddingTerms(t))
    BY <1>2, <2>1
  <2>3. Step(n + 1)[n] = Step(n)[n]
    BY <2>1, <2>2, RecursionUnique
  <2>4. Step(n + 1)[n] \in Nat
    BY <2>1, <2>2 DEF IsRecursion
  <2>5. Step(n + 1)[n + 1] = AddingTerms(t)[n + 1][Step(n + 1)[(n + 1) - 1]]
    BY <2>1, <2>2 DEF IsRecursion
  <2>6. AddingTerms(t)[n + 1][Step(n + 1)[n]] = Step(n + 1)[n] + t[n + 1]
    BY <2>1, <2>4 DEF AddingTerms
  <2>7. Step(n + 1)[n + 1] = Step(n)[n] + t[n + 1]
    BY <2>1, <2>3, <2>5, <2>6
  <2> QED
    BY <2>1, <2>7
<1>5. IsSum(s, t)
  <2> HIDE DEF s
  <2>1. s[0] = 0
    BY <1>3
  <2>2. s \in [Nat -> Nat]
    BY <1>3 DEF s
  <2> QED
    BY <2>1, <2>2, <1>4 DEF IsSum
<1> QED
  BY <1>5

\* A function on from..to that starts at zero and adds the terms has the
\* differences of the sums as its values.
LEMMA SumsAre ==
    ASSUME NEW t, Terms(t), NEW s, IsSum(s, t), NEW from \in Nat, NEW to \in Nat, from <= to,
           NEW f, f[from] = 0,
           \A e \in Nat : e \in from..to /\ e + 1 <= to => f[e + 1] = f[e] + t[e + 1]
    PROVE  f[to] = s[to] - s[from]
<1> DEFINE T == {e \in Nat : from + e <= to => f[from + e] = s[from + e] - s[from]}
<1>0. \A e \in Nat : s[e] \in Nat
  BY DEF IsSum
<1>1. 0 \in T
  <2>1. from + 0 = from /\ s[from] \in Nat
    BY <1>0, SMT
  <2>2. s[from] - s[from] = 0
    BY <2>1, SMT
  <2> QED
    BY <2>1, <2>2
<1>2. ASSUME NEW e \in T PROVE e + 1 \in T
  <2> SUFFICES ASSUME from + (e + 1) <= to
               PROVE  f[from + (e + 1)] = s[from + (e + 1)] - s[from]
    BY SMT
  <2>1. e \in Nat /\ from + e \in Nat /\ from + e <= to /\ from + e \in from..to
        /\ (from + e) + 1 = from + (e + 1) /\ (from + e) + 1 <= to
    BY SMT
  <2>2. f[from + e] = s[from + e] - s[from]
    BY <2>1
  <2>3. f[(from + e) + 1] = f[from + e] + t[(from + e) + 1]
    BY <2>1
  <2>4. s[(from + e) + 1] = s[from + e] + t[(from + e) + 1]
        /\ s[(from + e) + 1] \in Nat /\ s[from + e] \in Nat /\ s[from] \in Nat
    BY <2>1, <1>0 DEF IsSum
  <2> DEFINE d == t[(from + e) + 1]
             a == s[from + e]
             b == s[from]
             c == s[(from + e) + 1]
  <2>5. c = a + d /\ d \in Nat /\ a \in Nat /\ b \in Nat
        /\ f[(from + e) + 1] = (a - b) + d
    BY <2>1, <2>2, <2>3, <2>4 DEF Terms
  <2>6. f[(from + e) + 1] = c - b
    <3> HIDE DEF a, b, c, d
    <3> QED
      BY <2>5, SMT
  <2> QED
    BY <2>1, <2>6 DEF b, c
<1>3. T = Nat
  <2>1. T \in SUBSET Nat
    OBVIOUS
  <2> HIDE DEF T
  <2> QED
    BY <1>1, <1>2, <2>1, SetInduction
<1>4. to - from \in Nat /\ from + (to - from) = to /\ from + (to - from) <= to
  BY SMT
<1>5. to - from \in T
  BY <1>3, <1>4
<1>6. f[from + (to - from)] = s[from + (to - from)] - s[from]
  BY <1>4, <1>5
<1> QED
  BY <1>4, <1>6

----------------------------------------------------------------------------
(* The sums that the loops are measured by, row by row.                    *)

\* The sums stay natural numbers and grow by one row at a time: those of the
\* products below the diagonal,
CrossRow(x, r) == Limb(x, r) * (x % W[r]) * W[r]

\* A natural number each;
LEMMA CrossRowType ==
    ASSUME NEW x \in Nat, NEW r \in 0..(2 * N)
    PROVE  CrossRow(x, r) \in Nat
<1>1. W[r] \in Nat /\ W[r] > 0
  BY WeightFacts
<1>2. x % W[r] \in Nat /\ Limb(x, r) \in Nat
  BY <1>1, DivMod, LimbType, BaseFacts, SMT DEF Word
<1> DEFINE a == x % W[r]
           b == Limb(x, r)
<1> HIDE DEF a, b
<1>3. b * a * W[r] \in Nat
  BY <1>1, <1>2, SMT DEF a, b
<1> QED
  BY <1>3 DEF CrossRow, a, b

\* their sum grows by one row at a time.
LEMMA CrossRowsSteps ==
    ASSUME NEW x \in Nat
    PROVE  /\ CrossRows(x, 0) = 0
           /\ \A r \in 0..(2 * N) : CrossRows(x, r) \in Nat
           /\ \A r \in 0..(2 * N - 1) : CrossRows(x, r + 1) = CrossRows(x, r) + CrossRow(x, r)
<1> DEFINE t == [e \in Nat |-> IF e \in 1..(2 * N) THEN CrossRow(x, e - 1) ELSE 0]
<1>1. Terms(t)
  <2>1. ASSUME NEW e \in 1..(2 * N) PROVE CrossRow(x, e - 1) \in Nat
    <3>1. e - 1 \in 0..(2 * N)
      BY BaseFacts, SMT
    <3> QED
      BY <3>1, CrossRowType
  <2> QED
    BY <2>1 DEF Terms
<1>2. \A e \in 1..(2 * N) : t[e] = CrossRow(x, e - 1)
  BY BaseFacts, SMT
<1> HIDE DEF t
<1>3. PICK s : IsSum(s, t)
  BY <1>1, SumsExist
<1>4. s[0] = 0 /\ s \in [Nat -> Nat] /\ \A e \in Nat : s[e + 1] = s[e] + t[e + 1]
  BY <1>3 DEF IsSum
<1>5. ASSUME NEW rows \in 0..(2 * N)
      PROVE  CrossRows(x, rows) = s[rows]
  <2> DEFINE f == CHOOSE f : f = [r \in 0..rows |->
                IF r = 0 THEN 0
                ELSE f[r - 1] + Limb(x, r - 1) * (x % W[r - 1]) * W[r - 1]]
             g == [r \in 0..rows |-> s[r]]
  <2>1. rows \in Nat /\ N \in Nat
    BY BaseFacts, SMT
  <2>2. g = [r \in 0..rows |->
                IF r = 0 THEN 0
                ELSE g[r - 1] + Limb(x, r - 1) * (x % W[r - 1]) * W[r - 1]]
    <3>1. ASSUME NEW r \in 0..rows, r # 0
          PROVE  s[r] = g[r - 1] + Limb(x, r - 1) * (x % W[r - 1]) * W[r - 1]
      <4>1. r \in Nat /\ r - 1 \in Nat /\ r - 1 \in 0..rows /\ (r - 1) + 1 = r
            /\ r \in 1..(2 * N)
        BY <2>1, <3>1, SMT
      <4>2. s[(r - 1) + 1] = s[r - 1] + t[(r - 1) + 1]
        BY <1>4, <4>1
      <4>3. s[r] = s[r - 1] + CrossRow(x, r - 1)
        BY <1>2, <4>1, <4>2
      <4> QED
        BY <4>1, <4>3 DEF CrossRow
    <3> QED
      BY <1>4, <3>1
  <2> HIDE DEF g
  <2>3. f = [r \in 0..rows |->
                IF r = 0 THEN 0
                ELSE f[r - 1] + Limb(x, r - 1) * (x % W[r - 1]) * W[r - 1]]
    BY <2>2
  <2>4. CrossRows(x, rows) = f[rows]
    BY DEF CrossRows
  <2> HIDE DEF f
  <2>5. f[0] = 0
    <3>1. 0 \in 0..rows
      BY <2>1, SMT
    <3> QED
      BY <2>3, <3>1
  <2>6. ASSUME NEW e \in Nat, e \in 0..rows, e + 1 <= rows
        PROVE  f[e + 1] = f[e] + t[e + 1]
    <3>1. e + 1 \in 0..rows /\ e + 1 # 0 /\ (e + 1) - 1 = e /\ e + 1 \in 1..(2 * N)
      BY <2>1, <2>6, SMT
    <3>2. f[e + 1] = f[(e + 1) - 1]
              + Limb(x, (e + 1) - 1) * (x % W[(e + 1) - 1]) * W[(e + 1) - 1]
      BY <2>3, <3>1
    <3>3. t[e + 1] = CrossRow(x, (e + 1) - 1)
      BY <1>2, <3>1
    <3> QED
      BY <3>1, <3>2, <3>3 DEF CrossRow
  <2>7. f[rows] = s[rows] - s[0]
    <3>1. 0 \in Nat /\ 0 <= rows
      BY <2>1, SMT
    <3> QED
      BY <1>1, <1>3, <2>1, <2>5, <2>6, <3>1, SumsAre
  <2>8. s[rows] \in Nat
    BY <1>4, <2>1
  <2>9. s[rows] - s[0] = s[rows]
    BY <1>4, <2>8, SMT
  <2> QED
    BY <2>4, <2>7, <2>9
<1>6. 0 \in 0..(2 * N)
  BY BaseFacts, SMT
<1>7. ASSUME NEW r \in 0..(2 * N - 1)
      PROVE  CrossRows(x, r + 1) = CrossRows(x, r) + CrossRow(x, r)
  <2>1. r \in Nat /\ r \in 0..(2 * N) /\ r + 1 \in 0..(2 * N) /\ r + 1 \in 1..(2 * N)
        /\ (r + 1) - 1 = r
    BY BaseFacts, SMT
  <2>2. s[r + 1] = s[r] + t[r + 1] /\ t[r + 1] = CrossRow(x, (r + 1) - 1)
    BY <1>2, <1>4, <2>1
  <2>3. CrossRows(x, r + 1) = s[r + 1] /\ CrossRows(x, r) = s[r]
    BY <1>5, <2>1
  <2> QED
    BY <2>1, <2>2, <2>3
<1>8. ASSUME NEW r \in 0..(2 * N) PROVE CrossRows(x, r) \in Nat
  <2>1. r \in Nat
    BY BaseFacts, SMT
  <2> QED
    BY <1>4, <1>5, <2>1
<1> QED
  BY <1>4, <1>5, <1>6, <1>7, <1>8

\* those of the rows of x times y cut off at limb on,
CutRow(x, y, on, r) == IF r + 1 > on THEN 0 ELSE Limb(x, r) * (y % W[on - r]) * W[r]

\* A natural number each;
LEMMA CutRowType ==
    ASSUME NEW x \in Nat, NEW y \in Nat, NEW on \in 0..(2 * N), NEW r \in 0..(2 * N)
    PROVE  CutRow(x, y, on, r) \in Nat
<1>1. CASE r + 1 > on
  BY <1>1 DEF CutRow
<1>2. CASE ~(r + 1 > on)
  <2>1. r \in Nat /\ on - r \in 0..(2 * N)
    BY <1>2, BaseFacts, SMT
  <2>2. W[r] \in Nat /\ W[on - r] \in Nat /\ W[on - r] > 0
    BY <2>1, WeightFacts
  <2> DEFINE a == y % W[on - r]
             b == Limb(x, r)
  <2>3. a \in Nat /\ b \in Nat
    BY <2>2, DivMod, LimbType, BaseFacts, SMT DEF Word
  <2> HIDE DEF a, b
  <2>4. b * a * W[r] \in Nat
    BY <2>2, <2>3, SMT
  <2> QED
    BY <1>2, <2>4 DEF CutRow, a, b
<1> QED
  BY <1>1, <1>2

\* their sum grows by one row at a time.
LEMMA CutRowsSteps ==
    ASSUME NEW x \in Nat, NEW y \in Nat, NEW on \in 0..(2 * N)
    PROVE  /\ CutRows(x, y, on, 0) = 0
           /\ \A r \in 0..(2 * N) : CutRows(x, y, on, r) \in Nat
           /\ \A r \in 0..(2 * N - 1) : CutRows(x, y, on, r + 1)
                  = CutRows(x, y, on, r) + CutRow(x, y, on, r)
<1> DEFINE t == [e \in Nat |-> IF e \in 1..(2 * N) THEN CutRow(x, y, on, e - 1) ELSE 0]
<1>1. Terms(t)
  <2>1. ASSUME NEW e \in 1..(2 * N) PROVE CutRow(x, y, on, e - 1) \in Nat
    <3>1. e - 1 \in 0..(2 * N)
      BY BaseFacts, SMT
    <3> QED
      BY <3>1, CutRowType
  <2> QED
    BY <2>1 DEF Terms
<1>2. \A e \in 1..(2 * N) : t[e] = CutRow(x, y, on, e - 1)
  BY BaseFacts, SMT
<1> HIDE DEF t
<1>3. PICK s : IsSum(s, t)
  BY <1>1, SumsExist
<1>4. s[0] = 0 /\ s \in [Nat -> Nat] /\ \A e \in Nat : s[e + 1] = s[e] + t[e + 1]
  BY <1>3 DEF IsSum
<1>5. ASSUME NEW rows \in 0..(2 * N)
      PROVE  CutRows(x, y, on, rows) = s[rows]
  <2> DEFINE f == CHOOSE f : f = [r \in 0..rows |->
                IF r = 0 THEN 0
                ELSE f[r - 1] + (IF r > on THEN 0
                             ELSE Limb(x, r - 1) * (y % W[on - r + 1]) * W[r - 1])]
             g == [r \in 0..rows |-> s[r]]
  <2>1. rows \in Nat /\ N \in Nat
    BY BaseFacts, SMT
  <2>2. g = [r \in 0..rows |->
                IF r = 0 THEN 0
                ELSE g[r - 1] + (IF r > on THEN 0
                             ELSE Limb(x, r - 1) * (y % W[on - r + 1]) * W[r - 1])]
    <3>1. ASSUME NEW r \in 0..rows, r # 0
          PROVE  s[r] = g[r - 1] + (IF r > on THEN 0
                             ELSE Limb(x, r - 1) * (y % W[on - r + 1]) * W[r - 1])
      <4>1. r \in Nat /\ r - 1 \in Nat /\ r - 1 \in 0..rows /\ (r - 1) + 1 = r
            /\ r \in 1..(2 * N)
        BY <2>1, <3>1, SMT
      <4>2. s[(r - 1) + 1] = s[r - 1] + t[(r - 1) + 1]
        BY <1>4, <4>1
      <4>3. s[r] = s[r - 1] + CutRow(x, y, on, r - 1)
        BY <1>2, <4>1, <4>2
      <4> QED
        BY <4>1, <4>3 DEF CutRow
    <3> QED
      BY <1>4, <3>1
  <2> HIDE DEF g
  <2>3. f = [r \in 0..rows |->
                IF r = 0 THEN 0
                ELSE f[r - 1] + (IF r > on THEN 0
                             ELSE Limb(x, r - 1) * (y % W[on - r + 1]) * W[r - 1])]
    BY <2>2
  <2>4. CutRows(x, y, on, rows) = f[rows]
    BY DEF CutRows
  <2> HIDE DEF f
  <2>5. f[0] = 0
    <3>1. 0 \in 0..rows
      BY <2>1, SMT
    <3> QED
      BY <2>3, <3>1
  <2>6. ASSUME NEW e \in Nat, e \in 0..rows, e + 1 <= rows
        PROVE  f[e + 1] = f[e] + t[e + 1]
    <3>1. e + 1 \in 0..rows /\ e + 1 # 0 /\ (e + 1) - 1 = e /\ e + 1 \in 1..(2 * N)
      BY <2>1, <2>6, SMT
    <3>2. f[e + 1] = f[(e + 1) - 1]
              + (IF e + 1 > on THEN 0
                             ELSE Limb(x, (e + 1) - 1) * (y % W[on - (e + 1) + 1]) * W[(e + 1) - 1])
      BY <2>3, <3>1
    <3>3. t[e + 1] = CutRow(x, y, on, (e + 1) - 1)
      BY <1>2, <3>1
    <3> QED
      BY <3>1, <3>2, <3>3 DEF CutRow
  <2>7. f[rows] = s[rows] - s[0]
    <3>1. 0 \in Nat /\ 0 <= rows
      BY <2>1, SMT
    <3> QED
      BY <1>1, <1>3, <2>1, <2>5, <2>6, <3>1, SumsAre
  <2>8. s[rows] \in Nat
    BY <1>4, <2>1
  <2>9. s[rows] - s[0] = s[rows]
    BY <1>4, <2>8, SMT
  <2> QED
    BY <2>4, <2>7, <2>9
<1>6. 0 \in 0..(2 * N)
  BY BaseFacts, SMT
<1>7. ASSUME NEW r \in 0..(2 * N - 1)
      PROVE  CutRows(x, y, on, r + 1)
                  = CutRows(x, y, on, r) + CutRow(x, y, on, r)
  <2>1. r \in Nat /\ r \in 0..(2 * N) /\ r + 1 \in 0..(2 * N) /\ r + 1 \in 1..(2 * N)
        /\ (r + 1) - 1 = r
    BY BaseFacts, SMT
  <2>2. s[r + 1] = s[r] + t[r + 1] /\ t[r + 1] = CutRow(x, y, on, (r + 1) - 1)
    BY <1>2, <1>4, <2>1
  <2>3. CutRows(x, y, on, r + 1) = s[r + 1] /\ CutRows(x, y, on, r) = s[r]
    BY <1>5, <2>1
  <2> QED
    BY <2>1, <2>2, <2>3
<1>8. ASSUME NEW r \in 0..(2 * N) PROVE CutRows(x, y, on, r) \in Nat
  <2>1. r \in Nat
    BY BaseFacts, SMT
  <2> QED
    BY <1>4, <1>5, <2>1
<1> QED
  BY <1>4, <1>5, <1>6, <1>7, <1>8

\* and those of the squares of the limbs.
LimbSquare(x, r) == Limb(x, r) * Limb(x, r) * W[2 * r]

\* A natural number each;
LEMMA LimbSquareType ==
    ASSUME NEW x \in Nat, NEW r \in 0..N
    PROVE  LimbSquare(x, r) \in Nat
<1>1. r \in 0..(2 * N) /\ 2 * r \in 0..(2 * N)
  BY BaseFacts, SMT
<1> DEFINE a == Limb(x, r)
           w == W[2 * r]
<1>2. a \in Nat /\ w \in Nat
  BY <1>1, LimbType, WeightFacts, BaseFacts, SMT DEF Word
<1> HIDE DEF a, w
<1>3. a * a * w \in Nat
  BY <1>2, SMT
<1> QED
  BY <1>3 DEF LimbSquare, a, w

\* their sum grows by one square at a time.
LEMMA DiagonalSteps ==
    ASSUME NEW x \in Nat, NEW from \in 0..N
    PROVE  /\ DiagonalSquares(x, from, from) = 0
           /\ \A r \in from..N : DiagonalSquares(x, from, r) \in Nat
           /\ \A r \in from..(N - 1) : DiagonalSquares(x, from, r + 1)
                  = DiagonalSquares(x, from, r) + LimbSquare(x, r)
<1> DEFINE t == [e \in Nat |-> IF e \in 1..N THEN LimbSquare(x, e - 1) ELSE 0]
<1>0. N \in Nat /\ from \in Nat /\ from <= N
  BY BaseFacts, SMT
<1>1. Terms(t)
  <2>1. ASSUME NEW e \in 1..N PROVE LimbSquare(x, e - 1) \in Nat
    <3>1. e - 1 \in 0..N
      BY <1>0, SMT
    <3> QED
      BY <3>1, LimbSquareType
  <2> QED
    BY <2>1 DEF Terms
<1>2. \A e \in 1..N : t[e] = LimbSquare(x, e - 1)
  BY <1>0, SMT
<1> HIDE DEF t
<1>3. PICK s : IsSum(s, t)
  BY <1>1, SumsExist
<1>4. s[0] = 0 /\ s \in [Nat -> Nat] /\ \A e \in Nat : s[e + 1] = s[e] + t[e + 1]
  BY <1>3 DEF IsSum
<1>5. ASSUME NEW to \in from..N
      PROVE  DiagonalSquares(x, from, to) = s[to] - s[from]
  <2> DEFINE f == CHOOSE f : f = [r \in from..to |->
                IF r = from THEN 0
                ELSE f[r - 1] + Limb(x, r - 1) * Limb(x, r - 1) * W[2 * (r - 1)]]
             g == [r \in from..to |-> s[r] - s[from]]
  <2>1. to \in Nat /\ from <= to
    BY <1>0, SMT
  <2>2. g = [r \in from..to |->
                IF r = from THEN 0
                ELSE g[r - 1] + Limb(x, r - 1) * Limb(x, r - 1) * W[2 * (r - 1)]]
    <3>1. ASSUME NEW r \in from..to, r # from
          PROVE  s[r] - s[from]
                   = g[r - 1] + Limb(x, r - 1) * Limb(x, r - 1) * W[2 * (r - 1)]
      <4>1. r \in Nat /\ r - 1 \in Nat /\ r - 1 \in from..to /\ (r - 1) + 1 = r
            /\ r \in 1..N
        BY <1>0, <2>1, <3>1, SMT
      <4>2. s[(r - 1) + 1] = s[r - 1] + t[(r - 1) + 1]
        BY <1>4, <4>1
      <4>3. s[r] = s[r - 1] + LimbSquare(x, r - 1)
        BY <1>2, <4>1, <4>2
      <4>4. g[r - 1] = s[r - 1] - s[from]
        BY <4>1
      <4>5. s[r] - s[from] = (s[r - 1] - s[from]) + LimbSquare(x, r - 1)
        <5> DEFINE a == s[r]
                   b == s[r - 1]
                   c == s[from]
                   d == LimbSquare(x, r - 1)
        <5>1. r - 1 \in 0..N
          BY <1>0, <4>1, SMT
        <5>2. a \in Nat /\ b \in Nat /\ c \in Nat /\ d \in Nat /\ a = b + d
          BY <1>0, <1>4, <4>1, <4>3, <5>1, LimbSquareType
        <5> HIDE DEF a, b, c, d
        <5>3. a - c = (b - c) + d
          BY <5>2, SMT
        <5> QED
          BY <5>3 DEF a, b, c, d
      <4> QED
        BY <4>4, <4>5 DEF LimbSquare
    <3>2. s[from] - s[from] = 0
      <4>1. s[from] \in Nat
        BY <1>0, <1>4
      <4> QED
        BY <4>1, SMT
    <3> QED
      BY <3>1, <3>2
  <2> HIDE DEF g
  <2>3. f = [r \in from..to |->
                IF r = from THEN 0
                ELSE f[r - 1] + Limb(x, r - 1) * Limb(x, r - 1) * W[2 * (r - 1)]]
    BY <2>2
  <2>4. DiagonalSquares(x, from, to) = f[to]
    BY DEF DiagonalSquares
  <2> HIDE DEF f
  <2>5. f[from] = 0
    <3>1. from \in from..to
      BY <1>0, <2>1, SMT
    <3> QED
      BY <2>3, <3>1
  <2>6. ASSUME NEW e \in Nat, e \in from..to, e + 1 <= to
        PROVE  f[e + 1] = f[e] + t[e + 1]
    <3>1. e + 1 \in from..to /\ e + 1 # from /\ (e + 1) - 1 = e /\ e + 1 \in 1..N
      BY <1>0, <2>1, <2>6, SMT
    <3>2. f[e + 1] = f[(e + 1) - 1]
              + Limb(x, (e + 1) - 1) * Limb(x, (e + 1) - 1) * W[2 * ((e + 1) - 1)]
      BY <2>3, <3>1
    <3>3. t[e + 1] = LimbSquare(x, (e + 1) - 1)
      BY <1>2, <3>1
    <3> QED
      BY <3>1, <3>2, <3>3 DEF LimbSquare
  <2>7. f[to] = s[to] - s[from]
    BY <1>0, <1>1, <1>3, <2>1, <2>5, <2>6, SumsAre
  <2> QED
    BY <2>4, <2>7
<1>6. \A r \in Nat : s[r] \in Nat
  BY <1>4
<1>7. ASSUME NEW r \in from..(N - 1)
      PROVE  DiagonalSquares(x, from, r + 1) = DiagonalSquares(x, from, r) + LimbSquare(x, r)
  <2>1. r \in Nat /\ r \in from..N /\ r + 1 \in from..N /\ r + 1 \in 1..N
        /\ (r + 1) - 1 = r /\ r + 1 \in Nat /\ r \in 0..N
    BY <1>0, SMT
  <2> DEFINE a == s[r + 1]
             b == s[r]
             c == s[from]
             d == LimbSquare(x, r)
  <2>2. a = b + d
    BY <1>2, <1>4, <2>1
  <2>3. a \in Nat /\ b \in Nat /\ c \in Nat /\ d \in Nat
    BY <1>0, <1>6, <2>1, LimbSquareType
  <2>4. DiagonalSquares(x, from, r + 1) = a - c /\ DiagonalSquares(x, from, r) = b - c
    BY <1>5, <2>1
  <2> HIDE DEF a, b, c, d
  <2>5. a - c = (b - c) + d
    BY <2>2, <2>3, SMT
  <2> QED
    BY <2>4, <2>5 DEF d
<1>8. DiagonalSquares(x, from, from) = 0
  <2>1. from \in from..N /\ s[from] \in Nat
    BY <1>0, <1>6, SMT
  <2>2. s[from] - s[from] = 0
    BY <2>1, SMT
  <2> QED
    BY <1>5, <2>1, <2>2
<1> DEFINE D == [r \in from..N |-> DiagonalSquares(x, from, r)]
<1>9. D[from] \in Nat /\ \A r \in from..(N - 1) : D[r] \in Nat => D[r + 1] \in Nat
  <2>1. from \in from..N
    BY <1>0, SMT
  <2>2. ASSUME NEW r \in from..(N - 1), D[r] \in Nat PROVE D[r + 1] \in Nat
    <3>1. r \in from..N /\ r + 1 \in from..N /\ r \in 0..N
      BY <1>0, SMT
    <3> DEFINE d == LimbSquare(x, r)
               a == D[r]
    <3>2. d \in Nat /\ a \in Nat /\ D[r + 1] = a + d
      BY <1>7, <2>2, <3>1, LimbSquareType
    <3> HIDE DEF a, d, D
    <3> QED
      BY <3>2, SMT
  <2> QED
    BY <1>8, <2>1, <2>2
<1> DEFINE T == {k \in Nat : from + k <= N => D[from + k] \in Nat}
<1>10. T = Nat
  <2> HIDE DEF D
  <2>1. 0 \in T
    BY <1>0, <1>9, SMT
  <2>2. ASSUME NEW k \in T PROVE k + 1 \in T
    <3> SUFFICES ASSUME from + (k + 1) <= N PROVE D[from + (k + 1)] \in Nat
      BY SMT
    <3>1. k \in Nat /\ from + k <= N /\ from + k \in from..(N - 1)
          /\ (from + k) + 1 = from + (k + 1)
      BY <1>0, SMT
    <3> QED
      BY <1>9, <3>1
  <2>3. T \in SUBSET Nat
    OBVIOUS
  <2> HIDE DEF T
  <2> QED
    BY <2>1, <2>2, <2>3, SetInduction
<1>11. ASSUME NEW r \in from..N PROVE DiagonalSquares(x, from, r) \in Nat
  <2>1. r - from \in Nat /\ from + (r - from) = r /\ r <= N
    BY <1>0, SMT
  <2>2. r - from \in T
    BY <1>10, <2>1
  <2> HIDE DEF D
  <2>3. D[r] \in Nat
    BY <2>1, <2>2
  <2> QED
    BY <2>3 DEF D
<1> QED
  BY <1>7, <1>8, <1>11

\* The squares of the limbs from one limb on are those up to another and those
\* from there on.
LEMMA DiagonalSplits ==
    ASSUME NEW x \in Nat, NEW from \in 0..N, NEW mid \in from..N, NEW to \in mid..N
    PROVE  DiagonalSquares(x, from, to)
             = DiagonalSquares(x, from, mid) + DiagonalSquares(x, mid, to)
<1> DEFINE whole == [k \in Nat |-> DiagonalSquares(x, from, mid + k)]
           upper == [k \in Nat |-> DiagonalSquares(x, mid, mid + k)]
           lower == DiagonalSquares(x, from, mid)
           T == {k \in Nat : mid + k <= N => whole[k] = lower + upper[k]}
<1>1. /\ N \in Nat /\ from \in Nat /\ mid \in Nat /\ to \in Nat
      /\ from <= mid /\ mid <= to /\ to <= N /\ mid \in 0..N /\ mid + 0 = mid
  BY BaseFacts, SMT
<1>2. lower \in Nat
  BY <1>1, DiagonalSteps
<1>3. whole[0] = lower + upper[0]
  <2>1. whole[0] = lower /\ upper[0] = 0
    BY <1>1, DiagonalSteps
  <2> HIDE DEF whole, lower, upper
  <2> QED
    BY <1>2, <2>1, SMT
<1>4. ASSUME NEW k \in T, mid + (k + 1) <= N
      PROVE  whole[k + 1] = lower + upper[k + 1]
  <2>1. /\ k \in Nat /\ k + 1 \in Nat /\ mid + k <= N /\ mid + k \in from..(N - 1)
        /\ mid + k \in mid..(N - 1) /\ (mid + k) + 1 = mid + (k + 1)
        /\ mid + k \in mid..N /\ mid + k \in 0..N
    BY <1>1, <1>4, SMT
  <2> DEFINE d == LimbSquare(x, mid + k)
             u == upper[k]
  <2>2. whole[k] = lower + u
    BY <2>1
  <2>3. whole[k + 1] = whole[k] + d /\ upper[k + 1] = u + d
    BY <1>1, <2>1, DiagonalSteps
  <2>4. d \in Nat /\ u \in Nat
    BY <1>1, <2>1, DiagonalSteps, LimbSquareType
  <2> HIDE DEF whole, upper, lower, d, u
  <2> QED
    BY <1>2, <2>2, <2>3, <2>4, SMT
<1>5. T = Nat
  <2>1. 0 \in T
    BY <1>3
  <2>2. ASSUME NEW k \in T PROVE k + 1 \in T
    <3>1. k \in Nat /\ k + 1 \in Nat
      OBVIOUS
    <3> QED
      BY <1>4, <3>1
  <2>3. T \in SUBSET Nat
    OBVIOUS
  <2> HIDE DEF T
  <2> QED
    BY <2>1, <2>2, <2>3, SetInduction
<1>6. to - mid \in Nat /\ mid + (to - mid) = to
  BY <1>1, SMT
<1>7. whole[to - mid] = lower + upper[to - mid]
  <2>1. to - mid \in T
    BY <1>5, <1>6
  <2> QED
    BY <1>1, <1>6, <2>1
<1> QED
  BY <1>6, <1>7

----------------------------------------------------------------------------
(* A limb of a product, stored in a buffer.                                *)

\* A word stored in a limb of an integer of any length replaces that limb.
LEMMA StoreIs ==
    ASSUME NEW z \in Nat, NEW k \in 0..(2 * N - 1), NEW v \in Word
    PROVE  /\ SetLimb(z, k, v) \in Nat
           /\ SetLimb(z, k, v) + W[k] * Limb(z, k) = z + W[k] * v
           /\ SetLimb(z, k, v) \div W[k + 1] = z \div W[k + 1]
           /\ SetLimb(z, k, v) % W[k + 1] = (z % W[k]) + W[k] * v
<1> DEFINE w == W[k]
           l == Limb(z, k)
           lo == z % w
           hi == z \div W[k + 1]
           st == SetLimb(z, k, v)
           r == lo + w * v
<1>1. /\ k \in 0..(2 * N) /\ w \in Nat /\ w > 0 /\ B \in Nat /\ B >= 2
      /\ W[k + 1] = B * w /\ W[k + 1] \in Nat /\ W[k + 1] > 0
  BY WeightFacts, BaseFacts, SMT
<1>2. l \in Nat /\ lo \in Nat /\ lo < w /\ hi \in Nat /\ v \in Nat /\ v <= B - 1
  BY <1>1, LimbType, DivMod, SMT DEF Word
<1>3. z % W[k + 1] = lo + w * l
  BY LowLimbs
<1>4. z = (B * w) * hi + (lo + w * l)
  <2>1. z = W[k + 1] * (z \div W[k + 1]) + (z % W[k + 1])
    BY <1>1, DivMod
  <2> QED
    BY <1>1, <1>3, <2>1
<1>5. st = z + (v - l) * w
  BY DEF SetLimb
<1> HIDE DEF st, l, lo, hi, w
<1>6. st = (B * w) * hi + r
  BY <1>1, <1>2, <1>4, <1>5, SMT
<1>7. r \in Nat /\ r <= B * w - 1
  <2>1. w * v <= w * (B - 1)
    BY <1>1, <1>2, Monotone, SMT
  <2> QED
    BY <1>1, <1>2, <2>1, SMT
<1>8. st \in Nat
  <2>1. (B * w) * hi \in Nat
    BY <1>1, <1>2, SMT
  <2> QED
    BY <1>6, <1>7, <2>1, SMT
<1>9. st + w * l = z + w * v
  <2>1. w * v \in Int /\ w * l \in Int /\ (v - l) * w = w * v - w * l
    BY <1>1, <1>2, SMT
  <2> QED
    BY <1>2, <1>5, <2>1, <1>8, SMT
<1>10. st \div (B * w) = hi /\ st % (B * w) = r
  <2> DEFINE c == B * w
  <2>1. c \in Nat /\ c > 0 /\ r \in 0..(c - 1) /\ st = c * hi + r /\ st \in Int /\ hi \in Int
    BY <1>1, <1>2, <1>6, <1>7, <1>8, SMT
  <2> HIDE DEF c, r
  <2> QED
    BY <2>1, DivisionIs DEF c
<1> QED
  BY <1>1, <1>8, <1>9, <1>10 DEF st, l, lo, hi, w

\* After len limbs of a row from limb at on: a is the buffer, c the carry.
RowDone(z, xi, y, at, len, a, c) ==
    /\ a \in Nat /\ c \in Word
    /\ a + c * W[at + len] = z + xi * (y % W[len]) * W[at]
    /\ a \div W[at + len] = z \div W[at + len]

\* One more limb of the row.
LEMMA RowLimb ==
    ASSUME NEW z \in Nat, NEW xi \in Word, NEW y \in Nat, NEW at \in Nat, NEW len \in Nat,
           at + len < 2 * N, NEW a, NEW c, RowDone(z, xi, y, at, len, a, c),
           NEW m, m = carrying_mul_add(xi, Limb(y, len), Limb(a, at + len), c)
    PROVE  RowDone(z, xi, y, at, len + 1, SetLimb(a, at + len, m[1]), m[2])
<1> DEFINE u == W[at]
           k == W[len]
           w == W[at + len]
           yl == Limb(y, len)
           al == Limb(a, at + len)
           lo == y % k
           st == SetLimb(a, at + len, m[1])
<1>1. /\ N \in Nat /\ B \in Nat /\ at \in 0..(2 * N) /\ len \in 0..(2 * N)
      /\ len \in 0..(2 * N - 1) /\ at + len \in 0..(2 * N - 1) /\ at + len \in 0..(2 * N)
      /\ (at + len) + 1 = at + (len + 1) /\ at + len <= 2 * N
  BY BaseFacts, SMT
<1>2. /\ a \in Nat /\ c \in Word
      /\ a + c * w = z + xi * lo * u
      /\ a \div w = z \div w
  BY DEF RowDone
<1>3. w = u * k /\ u \in Nat /\ k \in Nat /\ k > 0 /\ W[at + (len + 1)] = B * w
  BY <1>1, WeightsMultiply, WeightFacts, SMT
<1>4. yl \in Word /\ al \in Word
  BY <1>1, <1>2, LimbType
<1>5. m[1] \in Word /\ m[2] \in Word /\ m[1] + B * m[2] = xi * yl + al + c
  BY <1>2, <1>4, MulAddExact
<1>6. /\ st \in Nat /\ st + w * al = a + w * m[1]
      /\ st \div W[at + (len + 1)] = a \div W[at + (len + 1)]
  <2>1. a \in Nat /\ at + len \in 0..(2 * N - 1) /\ m[1] \in Word
        /\ W[(at + len) + 1] = W[at + (len + 1)]
    BY <1>1, <1>2, <1>5
  <2>2. /\ st \in Nat /\ st + w * al = a + w * m[1]
        /\ st \div W[(at + len) + 1] = a \div W[(at + len) + 1]
    BY <2>1, StoreIs
  <2> QED
    BY <2>1, <2>2
<1>7. a \div W[at + (len + 1)] = z \div W[at + (len + 1)]
  <2>1. /\ a \div W[at + (len + 1)] = (a \div w) \div B
        /\ z \div W[at + (len + 1)] = (z \div w) \div B
    BY <1>1, <1>2, HighLimbs
  <2> QED
    BY <1>2, <2>1
<1>8. y % W[len + 1] = lo + k * yl
  BY <1>1, LowLimbs
<1>9. st + m[2] * (B * w) = z + xi * (lo + k * yl) * u
  <2>1. lo \in Nat /\ yl \in Nat /\ al \in Nat /\ m[1] \in Nat /\ m[2] \in Nat /\ c \in Nat
        /\ xi \in Nat /\ w \in Nat
    BY <1>1, <1>2, <1>3, <1>4, <1>5, DivMod, SMT DEF Word
  <2> DEFINE p == m[1]
             q == m[2]
  <2> HIDE DEF u, k, w, yl, al, lo, st, p, q
  <2>2. w * (p + B * q) = w * (xi * yl + al + c)
    BY <1>5 DEF p, q
  <2>3. w * p + q * (B * w) = w * (p + B * q)
    BY <1>1, <2>1, SMT DEF p, q
  <2>4. w * (xi * yl + al + c) = w * (xi * yl) + w * al + c * w
    BY <2>1, SMT
  <2>5. st + w * al + q * (B * w) = a + c * w + w * al + w * (xi * yl)
    <3>1. w * p \in Nat /\ q * (B * w) \in Nat /\ w * al \in Nat /\ c * w \in Nat
          /\ w * (xi * yl) \in Nat
      BY <1>1, <2>1, SMT DEF p, q
    <3>2. st + w * al = a + w * p
      BY <1>6 DEF p
    <3> DEFINE e1 == w * p
               e2 == q * (B * w)
               e3 == w * al
               e4 == c * w
               e5 == w * (xi * yl)
    <3>3. e1 + e2 = e5 + e3 + e4
      BY <2>2, <2>3, <2>4
    <3> HIDE DEF e1, e2, e3, e4, e5
    <3>4. st + e3 + e2 = a + e4 + e3 + e5
      BY <1>2, <1>6, <3>1, <3>2, <3>3, SMT DEF e1, e2, e3, e4, e5
    <3> QED
      BY <3>4 DEF e2, e3, e4, e5
  <2>6. xi * (lo + k * yl) * u = xi * lo * u + w * (xi * yl)
    <3>1. xi * (lo + k * yl) * u = xi * lo * u + (u * k) * (xi * yl)
      BY <1>3, <2>1, SMT DEF u, k
    <3> QED
      BY <1>3, <3>1 DEF u, k, w
  <2> DEFINE g1 == q * (B * w)
             g2 == w * al
             g3 == w * (xi * yl)
             g4 == xi * lo * u
             g5 == c * w
  <2>7. g1 \in Nat /\ g2 \in Nat /\ g3 \in Nat /\ g4 \in Nat /\ g5 \in Nat
    BY <1>1, <1>3, <2>1, SMT DEF p, q, u
  <2>8. st + g2 + g1 = a + g5 + g2 + g3 /\ a + g5 = z + g4
    BY <1>2, <2>5 DEF st, w, lo, u
  <2>9. st + g1 = z + (g4 + g3)
    <3>1. st \in Nat /\ a \in Nat
      BY <1>2, <1>6 DEF st
    <3> HIDE DEF g1, g2, g3, g4, g5
    <3> QED
      BY <3>1, <2>7, <2>8, SMT
  <2> QED
    BY <2>6, <2>9 DEF q
<1> QED
  BY <1>3, <1>5, <1>6, <1>7, <1>8, <1>9 DEF RowDone

\* Quotient and remainder of natural numbers.
LEMMA NatDivMod ==
    ASSUME NEW a \in Nat, NEW b \in Nat, b > 0
    PROVE  /\ a \div b \in Nat /\ a % b \in Nat /\ a % b < b
           /\ a = b * (a \div b) + (a % b)
<1>1. a \in Int /\ a >= 0
  BY SMT
<1> QED
  BY <1>1, DivMod

\* The integers below the weight of a limb are those with nothing from it up.
LEMMA BelowWeight ==
    ASSUME NEW a \in Nat, NEW k \in 0..(2 * N)
    PROVE  a < W[k] <=> a \div W[k] = 0
<1> DEFINE w == W[k]
           q == a \div w
           r == a % w
<1>1. w \in Nat /\ w > 0
  BY WeightFacts
<1>2. q \in Nat /\ r \in Nat /\ r < w /\ a = w * q + r
  BY <1>1, NatDivMod
<1> HIDE DEF w, q, r
<1>3. q = 0 => a < w
  BY <1>1, <1>2, SMT
<1>4. q >= 1 => w * q >= w
  BY <1>1, <1>2, SMT
<1>5. q # 0 => a >= w
  BY <1>1, <1>2, <1>4, SMT
<1>6. a < w <=> q = 0
  BY <1>1, <1>2, <1>3, <1>5, SMT
<1> QED
  BY <1>6 DEF w, q

\* Weights grow.
LEMMA WeightsGrow ==
    ASSUME NEW j \in 0..(2 * N), NEW k \in 0..j
    PROVE  W[k] <= W[j]
<1>1. PICK z \in Nat : W[j] = W[k] * z
  BY WeightDivides
<1>2. k \in 0..(2 * N)
  BY BaseFacts, SMT
<1> DEFINE a == W[k]
           b == W[j]
<1>3. a \in Nat /\ a > 0 /\ b \in Nat /\ b > 0 /\ b = a * z
  BY <1>1, <1>2, WeightFacts
<1> HIDE DEF a, b
<1>4. z # 0
  BY <1>3, SMT
<1>5. a * 1 <= a * z
  BY <1>3, <1>4, Monotone, SMT
<1>6. a <= b
  BY <1>3, <1>5, SMT
<1> QED
  BY <1>6 DEF a, b

\* What is the same from limb k up is below the weight of a higher limb together.
LEMMA SameAbove ==
    ASSUME NEW a \in Nat, NEW b \in Nat, NEW j \in 0..(2 * N), NEW k \in 0..j,
           a \div W[k] = b \div W[k], b < W[j]
    PROVE  a < W[j]
<1> DEFINE w == W[k]
           q == a \div w
           ra == a % w
           rb == b % w
<1>1. PICK z \in Nat : W[j] = w * z
  BY WeightDivides
<1>2. k \in 0..(2 * N)
  BY BaseFacts, SMT
<1>3. w \in Nat /\ w > 0
  BY <1>2, WeightFacts
<1>4. /\ q \in Nat /\ a = w * q + ra /\ ra \in Nat /\ ra < w
      /\ b = w * q + rb /\ rb \in Nat /\ rb < w
  BY <1>3, NatDivMod
<1> HIDE DEF w, q, ra, rb
<1>5. w * q < w * z
  BY <1>1, <1>3, <1>4, SMT
<1>6. q < z
  BY <1>3, <1>4, <1>5, Cancel
<1>7. w * (q + 1) <= w * z
  BY <1>3, <1>4, <1>6, Monotone, SMT
<1>8. w * (q + 1) = w * q + w
  BY <1>3, <1>4, SMT
<1>9. w * z \in Nat /\ w * q \in Nat
  BY <1>3, <1>4, SMT
<1>10. a < w * z
  BY <1>3, <1>4, <1>7, <1>8, <1>9, SMT
<1> QED
  BY <1>1, <1>10

\* A limb that nothing is above or in takes a word as it is.
LEMMA StoreClear ==
    ASSUME NEW z \in Nat, NEW k \in 0..(2 * N - 1), NEW v \in Word, z < W[k]
    PROVE  SetLimb(z, k, v) = z + W[k] * v
<1>1. k \in 0..(2 * N) /\ B \in Nat /\ B >= 2
  BY BaseFacts, SMT
<1>2. z \div W[k] = 0 /\ W[k] \in Nat
  BY <1>1, BelowWeight, WeightFacts
<1>3. Limb(z, k) = 0
  <2>1. 0 % B = 0
    BY <1>1, ResidueItself, SMT
  <2> QED
    BY <1>2, <2>1 DEF Limb
<1>4. SetLimb(z, k, v) = z + (v - 0) * W[k]
  BY <1>3 DEF SetLimb
<1> QED
  BY <1>2, <1>4, SMT DEF Word

----------------------------------------------------------------------------
(* The sums are the products and squares.                                  *)

\* Congruent numbers stay so when the same is added to both.
LEMMA AddCongruent ==
    ASSUME NEW n \in Nat, n > 0, NEW a \in Int, NEW b \in Int, NEW c \in Int,
           a % n = b % n
    PROVE  (a + c) % n = (b + c) % n
<1>1. PICK d \in Int : a = b + d * n
  BY ResidueGap
<1>2. a + c \in Int /\ b + c \in Int /\ Apart(a + c, b + c, d, n)
  BY <1>1, SMT DEF Apart
<1> QED
  BY <1>2, ResidueApart

\* The rows that reach no further than the buffer are whole: their sum is the
\* product.
LEMMA CutRowsExact ==
    ASSUME NEW x \in Nat, NEW y \in Nat, NEW on \in 0..(2 * N), NEW yn \in Nat,
           y < W[yn], NEW rows \in Nat, rows + yn <= on + 1, rows <= on
    PROVE  CutRows(x, y, on, rows) = (x % W[rows]) * y
<1> DEFINE T == {r \in Nat : r <= rows => CutRows(x, y, on, r) = (x % W[r]) * y}
<1>1. N \in Nat /\ on \in Nat /\ on <= 2 * N
  BY BaseFacts, SMT
<1>2. 0 \in T
  <2>1. x % 1 = 0
    BY SMT
  <2>2. CutRows(x, y, on, 0) = 0 /\ W[0] = 1
    BY CutRowsSteps, WeightAssumption
  <2>3. (x % W[0]) * y = 0
    BY <2>1, <2>2, SMT
  <2> QED
    BY <2>2, <2>3
<1>3. ASSUME NEW r \in T PROVE r + 1 \in T
  <2> SUFFICES ASSUME r + 1 <= rows
               PROVE  CutRows(x, y, on, r + 1) = (x % W[r + 1]) * y
    BY SMT
  <2> DEFINE w == W[r]
             l == Limb(x, r)
             lo == x % w
             u == W[on - r]
  <2>1. /\ r \in Nat /\ r <= rows /\ r \in 0..(2 * N - 1) /\ r \in 0..(2 * N)
        /\ ~(r + 1 > on) /\ on - r \in 0..(2 * N) /\ yn \in 0..(on - r)
        /\ yn \in 0..(2 * N)
    BY <1>1, SMT
  <2>2. CutRows(x, y, on, r) = lo * y
    BY <2>1
  <2>3. CutRows(x, y, on, r + 1) = CutRows(x, y, on, r) + CutRow(x, y, on, r)
    BY <2>1, CutRowsSteps
  <2>4. y % u = y
    <3>1. u \in Nat /\ u > 0 /\ W[yn] \in Nat
      BY <2>1, WeightFacts
    <3>2. W[yn] <= u
      BY <2>1, WeightsGrow
    <3> HIDE DEF u
    <3>3. y \in 0..(u - 1)
      BY <3>1, <3>2, SMT
    <3> QED
      BY <3>1, <3>3, ResidueItself
  <2>5. CutRow(x, y, on, r) = l * y * w
    BY <2>1, <2>4 DEF CutRow
  <2>6. x % W[r + 1] = lo + w * l
    BY <2>1, LowLimbs
  <2>7. w \in Nat /\ lo \in Nat /\ l \in Nat
    <3>1. w \in Nat /\ w > 0
      BY <2>1, WeightFacts
    <3>2. l \in Word
      BY <2>1, LimbType
    <3>3. l \in Nat
      BY <3>2, BaseFacts, SMT DEF Word
    <3> QED
      BY <3>1, <3>3, NatDivMod
  <2> HIDE DEF w, l, lo, u
  <2>8. lo * y + l * y * w = (lo + w * l) * y
    BY <2>7, SMT
  <2> QED
    BY <2>2, <2>3, <2>5, <2>6, <2>8
<1>4. T = Nat
  <2>1. T \in SUBSET Nat
    OBVIOUS
  <2> HIDE DEF T
  <2> QED
    BY <1>2, <1>3, <2>1, SetInduction
<1>5. rows \in T
  BY <1>4
<1> QED
  BY <1>5

\* Two integers below a multiple of each other.
Congruent(a, b, n) == \E d \in Int : Apart(a, b, d, n)

\* Congruences add up,
LEMMA CongruentAdd ==
    ASSUME NEW n \in Nat, NEW a \in Int, NEW b \in Int, NEW c \in Int, NEW d \in Int,
           Congruent(a, b, n), Congruent(c, d, n)
    PROVE  Congruent(a + c, b + d, n)
<1>1. PICK e \in Int : a = b + e * n
  BY DEF Congruent, Apart
<1>2. PICK f \in Int : c = d + f * n
  BY DEF Congruent, Apart
<1>3. e + f \in Int /\ a + c = (b + d) + (e + f) * n
  BY <1>1, <1>2, SMT
<1> QED
  BY <1>3 DEF Congruent, Apart

\* and give equal remainders.
LEMMA CongruentResidue ==
    ASSUME NEW n \in Nat, n > 0, NEW a \in Int, NEW b \in Int, Congruent(a, b, n)
    PROVE  a % n = b % n
<1>1. PICK e \in Int : Apart(a, b, e, n)
  BY DEF Congruent
<1> QED
  BY <1>1, ResidueApart

\* A row cut off at limb on is the row, up to what is at limb on and above.
LEMMA CutCongruent ==
    ASSUME NEW l \in Nat, NEW y \in Nat, NEW r \in Nat, NEW on \in 0..(2 * N),
           r <= 2 * N
    PROVE  /\ r <= on => Congruent(l * y * W[r], l * (y % W[on - r]) * W[r], W[on])
           /\ r >= on => Congruent(l * y * W[r], 0, W[on])
<1> DEFINE w == W[r]
           v == W[on]
           u == W[on - r]
           lo == y % u
           hi == y \div u
<1>1. N \in Nat /\ on \in Nat /\ r \in 0..(2 * N) /\ v \in Nat /\ w \in Nat
  BY WeightFacts, BaseFacts, SMT
<1>2. ASSUME r <= on PROVE Congruent(l * y * w, l * lo * w, v)
  <2>1. on - r \in 0..(2 * N) /\ r + (on - r) <= 2 * N /\ r + (on - r) = on
    BY <1>1, <1>2, SMT
  <2>2. u \in Nat /\ u > 0 /\ v = w * u
    BY <1>1, <2>1, WeightFacts, WeightsMultiply
  <2>3. lo \in Nat /\ hi \in Nat /\ y = u * hi + lo
    BY <2>2, NatDivMod
  <2> HIDE DEF u, v, w, lo, hi
  <2>4. l * y * w = l * lo * w + (l * hi) * (w * u)
    <3>1. l * (u * hi + lo) * w = l * lo * w + (l * hi) * (w * u)
      BY <1>1, <2>2, <2>3, SMT
    <3> QED
      BY <2>3, <3>1
  <2>5. l * hi \in Int
    BY <2>3, SMT
  <2> QED
    BY <2>2, <2>4, <2>5 DEF Congruent, Apart
<1>3. ASSUME r >= on PROVE Congruent(l * y * w, 0, v)
  <2>1. PICK z \in Nat : w = v * z
    <3>1. on \in 0..r
      BY <1>1, <1>3, SMT
    <3> QED
      BY <1>1, <3>1, WeightDivides
  <2> HIDE DEF v, w
  <2>2. l * y * w = 0 + (l * y * z) * v /\ l * y * z \in Int
    BY <1>1, <2>1, SMT
  <2> QED
    BY <2>2 DEF Congruent, Apart
<1> QED
  BY <1>2, <1>3

\* The sum of the rows that are cut off is the product up to the buffer's end.
LEMMA CutRowsCongruent ==
    ASSUME NEW x \in Nat, NEW y \in Nat, NEW on \in 0..(2 * N), NEW rows \in 0..(2 * N)
    PROVE  Congruent((x % W[rows]) * y, CutRows(x, y, on, rows), W[on])
<1> DEFINE v == W[on]
           T == {r \in Nat : r <= 2 * N =>
                     Congruent((x % W[r]) * y, CutRows(x, y, on, r), v)}
<1>1. N \in Nat /\ on \in Nat /\ on <= 2 * N /\ v \in Nat
  BY BaseFacts, WeightFacts, SMT
<1>2. 0 \in T
  <2>1. x % 1 = 0
    BY SMT
  <2>2. CutRows(x, y, on, 0) = 0 /\ W[0] = 1
    BY CutRowsSteps, WeightAssumption
  <2>3. (x % W[0]) * y = 0 + 0 * v
    BY <1>1, <2>1, <2>2, SMT
  <2> QED
    BY <2>2, <2>3 DEF Congruent, Apart
<1>3. ASSUME NEW r \in T PROVE r + 1 \in T
  <2> SUFFICES ASSUME r + 1 <= 2 * N
               PROVE  Congruent((x % W[r + 1]) * y, CutRows(x, y, on, r + 1), v)
    BY SMT
  <2> DEFINE w == W[r]
             l == Limb(x, r)
             lo == x % w
             c == CutRows(x, y, on, r)
             e == CutRow(x, y, on, r)
  <2>1. /\ r \in Nat /\ r <= 2 * N /\ r \in 0..(2 * N - 1) /\ r \in 0..(2 * N)
    BY <1>1, SMT
  <2>2. Congruent(lo * y, c, v)
    BY <2>1
  <2>3. CutRows(x, y, on, r + 1) = c + e
    BY <2>1, CutRowsSteps
  <2>4. c \in Nat /\ e \in Nat
    BY <2>1, CutRowsSteps, CutRowType
  <2>5. w \in Nat /\ lo \in Nat /\ l \in Nat
    <3>1. w \in Nat /\ w > 0
      BY <2>1, WeightFacts
    <3>2. l \in Word
      BY <2>1, LimbType
    <3>3. l \in Nat
      BY <3>2, BaseFacts, SMT DEF Word
    <3> QED
      BY <3>1, <3>3, NatDivMod
  <2>6. Congruent(l * y * w, e, v)
    <3>1. CASE r + 1 > on
      <4>1. r >= on
        BY <1>1, <2>1, <3>1, SMT
      <4>2. e = 0
        BY <3>1 DEF CutRow
      <4> QED
        BY <2>1, <2>5, <4>1, <4>2, CutCongruent
    <3>2. CASE ~(r + 1 > on)
      <4>1. r <= on
        BY <1>1, <2>1, <3>2, SMT
      <4>2. e = l * (y % W[on - r]) * w
        BY <3>2 DEF CutRow
      <4> QED
        BY <2>1, <2>5, <4>1, <4>2, CutCongruent
    <3> QED
      BY <3>1, <3>2
  <2>7. x % W[r + 1] = lo + w * l
    BY <2>1, LowLimbs
  <2> HIDE DEF w, l, lo, c, e, v
  <2>8. (lo + w * l) * y = lo * y + l * y * w
    BY <2>5, SMT
  <2>9. lo * y \in Int /\ l * y * w \in Int
    BY <2>5, SMT
  <2>10. Congruent(lo * y + l * y * w, c + e, v)
    BY <1>1, <2>2, <2>4, <2>6, <2>9, CongruentAdd
  <2> QED
    BY <2>3, <2>7, <2>8, <2>10
<1>4. T = Nat
  <2>1. T \in SUBSET Nat
    OBVIOUS
  <2> HIDE DEF T
  <2> QED
    BY <1>2, <1>3, <2>1, SetInduction
<1>5. rows \in Nat /\ rows <= 2 * N /\ rows \in T
  BY <1>1, <1>4, SMT
<1> QED
  BY <1>5

\* Twice the products below the diagonal and the squares on it are the square.
LEMMA SquareSplits ==
    ASSUME NEW x \in Nat, NEW rows \in 0..N
    PROVE  2 * CrossRows(x, rows) + DiagonalSquares(x, 0, rows)
             = (x % W[rows]) * (x % W[rows])
<1> DEFINE T == {r \in Nat : r <= N =>
                     2 * CrossRows(x, r) + DiagonalSquares(x, 0, r)
                       = (x % W[r]) * (x % W[r])}
<1>1. N \in Nat /\ 0 \in 0..N
  BY BaseFacts, SMT
<1>2. 0 \in T
  <2>1. x % 1 = 0
    BY SMT
  <2>2. CrossRows(x, 0) = 0 /\ DiagonalSquares(x, 0, 0) = 0 /\ W[0] = 1
    BY <1>1, CrossRowsSteps, DiagonalSteps, WeightAssumption
  <2>3. (x % W[0]) * (x % W[0]) = 0
    BY <2>1, <2>2, SMT
  <2> QED
    BY <2>2, <2>3, SMT
<1>3. ASSUME NEW r \in T PROVE r + 1 \in T
  <2> SUFFICES ASSUME r + 1 <= N
               PROVE  2 * CrossRows(x, r + 1) + DiagonalSquares(x, 0, r + 1)
                        = (x % W[r + 1]) * (x % W[r + 1])
    BY SMT
  <2> DEFINE w == W[r]
             l == Limb(x, r)
             lo == x % w
             c == CrossRows(x, r)
             d == DiagonalSquares(x, 0, r)
  <2>1. /\ r \in Nat /\ r <= N /\ r \in 0..(2 * N - 1) /\ r \in 0..(2 * N)
        /\ r \in 0..N /\ r \in 0..(N - 1) /\ r + r <= 2 * N /\ r + r = 2 * r
    BY <1>1, SMT
  <2>2. 2 * c + d = lo * lo
    BY <2>1
  <2>3. CrossRows(x, r + 1) = c + l * lo * w
    BY <2>1, CrossRowsSteps DEF CrossRow
  <2>4. DiagonalSquares(x, 0, r + 1) = d + l * l * W[2 * r]
    BY <1>1, <2>1, DiagonalSteps DEF LimbSquare
  <2>5. W[2 * r] = w * w
    BY <2>1, WeightsMultiply
  <2>6. c \in Nat /\ d \in Nat
    BY <1>1, <2>1, CrossRowsSteps, DiagonalSteps
  <2>7. w \in Nat /\ lo \in Nat /\ l \in Nat
    <3>1. w \in Nat /\ w > 0
      BY <2>1, WeightFacts
    <3>2. l \in Word
      BY <2>1, LimbType
    <3>3. l \in Nat
      BY <3>2, BaseFacts, SMT DEF Word
    <3> QED
      BY <3>1, <3>3, NatDivMod
  <2>8. x % W[r + 1] = lo + w * l
    BY <2>1, LowLimbs
  <2> HIDE DEF w, l, lo, c, d
  <2>9. (lo + w * l) * (lo + w * l) = lo * lo + 2 * (l * lo * w) + l * l * (w * w)
    BY <2>7, SMT
  <2> DEFINE p == l * lo * w
             q == l * l * (w * w)
             t == lo * lo
  <2>10. p \in Nat /\ q \in Nat /\ t \in Nat
    BY <2>7, SMT
  <2>11. 2 * (c + p) + (d + q) = t + 2 * p + q
    <3>1. 2 * c + d = t
      BY <2>2
    <3> HIDE DEF p, q, t
    <3> QED
      BY <2>6, <2>10, <3>1, SMT
  <2> QED
    BY <2>3, <2>4, <2>5, <2>8, <2>9, <2>11
<1>4. T = Nat
  <2>1. T \in SUBSET Nat
    OBVIOUS
  <2> HIDE DEF T
  <2> QED
    BY <1>2, <1>3, <2>1, SetInduction
<1>5. rows \in Nat /\ rows <= N /\ rows \in T
  BY <1>1, <1>4, SMT
<1> QED
  BY <1>5

\* The products below the diagonal stay one limb below the length of the square.
LEMMA CrossBelow ==
    ASSUME NEW x \in Nat, NEW rows \in 1..N
    PROVE  CrossRows(x, rows) < W[2 * rows - 1]
<1> DEFINE T == {k \in Nat : k + 1 <= N => CrossRows(x, k + 1) < W[2 * k + 1]}
<1>1. N \in Nat /\ B \in Nat /\ B >= 2 /\ 0 \in 0..N /\ 0 \in 0..(2 * N - 1)
      /\ 1 \in 0..(2 * N) /\ 0 \in 0..(2 * N)
  BY BaseFacts, SMT
<1>2. 0 \in T
  <2>1. x % 1 = 0
    BY SMT
  <2>2. CrossRows(x, 0) = 0 /\ W[0] = 1 /\ Limb(x, 0) \in Word
        /\ CrossRows(x, 0 + 1) = CrossRows(x, 0) + CrossRow(x, 0)
    BY <1>1, CrossRowsSteps, WeightAssumption, LimbType
  <2>3. CrossRow(x, 0) = Limb(x, 0) * 0 * 1
    BY <2>1, <2>2 DEF CrossRow
  <2>4. CrossRows(x, 0 + 1) = 0
    BY <1>1, <2>2, <2>3, SMT DEF Word
  <2>5. W[1] \in Nat /\ W[1] > 0
    BY <1>1, WeightFacts
  <2>6. 2 * 0 + 1 = 1
    BY SMT
  <2> QED
    BY <2>4, <2>5, <2>6
<1>3. ASSUME NEW k \in T PROVE k + 1 \in T
  <2> SUFFICES ASSUME (k + 1) + 1 <= N
               PROVE  CrossRows(x, (k + 1) + 1) < W[2 * (k + 1) + 1]
    BY SMT
  <2> DEFINE r == k + 1
             w == W[r]
             l == Limb(x, r)
             lo == x % w
             c == CrossRows(x, r)
             v == W[2 * r - 1]
             u == W[2 * r]
             z == W[2 * r + 1]
  <2>1. /\ k \in Nat /\ k + 1 <= N /\ r \in Nat
        /\ r \in 0..(2 * N - 1) /\ r \in 0..(2 * N)
        /\ r + r <= 2 * N /\ r + r = 2 * r /\ 2 * k + 1 = 2 * r - 1
        /\ 2 * r \in 0..(2 * N) /\ 2 * r - 1 \in 0..(2 * r) /\ 2 * r - 1 \in 0..(2 * N)
        /\ 2 * r < 2 * N
    BY <1>1, SMT
  <2>2. c < v
    BY <2>1
  <2>3. CrossRows(x, r + 1) = c + l * lo * w
    BY <2>1, CrossRowsSteps DEF CrossRow
  <2>4. c \in Nat
    BY <2>1, CrossRowsSteps
  <2>5. w \in Nat /\ w > 0 /\ u = w * w /\ u \in Nat /\ z = B * u /\ v <= u /\ v \in Nat
    BY <2>1, WeightFacts, WeightsMultiply, WeightsGrow
  <2>6. lo \in Nat /\ lo < w
    BY <2>5, NatDivMod
  <2>7. l \in Nat /\ l <= B - 1
    <3>1. l \in Word
      BY <2>1, LimbType
    <3> QED
      BY <1>1, <3>1, SMT DEF Word
  <2> HIDE DEF w, l, lo, c, v, u, z
  <2>8. lo * w <= w * w
    <3>1. w * lo <= w * w
      BY <2>5, <2>6, Monotone, SMT
    <3> QED
      BY <2>5, <2>6, <3>1, SMT
  <2> DEFINE p == lo * w
  <2>9. p \in Nat /\ l * lo * w = l * p
    BY <2>5, <2>6, <2>7, SMT
  <2>10. l * p <= l * u
    <3>1. p <= u
      BY <2>5, <2>8
    <3> HIDE DEF p
    <3> QED
      BY <2>5, <2>7, <2>9, <3>1, Monotone
  <2>11. u * l <= u * (B - 1)
    BY <1>1, <2>5, <2>7, Monotone, SMT
  <2>12. u * (B - 1) = B * u - u /\ u * l = l * u
    BY <1>1, <2>5, <2>7, SMT
  <2>13. c + l * lo * w < B * u
    <3> DEFINE f == l * p
               g == l * u
               h == B * u
    <3>1. f \in Nat /\ g \in Nat /\ h \in Nat
      BY <1>1, <2>5, <2>7, <2>9, SMT
    <3>2. f <= g /\ g <= h - u /\ c < u
      <4>1. c < u
        BY <2>2, <2>4, <2>5, SMT
      <4> QED
        BY <2>10, <2>11, <2>12, <4>1
    <3> HIDE DEF f, g, h, p
    <3>3. c + f < h
      BY <2>4, <2>5, <3>1, <3>2, SMT
    <3> QED
      BY <2>9, <3>3 DEF f, h
  <2> QED
    BY <2>1, <2>3, <2>5, <2>13 DEF z
<1>4. T = Nat
  <2>1. T \in SUBSET Nat
    OBVIOUS
  <2> HIDE DEF T
  <2> QED
    BY <1>2, <1>3, <2>1, SetInduction
<1>5. rows - 1 \in Nat /\ (rows - 1) + 1 = rows /\ rows <= N
      /\ 2 * (rows - 1) + 1 = 2 * rows - 1
  BY <1>1, SMT
<1>6. rows - 1 \in T
  BY <1>4, <1>5
<1> QED
  BY <1>5, <1>6

\* The squares of the limbs from a limb up leave what is below its square alone.
LEMMA DiagonalAbove ==
    ASSUME NEW x \in Nat, NEW mid \in 0..N, NEW to \in mid..N
    PROVE  Congruent(DiagonalSquares(x, mid, to), 0, W[2 * mid])
<1> DEFINE v == W[2 * mid]
           T == {k \in Nat : mid + k <= N =>
                     Congruent(DiagonalSquares(x, mid, mid + k), 0, v)}
<1>1. /\ N \in Nat /\ mid \in Nat /\ mid <= N /\ mid + 0 = mid
      /\ 2 * mid \in 0..(2 * N)
  BY BaseFacts, SMT
<1>2. v \in Nat
  BY <1>1, WeightFacts
<1>3. 0 \in T
  <2>1. DiagonalSquares(x, mid, mid) = 0 + 0 * v
    BY <1>1, <1>2, DiagonalSteps, SMT
  <2> QED
    BY <1>1, <2>1 DEF Congruent, Apart
<1>4. ASSUME NEW k \in T PROVE k + 1 \in T
  <2> SUFFICES ASSUME mid + (k + 1) <= N
               PROVE  Congruent(DiagonalSquares(x, mid, mid + (k + 1)), 0, v)
    BY SMT
  <2> DEFINE r == mid + k
             l == Limb(x, r)
             d == DiagonalSquares(x, mid, r)
             u == W[2 * r]
  <2>1. /\ k \in Nat /\ r \in Nat /\ r <= N /\ r \in mid..(N - 1) /\ r \in mid..N
        /\ r + 1 = mid + (k + 1) /\ r \in 0..(2 * N) /\ 2 * r \in 0..(2 * N)
        /\ 2 * mid \in 0..(2 * r)
    BY <1>1, SMT
  <2>2. Congruent(d, 0, v)
    BY <2>1
  <2>3. DiagonalSquares(x, mid, r + 1) = d + l * l * u
    BY <1>1, <2>1, DiagonalSteps DEF LimbSquare
  <2>4. d \in Nat
    BY <1>1, <2>1, DiagonalSteps
  <2>5. l \in Nat
    <3>1. l \in Word
      BY <2>1, LimbType
    <3> QED
      BY <3>1, BaseFacts, SMT DEF Word
  <2>6. PICK z \in Nat : u = v * z
    BY <2>1, WeightDivides
  <2> HIDE DEF r, l, d, u, v
  <2>7. l * l * u = 0 + (l * l * z) * v /\ l * l * z \in Int /\ l * l * u \in Int
    BY <1>2, <2>5, <2>6, SMT
  <2>8. Congruent(l * l * u, 0, v)
    BY <2>7 DEF Congruent, Apart
  <2>9. Congruent(d + l * l * u, 0 + 0, v)
    BY <1>2, <2>2, <2>4, <2>7, <2>8, CongruentAdd
  <2> QED
    BY <2>1, <2>3, <2>9
<1>5. T = Nat
  <2>1. T \in SUBSET Nat
    OBVIOUS
  <2> HIDE DEF T
  <2> QED
    BY <1>3, <1>4, <2>1, SetInduction
<1>6. to - mid \in Nat /\ mid + (to - mid) = to /\ to <= N
  BY <1>1, SMT
<1>7. to - mid \in T
  BY <1>5, <1>6
<1> QED
  BY <1>6, <1>7

\* What wrapping_square leaves agrees with the square up to the buffer's end, and
\* is the square in a buffer twice as long as the operand.
LEMMA CutSquareIs ==
    ASSUME NEW x \in Nat, NEW n \in 1..N, x < W[n], NEW on \in 1..(2 * n)
    PROVE  /\ CutSquare(x, n, on) \in Nat
           /\ Congruent(x * x, CutSquare(x, n, on), W[on])
           /\ on = 2 * n => CutSquare(x, n, on) = x * x
<1> DEFINE m == Min2((on + 1) \div 2, n)
           v == W[on]
           c == CrossRows(x, n)
           lo == c % v
           d == DiagonalSquares(x, 0, n)
           dl == DiagonalSquares(x, 0, m)
           du == DiagonalSquares(x, m, n)
<1>1. /\ N \in Nat /\ n \in Nat /\ on \in Nat /\ on \in 0..(2 * N) /\ n <= N /\ n \in 0..N
      /\ n \in 0..(2 * N) /\ 0 \in 0..N /\ on >= 1
  BY BaseFacts, SMT
<1>2. m \in 0..n /\ m \in 0..N /\ n \in m..N /\ (m = n \/ on <= 2 * m)
      /\ 2 * m \in 0..(2 * N) /\ (on = 2 * n => m = n)
  <2>1. (on + 1) \div 2 \in Nat /\ 2 * ((on + 1) \div 2) >= on
        /\ 2 * ((on + 1) \div 2) <= on + 1
    BY <1>1, SMT
  <2> DEFINE h == (on + 1) \div 2
  <2> HIDE DEF h
  <2>2. m = IF h < n THEN h ELSE n
    BY DEF Min2, h
  <2>3. h \in Nat /\ 2 * h >= on /\ 2 * h <= on + 1
    BY <2>1 DEF h
  <2> HIDE DEF m
  <2> QED
    BY <1>1, <2>2, <2>3, SMT
<1>3. v \in Nat /\ v > 0 /\ c \in Nat /\ c < W[2 * n - 1]
  <2>1. c \in Nat
    BY <1>1, CrossRowsSteps
  <2>2. v \in Nat /\ v > 0
    BY <1>1, WeightFacts
  <2> QED
    BY <2>1, <2>2, CrossBelow
<1>4. lo \in Nat /\ \E e \in Int : lo = c + e * v
  <2> HIDE DEF c, v
  <2>1. c \in Int
    BY <1>3, SMT
  <2>2. lo \in Nat
    BY <1>3, NatDivMod
  <2> QED
    BY <1>3, <2>1, <2>2, RemainderGap
<1>5. d \in Nat /\ dl \in Nat /\ du \in Nat /\ d = dl + du
  <2>1. m \in 0..N /\ n \in m..N /\ m \in 0..n /\ 0 \in 0..N /\ n \in 0..N
    BY <1>1, <1>2
  <2> HIDE DEF m
  <2> QED
    BY <2>1, DiagonalSteps, DiagonalSplits
<1>6. 2 * c + d = x * x
  <2>1. x % W[n] = x
    <3>1. W[n] \in Nat /\ W[n] > 0 /\ x \in 0..(W[n] - 1)
      BY <1>1, WeightFacts, SMT
    <3> QED
      BY <3>1, ResidueItself
  <2> QED
    BY <1>1, <2>1, SquareSplits
<1>7. CutSquare(x, n, on) = 2 * lo + dl
  BY DEF CutSquare
<1>8. CutSquare(x, n, on) \in Nat
  <2> HIDE DEF lo, dl
  <2> QED
    BY <1>4, <1>5, <1>7, SMT
<1>9. Congruent(du, 0, v)
  <2>1. CASE m = n
    <3>1. du = 0
      BY <1>1, <2>1, DiagonalSteps
    <3>2. du = 0 + 0 * v
      BY <1>3, <3>1, SMT
    <3> QED
      BY <3>2 DEF Congruent, Apart
  <2>2. CASE m # n
    <3>1. on \in 0..(2 * m)
      BY <1>1, <1>2, <2>2, SMT
    <3> HIDE DEF m
    <3>2. PICK z \in Nat : W[2 * m] = v * z
      BY <1>2, <3>1, WeightDivides
    <3>3. Congruent(du, 0, W[2 * m])
      BY <1>2, DiagonalAbove
    <3>4. PICK e \in Int : du = 0 + e * (v * z)
      BY <3>2, <3>3 DEF Congruent, Apart
    <3> HIDE DEF du, v
    <3>5. du = 0 + (e * z) * v /\ e * z \in Int
      BY <1>3, <3>4, SMT
    <3> QED
      BY <3>5 DEF Congruent, Apart
  <2> QED
    BY <2>1, <2>2
<1>10. Congruent(x * x, CutSquare(x, n, on), v)
  <2>1. PICK e \in Int : lo = c + e * v
    BY <1>4
  <2>2. PICK f \in Int : du = 0 + f * v
    BY <1>9 DEF Congruent, Apart
  <2> HIDE DEF lo, c, v, d, dl, du
  <2>3. 2 * c + d = (2 * lo + dl) + (f - 2 * e) * v /\ f - 2 * e \in Int
    BY <1>3, <1>4, <1>5, <2>1, <2>2, SMT
  <2>4. x * x = (2 * lo + dl) + (f - 2 * e) * v
    BY <1>6, <2>3
  <2> QED
    BY <1>7, <2>3, <2>4 DEF Congruent, Apart
<1>11. ASSUME on = 2 * n PROVE CutSquare(x, n, on) = x * x
  <2>1. dl = d
    BY <1>2, <1>11
  <2>2. lo = c
    <3>1. 2 * n - 1 \in 0..on
      BY <1>1, <1>11, SMT
    <3>2. W[2 * n - 1] <= v
      BY <1>1, <3>1, WeightsGrow
    <3>3. W[2 * n - 1] \in Nat
      <4>1. 2 * n - 1 \in 0..(2 * N)
        BY <1>1, SMT
      <4> QED
        BY <4>1, WeightFacts
    <3> HIDE DEF c, v
    <3>4. c \in 0..(v - 1)
      BY <1>3, <3>2, <3>3, SMT
    <3> QED
      BY <1>3, <3>4, ResidueItself
  <2> QED
    BY <1>6, <1>7, <2>1, <2>2
<1> QED
  BY <1>8, <1>10, <1>11

----------------------------------------------------------------------------
(* What a row leaves, and what doubling and the squares do to it.          *)

\* The length of the row of limb k of len limbs that a buffer of on limbs takes.
RowLength(len, on, k) == Min2(IF k < on THEN on - k ELSE 0, len)

\* The buffer z is left with e added to it, r its limbs and its carry.
RowLeaves(r, z, e, on) == r[1] + r[2] * W[on] = z + e

\* A product is below the product of two bounds.
LEMMA ProductBelow ==
    ASSUME NEW a \in Nat, NEW b \in Nat, NEW c \in Nat, NEW d \in Nat, a < c, b < d
    PROVE  a * b \in Nat /\ a * b < c * d
<1>1. b * a <= b * c
  BY Monotone, SMT
<1>2. c * (b + 1) <= c * d
  BY Monotone, SMT
<1>3. c * (b + 1) = c * b + c /\ c * b = b * c /\ a * b = b * a
  BY SMT
<1>4. a * b \in Nat /\ b * c \in Nat /\ c * d \in Nat
  BY SMT
<1> QED
  BY <1>1, <1>2, <1>3, <1>4, SMT

\* The buffer z with the carry c pending at limb at holds the sum s, up to the
\* limb above the buffer.
Holds(z, c, at, s, on) == (z + c * W[at]) % W[on + 1] = s % W[on + 1]

\* Where the carry of wrapping_mul_add is pending before the row of limb k.
PendingAt(n, on, k) == Min2(k + n, on)

\* Limb j is the one the square of limb k is added to.
SquareAt(j, k) == j = 2 * k

\* z and the carry c into limb 2k, with the square of limb k of x added.
SquareAdded(x, k, z, c, st, t) ==
    st + t * W[2 * (k + 1)] = z + c * W[2 * k] + LimbSquare(x, k)

\* square_wide: the square of a limb, added over two limbs.
LEMMA DiagonalStep ==
    ASSUME NEW x \in Nat, NEW k \in 0..(N - 1), NEW j, SquareAt(j, k),
           NEW z \in Nat, NEW c \in Nat, c <= 1,
           NEW sq, sq = carrying_mul_add(Limb(x, k), Limb(x, k), Limb(z, j), c),
           NEW top, top = overflowing_add(Limb(z, j + 1), sq[2]),
           NEW st, st = SetLimb(SetLimb(z, j, sq[1]), j + 1, top[1])
    PROVE  /\ st \in Nat /\ top[2] \in Nat /\ top[2] <= 1
           /\ SquareAdded(x, k, z, c, st, top[2])
<1> DEFINE w == W[j]
           l == Limb(x, k)
           z0 == Limb(z, j)
           z1 == Limb(z, j + 1)
           s1 == sq[1]
           s2 == sq[2]
           t1 == top[1]
           t2 == top[2]
           y == SetLimb(z, j, s1)
<1>1. /\ N \in Nat /\ B \in Nat /\ B >= 2 /\ k \in Nat /\ j \in Nat /\ j \in 0..(2 * N)
      /\ j \in 0..(2 * N - 1) /\ j + 1 \in 0..(2 * N) /\ j + 1 \in 0..(2 * N - 1)
      /\ k \in 0..(2 * N) /\ (j + 1) + 1 = 2 * (k + 1) /\ j < 2 * N /\ j + 1 < 2 * N
  BY BaseFacts, SMT DEF SquareAt
<1>2. w \in Nat /\ w > 0 /\ W[j + 1] = B * w /\ W[2 * (k + 1)] = B * (B * w)
  <2>1. w \in Nat /\ w > 0 /\ W[j + 1] = B * w /\ W[(j + 1) + 1] = B * W[j + 1]
    BY <1>1, WeightFacts
  <2> QED
    BY <1>1, <2>1
<1>3. l \in Word /\ z0 \in Word /\ z1 \in Word
  BY <1>1, LimbType
<1>4. c \in Word
  BY <1>1, SMT DEF Word
<1>5. s1 \in Word /\ s2 \in Word /\ s1 + B * s2 = l * l + z0 + c
  <2>1. sq = carrying_mul_add(l, l, z0, c)
    OBVIOUS
  <2> HIDE DEF l, z0, s1, s2
  <2>2. sq[1] \in Word /\ sq[2] \in Word /\ sq[1] + B * sq[2] = l * l + z0 + c
    BY <1>3, <1>4, <2>1, MulAddExact
  <2> QED
    BY <2>2 DEF s1, s2
<1>6. t1 \in Word /\ t2 \in Word /\ t1 + B * t2 = z1 + s2
  BY <1>3, <1>5, OverflowingAddExact
<1>7. t2 <= 1
  BY <1>3, <1>5, OverflowingAddExact
<1>8. y \in Nat /\ y + w * z0 = z + w * s1 /\ y \div W[j + 1] = z \div W[j + 1]
  <2>1. z \in Nat /\ j \in 0..(2 * N - 1) /\ s1 \in Word
    BY <1>1, <1>5
  <2> HIDE DEF s1
  <2>2. /\ SetLimb(z, j, s1) \in Nat
        /\ SetLimb(z, j, s1) + W[j] * Limb(z, j) = z + W[j] * s1
        /\ SetLimb(z, j, s1) \div W[j + 1] = z \div W[j + 1]
    BY <2>1, StoreIs
  <2> QED
    BY <2>2
<1>9. Limb(y, j + 1) = z1
  BY <1>8 DEF Limb
<1>10. st \in Nat /\ st + W[j + 1] * Limb(y, j + 1) = y + W[j + 1] * t1
  <2> DEFINE m == j + 1
  <2>1. st = SetLimb(y, m, t1) /\ m \in 0..(2 * N - 1) /\ y \in Nat /\ t1 \in Word
    BY <1>1, <1>6, <1>8
  <2> HIDE DEF y, t1, m
  <2>2. st \in Nat /\ st + W[m] * Limb(y, m) = y + W[m] * t1
    BY <2>1, StoreIs
  <2> QED
    BY <2>2 DEF m
<1>11. st + (B * w) * z1 = y + (B * w) * t1
  BY <1>2, <1>9, <1>10
<1>12. /\ l \in Nat /\ z0 \in Nat /\ z1 \in Nat /\ s1 \in Nat /\ s2 \in Nat
       /\ t1 \in Nat /\ t2 \in Nat
  BY <1>1, <1>3, <1>5, <1>6, SMT DEF Word
<1>13. LimbSquare(x, k) = l * l * w
  BY DEF LimbSquare, SquareAt
<1> HIDE DEF w, l, z0, z1, s1, s2, t1, t2, y
<1>14. st + t2 * (B * (B * w)) = z + c * w + l * l * w
  <2>1. (B * w) * (t1 + B * t2) = (B * w) * (z1 + s2) /\ w * (s1 + B * s2) = w * (l * l + z0 + c)
    BY <1>5, <1>6
  <2>2. (B * w) * (t1 + B * t2) = (B * w) * t1 + t2 * (B * (B * w))
        /\ (B * w) * (z1 + s2) = (B * w) * z1 + (B * w) * s2
    BY <1>1, <1>2, <1>12, SMT
  <2>3. w * (s1 + B * s2) = w * s1 + (B * w) * s2
        /\ w * (l * l + z0 + c) = l * l * w + w * z0 + c * w
    BY <1>1, <1>2, <1>12, SMT
  <2> DEFINE e1 == (B * w) * t1
             e2 == t2 * (B * (B * w))
             e3 == (B * w) * z1
             e4 == (B * w) * s2
             e5 == w * s1
             e6 == l * l * w
             e7 == w * z0
             e8 == c * w
             s == st
  <2>4. e1 \in Nat /\ e2 \in Nat /\ e3 \in Nat /\ e4 \in Nat
    BY <1>1, <1>2, <1>12, SMT
  <2>5. e5 \in Nat /\ e6 \in Nat /\ e7 \in Nat /\ e8 \in Nat
    BY <1>1, <1>2, <1>12, SMT
  <2>6. e1 + e2 = e3 + e4 /\ e5 + e4 = e6 + e7 + e8 /\ y + e7 = z + e5 /\ s + e3 = y + e1
    BY <1>8, <1>11, <2>1, <2>2, <2>3
  <2>7. s \in Nat /\ y \in Nat
    BY <1>8, <1>10
  <2> HIDE DEF e1, e2, e3, e4, e5, e6, e7, e8, s
  <2>8. s + e2 = y + e4
    BY <2>4, <2>6, <2>7, SMT
  <2>9. y + e4 = z + e8 + e6
    BY <2>4, <2>5, <2>6, <2>7, SMT
  <2> QED
    BY <2>8, <2>9 DEF e2, e6, e8, s
<1>15. st + t2 * W[2 * (k + 1)] = z + c * w + LimbSquare(x, k)
  BY <1>2, <1>13, <1>14
<1> QED
  BY <1>7, <1>10, <1>12, <1>15 DEF t2, w, SquareAt, SquareAdded

\* After the limbs below limb k of wrapping_square: those limbs, what is carried
\* into limb k, the limbs above still to be doubled, and the squares still to be
\* added.
LimbsSquared(x, n, z, pending, k) ==
    (z % W[k]) + pending * W[k] + 2 * (z - (z % W[k]))
      + DiagonalSquares(x, Min2((k + 1) \div 2, n), n)

\* A doubled limb is a word and the bit shifted out; one bit may come in.
LEMMA DoubledLimb ==
    ASSUME NEW l \in Word, NEW b \in Nat, b <= 1
    PROVE  /\ l \div HalfB \in Nat /\ l \div HalfB <= 1
           /\ ((2 * l) % B) + b \in Word
           /\ ((2 * l) % B) + b + B * (l \div HalfB) = 2 * l + b
<1> DEFINE h == l \div HalfB
           m == l % HalfB
           g == (2 * l) % B
<1>1. HalfB \in Nat /\ HalfB > 0 /\ B = 2 * HalfB /\ l \in Nat /\ l < B
  BY BaseAssumption, SMT DEF B, Word
<1>2. h \in Nat /\ m \in Nat /\ m < HalfB /\ l = HalfB * h + m
  BY <1>1, NatDivMod
<1> HIDE DEF h, m, g
<1>3. h <= 1
  <2>1. h >= 2 => HalfB * h >= HalfB * 2
    BY <1>1, <1>2, Monotone
  <2>2. HalfB * h \in Nat
    BY <1>1, <1>2, SMT
  <2> QED
    BY <1>1, <1>2, <2>1, <2>2, SMT
<1>4. 2 * l = B * h + 2 * m
  <2>1. h = 0 \/ h = 1
    BY <1>2, <1>3, SMT
  <2> QED
    BY <1>1, <1>2, <2>1, SMT
<1>5. B \in Nat /\ B > 0 /\ 2 * l \in Int /\ h \in Int /\ 2 * m \in 0..(B - 1)
  BY <1>1, <1>2, SMT
<1>6. g = 2 * m
  <2> DEFINE t == 2 * l
             u == 2 * m
  <2>1. t = B * h + u /\ t \in Int /\ u \in 0..(B - 1)
    BY <1>4, <1>5
  <2> HIDE DEF t, u
  <2>2. t % B = u
    BY <1>5, <2>1, DivisionIs
  <2> QED
    BY <2>2 DEF t, u, g
<1>7. g + b \in 0..(B - 1)
  BY <1>1, <1>2, <1>6, SMT
<1>8. g + b + B * h = 2 * l + b
  <2>1. h = 0 \/ h = 1
    BY <1>2, <1>3, SMT
  <2> QED
    BY <1>1, <1>2, <1>4, <1>6, <2>1, SMT
<1> QED
  BY <1>2, <1>3, <1>7, <1>8 DEF h, g, Word

\* The squares still to be added: the one of limb k \div 2 when k is even.
LEMMA SquaresLeft ==
    ASSUME NEW x \in Nat, NEW n \in 1..N, NEW k \in 0..(2 * n - 1)
    PROVE  DiagonalSquares(x, Min2((k + 1) \div 2, n), n)
             = DiagonalSquares(x, Min2(((k + 1) + 1) \div 2, n), n)
                 + (IF k % 2 = 0 THEN Limb(x, k \div 2) * Limb(x, k \div 2) ELSE 0) * W[k]
<1> DEFINE m == k \div 2
<1>1. N \in Nat /\ n \in Nat /\ n <= N /\ n \in 0..N /\ k \in Nat /\ k \in 0..(2 * N)
      /\ k <= 2 * n - 1
  BY BaseFacts, SMT
<1>2. m \in Nat /\ (k % 2 = 0 => k = 2 * m) /\ (k % 2 # 0 => k = 2 * m + 1)
  BY <1>1, SMT
<1>3. m <= n - 1 /\ m \in 0..(n - 1) /\ m \in 0..N /\ m \in m..n /\ n \in m..N
      /\ m + 1 \in 0..N /\ n \in (m + 1)..N /\ m + 1 \in m..N /\ m \in m..(N - 1)
      /\ n \in Nat
  <2>1. k >= 2 * m
    BY <1>2, <1>1, SMT
  <2> HIDE DEF m
  <2> QED
    BY <1>1, <1>2, <2>1, SMT
<1>4. CASE k % 2 = 0
  <2>1. (k + 1) \div 2 = m /\ ((k + 1) + 1) \div 2 = m + 1 /\ k = 2 * m
    BY <1>1, <1>2, <1>4, SMT
  <2>2. Min2((k + 1) \div 2, n) = m /\ Min2(((k + 1) + 1) \div 2, n) = m + 1
    <3> HIDE DEF m
    <3> QED
      BY <1>1, <1>3, <2>1, SMT DEF Min2
  <2>3. DiagonalSquares(x, m, n)
          = DiagonalSquares(x, m, m + 1) + DiagonalSquares(x, m + 1, n)
    <3> HIDE DEF m
    <3> QED
      BY <1>3, DiagonalSplits
  <2>4. DiagonalSquares(x, m, m + 1) = 0 + LimbSquare(x, m)
    <3> HIDE DEF m
    <3> QED
      BY <1>3, DiagonalSteps
  <2>5. LimbSquare(x, m) = Limb(x, m) * Limb(x, m) * W[k]
    BY <2>1 DEF LimbSquare
  <2> DEFINE p == DiagonalSquares(x, m + 1, n)
             q == LimbSquare(x, m)
  <2>6. p \in Nat /\ q \in Nat
    <3> HIDE DEF m
    <3> QED
      BY <1>3, DiagonalSteps, LimbSquareType
  <2>7. DiagonalSquares(x, m, n) = p + q
    <3>1. DiagonalSquares(x, m, n) = (0 + q) + p
      BY <2>3, <2>4
    <3> HIDE DEF p, q
    <3> QED
      BY <2>6, <3>1, SMT
  <2> QED
    BY <1>4, <2>2, <2>5, <2>7
<1>5. CASE k % 2 # 0
  <2>1. (k + 1) \div 2 = m + 1 /\ ((k + 1) + 1) \div 2 = m + 1
    BY <1>1, <1>2, <1>5, SMT
  <2> DEFINE p == DiagonalSquares(x, Min2(m + 1, n), n)
  <2>2. p \in Nat
    <3>1. Min2(m + 1, n) \in 0..N /\ n \in Min2(m + 1, n)..N
      <4> HIDE DEF m
      <4> QED
        BY <1>1, <1>3, SMT DEF Min2
    <3> DEFINE e == Min2(m + 1, n)
    <3>2. e \in 0..N /\ n \in e..N
      BY <3>1
    <3> HIDE DEF e
    <3>3. DiagonalSquares(x, e, n) \in Nat
      BY <3>2, DiagonalSteps
    <3> QED
      BY <3>3 DEF e
  <2>3. W[k] \in Nat
    BY <1>1, WeightFacts
  <2>4. p = p + 0 * W[k]
    <3> HIDE DEF p
    <3> QED
      BY <2>2, <2>3, SMT
  <2> QED
    BY <1>5, <2>1, <2>4
<1> QED
  BY <1>4, <1>5

\* Limb k of wrapping_square doubled, the limb of x whose square it is given,
\* and the two added when k is even.
DoubledLimbOf(z, k, b) == ((2 * Limb(z, k)) % B) + b

SquaredLimbOf(x, k) == Limb(x, k \div 2)

SquareSum(k, xi, dbl, c) ==
    IF k % 2 = 0 THEN carrying_mul_add(xi, xi, dbl, c) ELSE overflowing_add(dbl, c)

\* The bit that leaves the doubled limb.
ShiftedOut(z, k) == Limb(z, k) \div HalfB

\* Limb k leaves z1 and carries pending1 upwards, and the sum is as before.
SquaresKept(x, n, z, pending, k, z1, pending1) ==
    LimbsSquared(x, n, z1, pending1, k + 1) = LimbsSquared(x, n, z, pending, k)

\* Limb k is in the buffer, which holds z.
LimbInBuffer(n, on, k, z) == on \in 1..(2 * n) /\ k \in 0..(on - 1) /\ z < W[on]

\* wrapping_square: a limb is doubled, given its square, and stored.
LEMMA SquareLimbStep ==
    ASSUME NEW x \in Nat, NEW n \in 1..N, NEW on \in Nat, NEW k \in Nat,
           NEW z \in Nat, LimbInBuffer(n, on, k, z),
           NEW c \in Word, NEW b \in Nat, b <= 1,
           NEW dbl, dbl = DoubledLimbOf(z, k, b), NEW xi, xi = SquaredLimbOf(x, k),
           NEW sum, sum = SquareSum(k, xi, dbl, c)
    PROVE  /\ SetLimb(z, k, sum[1]) \in Nat /\ SetLimb(z, k, sum[1]) < W[on]
           /\ sum[2] \in Word
           /\ ShiftedOut(z, k) \in Nat /\ ShiftedOut(z, k) <= 1
           /\ SquaresKept(x, n, z, c + b, k, SetLimb(z, k, sum[1]), sum[2] + ShiftedOut(z, k))
<1> DEFINE w == W[k]
           l == Limb(z, k)
           h == l \div HalfB
           lo == z % w
           hi == z - lo
           s1 == sum[1]
           s2 == sum[2]
           st == SetLimb(z, k, s1)
           sq == IF k % 2 = 0 THEN xi * xi ELSE 0
           d == DiagonalSquares(x, Min2((k + 1) \div 2, n), n)
           d1 == DiagonalSquares(x, Min2(((k + 1) + 1) \div 2, n), n)
<1>0. on \in 1..(2 * n) /\ k \in 0..(on - 1) /\ z < W[on]
  BY DEF LimbInBuffer
<1>1. /\ N \in Nat /\ B \in Nat /\ B >= 2 /\ n \in Nat /\ on \in Nat /\ k \in Nat
      /\ k \in 0..(2 * N) /\ k \in 0..(2 * N - 1) /\ on \in 0..(2 * N) /\ k + 1 \in 0..on
      /\ k + 1 \in 0..(2 * N) /\ k < 2 * N /\ k \in 0..(2 * n - 1)
      /\ k \div 2 \in 0..(2 * N)
  BY <1>0, BaseFacts, SMT
<1>2. w \in Nat /\ w > 0 /\ W[k + 1] = B * w
  BY <1>1, WeightFacts
<1>3. l \in Word /\ xi \in Word
  BY <1>1, LimbType DEF SquaredLimbOf
<1>4. h \in Nat /\ h <= 1 /\ dbl \in Word /\ dbl + B * h = 2 * l + b
  <2>1. dbl = ((2 * l) % B) + b
    BY DEF DoubledLimbOf
  <2> HIDE DEF l
  <2> QED
    BY <1>3, <2>1, DoubledLimb
<1>5. sq \in Nat /\ xi \in Nat
  <2>1. xi \in Nat
    BY <1>1, <1>3, SMT DEF Word
  <2> QED
    BY <2>1, SMT
<1>6. s1 \in Word /\ s2 \in Word /\ s1 + B * s2 = sq + dbl + c
  <2> HIDE DEF l
  <2>1. CASE k % 2 = 0
    <3>1. sum = carrying_mul_add(xi, xi, dbl, c)
      BY <2>1 DEF SquareSum
    <3>2. sum[1] \in Word /\ sum[2] \in Word /\ sum[1] + B * sum[2] = xi * xi + dbl + c
      BY <1>3, <1>4, <3>1, MulAddExact
    <3> QED
      BY <2>1, <3>2
  <2>2. CASE k % 2 # 0
    <3>1. sum = overflowing_add(dbl, c)
      BY <2>2 DEF SquareSum
    <3>2. sum[1] \in Word /\ sum[2] \in Word /\ sum[1] + B * sum[2] = dbl + c
      BY <1>4, <3>1, OverflowingAddExact
    <3>3. dbl + c = 0 + dbl + c
      BY <1>1, <1>4, SMT DEF Word
    <3> QED
      BY <2>2, <3>2, <3>3
  <2> QED
    BY <2>1, <2>2
<1>7. /\ st \in Nat /\ st \div W[k + 1] = z \div W[k + 1]
      /\ st % W[k + 1] = lo + w * s1 /\ st + w * l = z + w * s1
  <2>1. k \in 0..(2 * N - 1) /\ s1 \in Word
    BY <1>1, <1>6
  <2> HIDE DEF s1
  <2>2. SetLimb(z, k, s1) \in Nat
    BY <2>1, StoreIs
  <2>3. SetLimb(z, k, s1) + W[k] * Limb(z, k) = z + W[k] * s1
    BY <2>1, StoreIs
  <2>4. SetLimb(z, k, s1) \div W[k + 1] = z \div W[k + 1]
    BY <2>1, StoreIs
  <2>5. SetLimb(z, k, s1) % W[k + 1] = (z % W[k]) + W[k] * s1
    BY <2>1, StoreIs
  <2> QED
    BY <2>2, <2>3, <2>4, <2>5
<1>8. st < W[on]
  <2> HIDE DEF st
  <2> QED
    BY <1>0, <1>1, <1>7, SameAbove
<1>9. d = d1 + sq * w
  BY <1>1, SquaresLeft DEF SquaredLimbOf
<1>10. d \in Nat /\ d1 \in Nat
  <2> DEFINE m == Min2((k + 1) \div 2, n)
             m1 == Min2(((k + 1) + 1) \div 2, n)
  <2>1. m \in 0..N /\ n \in m..N /\ m1 \in 0..N /\ n \in m1..N
    <3>1. (k + 1) \div 2 \in Nat /\ ((k + 1) + 1) \div 2 \in Nat
      BY <1>1, SMT
    <3> DEFINE f == (k + 1) \div 2
               g == ((k + 1) + 1) \div 2
    <3>2. f \in Nat /\ g \in Nat
      BY <3>1
    <3> HIDE DEF f, g
    <3>3. Min2(f, n) \in 0..N /\ n \in Min2(f, n)..N /\ Min2(g, n) \in 0..N
          /\ n \in Min2(g, n)..N
      BY <1>1, <3>2, SMT DEF Min2
    <3> QED
      BY <3>3 DEF f, g
  <2> HIDE DEF m, m1
  <2>2. DiagonalSquares(x, m, n) \in Nat /\ DiagonalSquares(x, m1, n) \in Nat
    BY <2>1, DiagonalSteps
  <2> QED
    BY <2>2 DEF m, m1
<1>11. lo \in Nat /\ z = w * (z \div w) + lo
  BY <1>2, NatDivMod
<1>12. l \in Nat /\ s1 \in Nat /\ s2 \in Nat /\ c \in Nat /\ dbl \in Nat
  BY <1>1, <1>3, <1>4, <1>6, SMT DEF Word
<1> DEFINE st0 == st
           sq0 == sq
<1>13. st0 \in Nat /\ st0 + w * l = z + w * s1 /\ st0 % W[k + 1] = lo + w * s1
       /\ d = d1 + sq0 * w /\ sq0 \in Nat /\ s1 + B * s2 = sq0 + dbl + c
  BY <1>5, <1>6, <1>7, <1>9
<1> HIDE DEF w, l, h, lo, s1, s2, st, sq, d, d1, st0, sq0
<1>14. (lo + w * s1) + (s2 + h) * (B * w) + 2 * (st0 - (lo + w * s1)) + d1
         = lo + (c + b) * w + 2 * (z - lo) + d
  <2>1. w * (s1 + B * s2) = w * (sq0 + dbl + c) /\ w * (dbl + B * h) = w * (2 * l + b)
    BY <1>4, <1>13
  <2>2. w * (s1 + B * s2) = w * s1 + s2 * (B * w)
        /\ w * (sq0 + dbl + c) = sq0 * w + w * dbl + c * w
    BY <1>1, <1>2, <1>12, <1>13, SMT
  <2>3. w * (dbl + B * h) = w * dbl + h * (B * w)
        /\ w * (2 * l + b) = 2 * (w * l) + b * w
    BY <1>1, <1>2, <1>4, <1>12, SMT
  <2>4. (s2 + h) * (B * w) = s2 * (B * w) + h * (B * w) /\ (c + b) * w = c * w + b * w
    BY <1>1, <1>2, <1>4, <1>12, SMT
  <2> DEFINE e1 == w * s1
             e2 == s2 * (B * w)
             e3 == sq0 * w
             e4 == w * dbl
             e5 == c * w
             e6 == h * (B * w)
             e7 == w * l
             e8 == b * w
             dd == dbl
  <2>5. e1 \in Nat /\ e2 \in Nat /\ e3 \in Nat /\ e4 \in Nat
    BY <1>1, <1>2, <1>12, <1>13, SMT
  <2>6. e5 \in Nat /\ e6 \in Nat /\ e7 \in Nat /\ e8 \in Nat
    BY <1>1, <1>2, <1>4, <1>12, SMT
  <2>7. e1 + e2 = e3 + e4 + e5 /\ e4 + e6 = 2 * e7 + e8
        /\ st0 + e7 = z + e1 /\ d = d1 + e3
    BY <1>13, <2>1, <2>2, <2>3
  <2>8. st0 \in Nat /\ d \in Nat /\ d1 \in Nat /\ lo \in Nat
    BY <1>10, <1>11, <1>13
  <2> HIDE DEF e1, e2, e3, e4, e5, e6, e7, e8
  <2>9. e1 + e2 + e6 = e3 + e5 + 2 * e7 + e8
    BY <2>5, <2>6, <2>7, SMT
  <2>10. (lo + e1) + (e2 + e6) + 2 * (st0 - (lo + e1)) + d1
           = lo + (e5 + e8) + 2 * (z - lo) + d
    BY <2>5, <2>6, <2>7, <2>8, <2>9, SMT
  <2> QED
    BY <2>4, <2>10 DEF e1, e2, e5, e6, e8
<1>15. LimbsSquared(x, n, st0, s2 + h, k + 1)
         = (lo + w * s1) + (s2 + h) * (B * w) + 2 * (st0 - (lo + w * s1)) + d1
  BY <1>2, <1>13 DEF LimbsSquared, d1
<1>16. LimbsSquared(x, n, z, c + b, k) = lo + (c + b) * w + 2 * (z - lo) + d
  BY DEF LimbsSquared, lo, w, d
<1>17. LimbsSquared(x, n, st, s2 + h, k + 1) = LimbsSquared(x, n, z, c + b, k)
  BY <1>14, <1>15, <1>16 DEF st0
<1> QED
  BY <1>4, <1>6, <1>7, <1>8, <1>17 DEF st, s1, s2, h, l, ShiftedOut, SquaresKept

----------------------------------------------------------------------------
(* What the routines return.                                               *)

\* A buffer and the carry that leaves it are the two halves of their sum.
LEMMA SplitIs ==
    ASSUME NEW on \in 0..(2 * N), NEW z \in Nat, z < W[on], NEW p \in Nat,
           NEW s, s = z + p * W[on]
    PROVE  Split(s, on) = <<z, p % B>> /\ s % W[on] = z /\ s \div W[on] = p
<1> DEFINE v == W[on]
<1>1. v \in Nat /\ v > 0 /\ B \in Nat
  BY WeightFacts, BaseFacts
<1>2. s = v * p + z /\ s \in Int /\ z \in 0..(v - 1) /\ p \in Int
  <2>1. s = z + p * v /\ z < v
    OBVIOUS
  <2> HIDE DEF v
  <2> QED
    BY <1>1, <2>1, SMT
<1>3. s \div v = p /\ s % v = z
  <2> HIDE DEF v
  <2> QED
    BY <1>1, <1>2, DivisionIs
<1> QED
  BY <1>3 DEF Split

\* Known up to the limb above the buffer, they are so too.
LEMMA HoldsAtEnd ==
    ASSUME NEW on \in 0..(2 * N - 1), NEW z \in Nat, z < W[on], NEW c \in Word, NEW s \in Nat,
           Holds(z, c, on, s, on)
    PROVE  Split(s, on) = <<z, c>>
<1> DEFINE v == W[on]
           h == Limb(s, on)
           l == s % v
<1>1. on \in 0..(2 * N) /\ B \in Nat /\ B >= 2 /\ v \in Nat /\ v > 0 /\ W[on + 1] = B * v
  BY WeightFacts, BaseFacts, SMT
<1>2. c \in Nat /\ c <= B - 1
  BY <1>1, SMT DEF Word
<1>3. s % W[on + 1] = l + v * h
  BY LowLimbs
<1>4. l \in Nat /\ l < v
  BY <1>1, NatDivMod
<1>5. h \in Nat
  <2>1. h \in Word
    BY <1>1, LimbType
  <2> QED
    BY <1>1, <2>1, SMT DEF Word
<1>6. (z + c * v) % (B * v) = z + c * v
  <2> DEFINE t == z + c * v
             m == B * v
  <2>1. z < v
    OBVIOUS
  <2>2. m \in Nat /\ m > 0 /\ t \in 0..(m - 1)
    <3> HIDE DEF v
    <3>1. v * c <= v * (B - 1)
      BY <1>1, <1>2, Monotone, SMT
    <3>2. v * (B - 1) = B * v - v /\ v * c = c * v /\ c * v \in Nat /\ B * v \in Nat
          /\ B * v > 0
      BY <1>1, <1>2, SMT
    <3> QED
      BY <1>1, <2>1, <3>1, <3>2, SMT
  <2> HIDE DEF t, m
  <2>3. t % m = t
    BY <2>2, ResidueItself
  <2> QED
    BY <2>3 DEF t, m
<1>7. z + c * v = l + v * h
  BY <1>1, <1>3, <1>6 DEF Holds
<1>8. c = h /\ z = l
  <2>1. v * c + z = v * h + l /\ z \in 0..(v - 1) /\ l \in 0..(v - 1) /\ c \in Int /\ h \in Int
    <3>1. z < v
      OBVIOUS
    <3> HIDE DEF v, h, l
    <3> QED
      BY <1>1, <1>2, <1>4, <1>5, <1>7, <3>1, SMT
  <2> HIDE DEF v, h, l
  <2> QED
    BY <1>1, <2>1, UniqueDivision
<1> QED
  BY <1>8 DEF Split, Limb

\* The end of wrapping_square's limb loop: nothing is left to double or to add.
LEMMA LimbsSquaredAtEnd ==
    ASSUME NEW x \in Nat, NEW n \in 1..N, NEW on \in 1..(2 * n),
           NEW z \in Nat, z < W[on], NEW p \in Nat,
           LimbsSquared(x, n, z, p, on)
             = 2 * (CrossRows(x, n) % W[on]) + DiagonalSquares(x, 0, n)
    PROVE  CutSquare(x, n, on) = z + p * W[on]
<1> DEFINE v == W[on]
           m == Min2((on + 1) \div 2, n)
           c == CrossRows(x, n) % v
           d == DiagonalSquares(x, 0, n)
           dl == DiagonalSquares(x, 0, m)
           du == DiagonalSquares(x, m, n)
<1>1. N \in Nat /\ n \in Nat /\ on \in Nat /\ on \in 0..(2 * N) /\ n \in 0..N /\ 0 \in 0..N
  BY BaseFacts, SMT
<1>2. v \in Nat /\ v > 0
  BY <1>1, WeightFacts
<1>3. m \in 0..n /\ m \in 0..N /\ n \in m..N
  <2>1. (on + 1) \div 2 \in Nat
    BY <1>1, SMT
  <2> DEFINE h == (on + 1) \div 2
  <2> HIDE DEF h
  <2>2. m = IF h < n THEN h ELSE n
    BY DEF Min2, h
  <2>3. h \in Nat
    BY <2>1 DEF h
  <2> HIDE DEF m
  <2> QED
    BY <1>1, <2>2, <2>3, SMT
<1>4. d \in Nat /\ dl \in Nat /\ du \in Nat /\ d = dl + du
  <2> HIDE DEF m
  <2> QED
    BY <1>1, <1>3, DiagonalSteps, DiagonalSplits
<1>5. c \in Nat
  <2>1. CrossRows(x, n) \in Nat
    BY <1>1, CrossRowsSteps
  <2> QED
    BY <1>2, <2>1, NatDivMod
<1>6. z % v = z
  <2>1. z \in 0..(v - 1)
    BY <1>2, SMT
  <2> QED
    BY <1>2, <2>1, ResidueItself
<1>7. z + p * v + 2 * (z - z) + du = 2 * c + d
  BY <1>6 DEF LimbsSquared
<1>8. CutSquare(x, n, on) = 2 * c + dl
  BY DEF CutSquare
<1> DEFINE pv == p * v
<1>9. pv \in Nat
  <2> HIDE DEF v
  <2> QED
    BY <1>2, SMT
<1>10. z + pv + 2 * (z - z) + du = 2 * c + d
  BY <1>7
<1> HIDE DEF v, c, d, dl, du, m, pv
<1>11. z + pv = 2 * c + dl
  BY <1>4, <1>5, <1>9, <1>10, SMT
<1> QED
  BY <1>8, <1>11 DEF pv, v

\* What wrapping_square holds between two limbs agrees with the square.
LEMMA LimbsSquaredCongruent ==
    ASSUME NEW x \in Nat, NEW n \in 1..N, x < W[n], NEW on \in 1..(2 * n),
           NEW t, t = 2 * (CrossRows(x, n) % W[on]) + DiagonalSquares(x, 0, n)
    PROVE  t % W[on] = (x * x) % W[on]
<1> DEFINE v == W[on]
           c == CrossRows(x, n)
           lo == c % v
           d == DiagonalSquares(x, 0, n)
<1>1. N \in Nat /\ n \in 0..N /\ n \in 0..(2 * N) /\ on \in 0..(2 * N) /\ 0 \in 0..N
  BY BaseFacts, SMT
<1>2. v \in Nat /\ v > 0 /\ c \in Int /\ d \in Nat /\ c \in Nat
  <2>1. c \in Nat
    BY <1>1, CrossRowsSteps
  <2>2. d \in Nat
    BY <1>1, DiagonalSteps
  <2>3. v \in Nat /\ v > 0
    BY <1>1, WeightFacts
  <2>4. c \in Int
    BY <2>1, SMT
  <2> QED
    BY <2>1, <2>2, <2>3, <2>4
<1>3. 2 * c + d = x * x
  <2>1. x % W[n] = x
    <3>1. W[n] \in Nat /\ W[n] > 0 /\ x \in 0..(W[n] - 1)
      BY <1>1, WeightFacts, SMT
    <3> QED
      BY <3>1, ResidueItself
  <2> QED
    BY <1>1, <2>1, SquareSplits
<1>4. t = 2 * lo + d
  OBVIOUS
<1> HIDE DEF c, v, d
<1>5. PICK e \in Int : lo = c + e * v
  BY <1>2, RemainderGap
<1> HIDE DEF lo
<1>6. Apart(t, 2 * c + d, 2 * e, v) /\ t \in Int /\ 2 * c + d \in Int /\ 2 * e \in Int
  <2>1. e * v \in Int
    BY <1>2, SMT
  <2>2. (2 * e) * v = 2 * (e * v)
    BY <1>2, SMT
  <2> DEFINE ev == e * v
  <2>3. ev \in Int /\ lo = c + ev /\ (2 * e) * v = 2 * ev
    BY <1>5, <2>1, <2>2
  <2> HIDE DEF ev
  <2>4. 2 * lo + d = (2 * c + d) + 2 * ev /\ 2 * lo + d \in Int
    BY <1>2, <2>3, SMT
  <2>5. 2 * c + d \in Int /\ 2 * e \in Int
    BY <1>2, SMT
  <2> QED
    BY <1>4, <2>3, <2>4, <2>5 DEF Apart
<1>7. t % v = (2 * c + d) % v
  BY <1>2, <1>6, ResidueApart
<1> QED
  BY <1>3, <1>7 DEF v

\* A product has room in the limbs of its factors.
LEMMA FullProduct ==
    ASSUME NEW x \in Nat, NEW y \in Nat, NEW m \in 1..N, NEW n \in 1..N, x < W[m], y < W[n]
    PROVE  /\ x % W[m] = x
           /\ x * y \in Nat /\ x * y < W[m + n]
<1>1. N \in Nat /\ m \in 0..(2 * N) /\ n \in 0..(2 * N) /\ m + n <= 2 * N
  BY BaseFacts, SMT
<1>2. W[m] \in Nat /\ W[m] > 0 /\ W[n] \in Nat /\ W[m + n] = W[m] * W[n]
  BY <1>1, WeightFacts, WeightsMultiply
<1> DEFINE v == W[m]
           w == W[n]
<1>3. v \in Nat /\ v > 0 /\ w \in Nat /\ x < v /\ y < w
  BY <1>2
<1> HIDE DEF v, w
<1>4. x * y \in Nat /\ x * y < v * w
  BY <1>3, ProductBelow
<1>5. x % v = x
  BY <1>3, SMT
<1> QED
  BY <1>2, <1>4, <1>5 DEF v, w

----------------------------------------------------------------------------
(* Loops that append a word to the limbs so far and hand a carry on.       *)

\* A loop that appends a word to the limbs so far and hands a carry on: s[i] is
\* the pair of both after i limbs.
WordsAdded(s, n) ==
    /\ s[0][1] = 0 /\ s[0][2] \in Int
    /\ \A i \in 1..n : s[i - 1][2] \in Int =>
           s[i][2] \in Int /\ \E w \in Word : s[i][1] = s[i - 1][1] + w * W[i - 1]

\* What it leaves fits the limbs.
LEMMA LimbsBelow ==
    ASSUME NEW n \in 0..(2 * N), NEW s, WordsAdded(s, n)
    PROVE  s[n][1] \in Nat /\ s[n][1] < W[n]
<1> DEFINE S == {j \in Nat : j <= n => s[j][2] \in Int /\ s[j][1] \in Nat /\ s[j][1] < W[j]}
<1>0. n \in Nat /\ n <= 2 * N /\ N \in Nat /\ B \in Nat /\ B >= 2
  BY BaseFacts, SMT
<1>1. 0 \in S
  <2>1. W[0] = 1
    BY WeightAssumption
  <2> QED
    BY <2>1, SMT DEF WordsAdded
<1>2. ASSUME NEW j \in S PROVE j + 1 \in S
  <2> SUFFICES ASSUME j + 1 <= n
               PROVE  s[j + 1][2] \in Int /\ s[j + 1][1] \in Nat /\ s[j + 1][1] < W[j + 1]
    BY SMT
  <2>1. j \in Nat /\ j <= n
    BY <1>0, SMT
  <2>2. s[j][2] \in Int /\ s[j][1] \in Nat /\ s[j][1] < W[j]
    BY <2>1
  <2>3. j + 1 \in 1..n /\ (j + 1) - 1 = j /\ j \in 0..(2 * N) /\ j < 2 * N
    BY <1>0, <2>1, SMT
  <2>4. s[j + 1][2] \in Int /\ \E w \in Word : s[j + 1][1] = s[j][1] + w * W[j]
    BY <2>2, <2>3 DEF WordsAdded
  <2>5. PICK w \in Word : s[j + 1][1] = s[j][1] + w * W[j]
    BY <2>4
  <2>6. W[j + 1] = B * W[j] /\ W[j] \in Nat
    BY <2>3, WeightFacts
  <2> DEFINE a == s[j][1]
             c == W[j]
             z == s[j + 1][1]
  <2>7. a \in Nat /\ a < c /\ c \in Nat /\ w \in Nat /\ w + 1 <= B /\ z = a + w * c
    BY <1>0, <2>2, <2>5, <2>6, SMT DEF Word
  <2> HIDE DEF a, c, z
  <2>8. c * (w + 1) <= c * B /\ c * (w + 1) = w * c + c /\ w * c \in Nat /\ c * B = B * c
    BY <1>0, <2>7, Monotone, SMT
  <2>9. z \in Nat /\ z < B * c
    BY <1>0, <2>7, <2>8, SMT
  <2> QED
    BY <2>4, <2>6, <2>9 DEF z, c
<1>3. S = Nat
  <2> HIDE DEF S
  <2>1. S \in SUBSET Nat
    BY DEF S
  <2> QED
    BY <2>1, <1>1, <1>2, SetInduction
<1>4. n \in S /\ n <= n
  BY <1>0, <1>3, SMT
<1> QED
  BY <1>4

\* An integer put together from words fits their number.
LEMMA FromLimbsFits ==
    ASSUME NEW n \in 0..(2 * N), NEW f, \A i \in 0..(n - 1) : f[i] \in Word
    PROVE  FromLimbs(f, n) \in Nat /\ FromLimbs(f, n) < W[n]
<1> DEFINE t == [e \in Nat |-> IF e \in 1..n THEN f[e - 1] * W[e - 1] ELSE 0]
<1>0. n \in Nat /\ n <= 2 * N /\ N \in Nat /\ 0 \in 0..n
  BY BaseFacts, SMT
<1>1. ASSUME NEW e \in 1..n PROVE f[e - 1] \in Word /\ f[e - 1] \in Nat /\ W[e - 1] \in Nat
                                  /\ f[e - 1] * W[e - 1] \in Nat
  <2>1. e - 1 \in 0..(n - 1) /\ e - 1 \in 0..(2 * N)
    BY <1>0, SMT
  <2>2. f[e - 1] \in Word /\ W[e - 1] \in Nat
    BY <2>1, WeightFacts
  <2>3. f[e - 1] \in Nat
    BY <2>2, BaseFacts, SMT DEF Word
  <2> QED
    BY <2>2, <2>3, SMT
<1>2. Terms(t)
  BY <1>1 DEF Terms
<1>3. \A e \in 1..n : t[e] = f[e - 1] * W[e - 1]
  BY <1>0, SMT
<1> HIDE DEF t
<1>4. PICK s : IsSum(s, t)
  BY <1>2, SumsExist
<1>5. s[0] = 0 /\ s \in [Nat -> Nat] /\ \A e \in Nat : s[e + 1] = s[e] + t[e + 1]
  BY <1>4 DEF IsSum
<1> DEFINE sum == CHOOSE sum : sum = [i \in 0..n |->
                      IF i = 0 THEN 0 ELSE sum[i - 1] + f[i - 1] * W[i - 1]]
           g   == [i \in 0..n |-> s[i]]
<1>6. g = [i \in 0..n |-> IF i = 0 THEN 0 ELSE g[i - 1] + f[i - 1] * W[i - 1]]
  <2>1. ASSUME NEW i \in 0..n, i # 0 PROVE s[i] = g[i - 1] + f[i - 1] * W[i - 1]
    <3>1. i - 1 \in Nat /\ i - 1 \in 0..n /\ (i - 1) + 1 = i /\ i \in 1..n
      BY <1>0, <2>1, SMT
    <3>2. s[(i - 1) + 1] = s[i - 1] + t[(i - 1) + 1]
      BY <1>5, <3>1
    <3>3. s[i] = s[i - 1] + f[i - 1] * W[i - 1]
      BY <1>3, <3>1, <3>2
    <3> QED
      BY <3>1, <3>3
  <2> QED
    BY <1>5, <2>1
<1> HIDE DEF g
<1>7. sum = [i \in 0..n |-> IF i = 0 THEN 0 ELSE sum[i - 1] + f[i - 1] * W[i - 1]]
  BY <1>6
<1>8. FromLimbs(f, n) = sum[n]
  BY DEF FromLimbs
<1> HIDE DEF sum
<1> DEFINE p == [i \in 0..n |-> <<sum[i], 0>>]
<1>9. WordsAdded(p, n)
  <2>1. p[0][1] = 0 /\ p[0][2] \in Int
    BY <1>0, <1>7
  <2>2. ASSUME NEW i \in 1..n
        PROVE  p[i][2] \in Int /\ \E w \in Word : p[i][1] = p[i - 1][1] + w * W[i - 1]
    <3>1. i \in 0..n /\ i - 1 \in 0..n /\ i # 0
      BY <1>0, SMT
    <3>2. sum[i] = sum[i - 1] + f[i - 1] * W[i - 1]
      BY <1>7, <3>1
    <3>3. p[i] = <<sum[i], 0>> /\ p[i - 1] = <<sum[i - 1], 0>>
      BY <3>1
    <3>4. f[i - 1] \in Word
      BY <1>1
    <3> QED
      BY <3>2, <3>3, <3>4
  <2> HIDE DEF p
  <2> QED
    BY <2>1, <2>2 DEF WordsAdded
<1>10. p[n][1] = sum[n]
  BY <1>0, SMT
<1> HIDE DEF p
<1> QED
  BY <1>8, <1>9, <1>10, LimbsBelow

\* The step of such a loop whose word operation on limb i is the function G[i]
\* of the carry.
Adding1(G, n) ==
    [i \in Nat |-> [u \in Int \X Int |->
        IF i \in 1..n THEN <<u[1] + G[i][u[2]][1] * W[i - 1], G[i][u[2]][2]>> ELSE <<0, 0>>]]

\* What the word operation returns,
WordOperation(G, n) ==
    \A i \in 1..n : \A c \in Int : G[i][c][1] \in Word /\ G[i][c][2] \in Int

\* and the pairs of the loop.
CarryLoop(f, G, n, carry) ==
    /\ f \in [0..n -> Int \X Int] /\ f[0] = <<0, carry>>
    /\ \A i \in 1..n : f[i] = <<f[i - 1][1] + G[i][f[i - 1][2]][1] * W[i - 1],
                                G[i][f[i - 1][2]][2]>>

\* The loop exists.
LEMMA LoopExists ==
    ASSUME NEW n \in 0..(2 * N), NEW carry \in Int, NEW G, WordOperation(G, n)
    PROVE  \E f : CarryLoop(f, G, n, carry)
<1> DEFINE S == Int \X Int
           F == Adding1(G, n)
<1>0. n \in Nat /\ n <= 2 * N /\ N \in Nat
  BY BaseFacts, SMT
<1>1. Closed(F, S)
  <2> SUFFICES ASSUME NEW i \in Nat, NEW u \in S PROVE F[i][u] \in S
    BY DEF Closed
  <2>1. CASE i \in 1..n
    <3>1. u[1] \in Int /\ u[2] \in Int
      OBVIOUS
    <3>2. G[i][u[2]][1] \in Word /\ G[i][u[2]][2] \in Int
      BY <2>1, <3>1 DEF WordOperation
    <3>3. i - 1 \in 0..(2 * N)
      BY <1>0, <2>1, SMT
    <3>4. W[i - 1] \in Nat
      BY <3>3, WeightFacts
    <3> DEFINE w == G[i][u[2]][1]
               k == W[i - 1]
    <3>5. w \in Nat /\ k \in Nat
      BY <3>2, <3>4, BaseFacts, SMT DEF Word
    <3> HIDE DEF w, k
    <3>6. u[1] + w * k \in Int
      BY <3>1, <3>5, SMT
    <3>7. F[i][u] = <<u[1] + w * k, G[i][u[2]][2]>>
      BY <2>1 DEF Adding1, w, k
    <3> QED
      BY <3>2, <3>6, <3>7
  <2>2. CASE i \notin 1..n
    <3>1. F[i][u] = <<0, 0>>
      BY <2>2 DEF Adding1
    <3> QED
      BY <3>1, SMT
  <2> QED
    BY <2>1, <2>2
<1>2. <<0, carry>> \in S
  OBVIOUS
<1>3. PICK f : IsRecursion(f, S, <<0, carry>>, n, F)
  <2> HIDE DEF F, S
  <2> QED
    BY <1>0, <1>1, <1>2, RecursionExists
<1>4. f \in [0..n -> S] /\ f[0] = <<0, carry>> /\ \A j \in 1..n : f[j] = F[j][f[j - 1]]
  BY <1>3 DEF IsRecursion
<1>5. ASSUME NEW i \in 1..n
      PROVE  f[i] = <<f[i - 1][1] + G[i][f[i - 1][2]][1] * W[i - 1], G[i][f[i - 1][2]][2]>>
  <2>1. i \in Nat /\ i - 1 \in 0..n
    BY <1>0, SMT
  <2>2. f[i] = F[i][f[i - 1]] /\ f[i - 1] \in S
    BY <1>4, <2>1
  <2> QED
    BY <2>1, <2>2 DEF Adding1
<1>6. CarryLoop(f, G, n, carry)
  BY <1>4, <1>5 DEF CarryLoop
<1> QED
  BY <1>6

\* The steps of such a loop, as long as the carry is an integer.
CarrySteps(s, G, n) ==
    \A i \in 1..n : s[i - 1][2] \in Int =>
        s[i] = <<s[i - 1][1] + G[i][s[i - 1][2]][1] * W[i - 1], G[i][s[i - 1][2]][2]>>

\* Such a loop hands a carry on and appends words.
LEMMA LoopAdds ==
    ASSUME NEW n \in 0..(2 * N), NEW carry \in Int, NEW G, WordOperation(G, n), NEW s, s[0] = <<0, carry>>,
           CarrySteps(s, G, n)
    PROVE  WordsAdded(s, n)
<1>1. ASSUME NEW i \in 1..n, s[i - 1][2] \in Int
      PROVE  s[i][2] \in Int /\ \E w \in Word : s[i][1] = s[i - 1][1] + w * W[i - 1]
  <2>1. G[i][s[i - 1][2]][1] \in Word /\ G[i][s[i - 1][2]][2] \in Int
    BY <1>1 DEF WordOperation
  <2>2. s[i] = <<s[i - 1][1] + G[i][s[i - 1][2]][1] * W[i - 1], G[i][s[i - 1][2]][2]>>
    BY <1>1 DEF CarrySteps
  <2> QED
    BY <2>1, <2>2
<1> QED
  BY <1>1 DEF WordsAdded

\* The word operations return a word and a carry whatever they are given.
LEMMA WordResults ==
    ASSUME NEW x \in Int, NEW y \in Int, NEW c \in Int
    PROVE  /\ carrying_add(x, y, c)[1] \in Word /\ carrying_add(x, y, c)[2] \in Int
           /\ borrowing_sub(x, y, c)[1] \in Word /\ borrowing_sub(x, y, c)[2] \in Int
<1>0. B \in Nat /\ B >= 2 /\ HalfB \in Nat /\ HalfB > 0
  BY BaseFacts, BaseAssumption, SMT
<1>1. ASSUME NEW a \in Int PROVE a % B \in Word /\ a \div B \in Int
  <2>1. a % B \in Nat /\ a % B < B /\ a \div B \in Int
    BY <1>0, DivMod
  <2> DEFINE m == a % B
  <2> HIDE DEF m
  <2>2. m \in Nat /\ m < B => m \in Word
    BY <1>0, SMT DEF Word
  <2> QED
    BY <2>1, <2>2 DEF m
<1>2. carrying_add(x, y, c)[1] \in Word /\ carrying_add(x, y, c)[2] \in Int
  <2> DEFINE ret == x + y + c
  <2>1. ret \in Int
    BY SMT
  <2>2. carrying_add(x, y, c) = <<ret % B, ret \div B>>
    BY DEF carrying_add, Lo, Hi
  <2> HIDE DEF ret
  <2> QED
    BY <1>1, <2>1, <2>2
<1>3. borrowing_sub(x, y, c)[1] \in Word /\ borrowing_sub(x, y, c)[2] \in Int
  <2> DEFINE top == c \div HalfB
             ret == (x - top) % B
             d   == ret - y
             on  == ret < y \/ x < top
  <2>1. top \in Int
    BY <1>0, DivMod
  <2>2. borrowing_sub(x, y, c) = <<d % B, Mask(on)>>
    BY DEF borrowing_sub
  <2>3. Mask(on) \in Int
    <3> HIDE DEF on
    <3> QED
      BY <1>0, SMT DEF Mask, WordMAX
  <2> HIDE DEF top, on
  <2>4. x - top \in Int
    BY <2>1, SMT
  <2>5. ret \in Int
    <3> DEFINE e == x - top
    <3> HIDE DEF e
    <3>1. e \in Int => e % B \in Int
      BY <1>0, DivMod, SMT
    <3> QED
      BY <2>4, <3>1 DEF e
  <2> HIDE DEF ret
  <2>6. d \in Int
    BY <2>5, SMT
  <2> HIDE DEF d
  <2> QED
    BY <1>1, <2>2, <2>3, <2>6
<1> QED
  BY <1>2, <1>3

\* Sums limb by limb,
AddedLimbs(a, b, n, carry) ==
    LET loop[i \in 0..n] ==
          IF i = 0 THEN <<0, carry>>
          ELSE LET r == carrying_add(Limb(a, i - 1), Limb(b, i - 1), loop[i - 1][2])
               IN  <<loop[i - 1][1] + r[1] * W[i - 1], r[2]>>
    IN  loop

\* fit their limbs;
LEMMA AddedLimbsFits ==
    ASSUME NEW a \in Nat, NEW b \in Nat, NEW n \in 0..(2 * N), NEW carry \in Int,
           NEW s, s = AddedLimbs(a, b, n, carry)
    PROVE  s[n][1] \in Nat /\ s[n][1] < W[n]
<1> DEFINE Op(i, c) == carrying_add(Limb(a, i - 1), Limb(b, i - 1), c)
           G == [i \in 1..n |-> [c \in Int |-> Op(i, c)]]
<1>0. n \in Nat /\ n <= 2 * N /\ N \in Nat /\ 0 \in 0..n
  BY BaseFacts, SMT
<1>1. ASSUME NEW i \in 1..n, NEW c \in Int PROVE Op(i, c)[1] \in Word /\ Op(i, c)[2] \in Int
  <2>1. i - 1 \in 0..(2 * N)
    BY <1>0, SMT
  <2>2. Limb(a, i - 1) \in Word /\ Limb(b, i - 1) \in Word
    BY <2>1, LimbType
  <2>3. Limb(a, i - 1) \in Int /\ Limb(b, i - 1) \in Int /\ B - 1 - Limb(a, i - 1) \in Int /\ 0 \in Int
    BY <2>2, BaseFacts, SMT DEF Word
  <2> QED
    BY <2>3, WordResults
<1>2. \A i \in 1..n : \A c \in Int : G[i][c] = Op(i, c)
  OBVIOUS
<1>3. WordOperation(G, n)
  <2> HIDE DEF G, Op
  <2> QED
    BY <1>1, <1>2 DEF WordOperation
<1> HIDE DEF G
<1>4a. PICK f : CarryLoop(f, G, n, carry)
  BY <1>3, LoopExists
<1>4. /\ f \in [0..n -> Int \X Int] /\ f[0] = <<0, carry>>
      /\ \A i \in 1..n : f[i] = <<f[i - 1][1] + G[i][f[i - 1][2]][1] * W[i - 1],
                                    G[i][f[i - 1][2]][2]>>
  BY <1>4a DEF CarryLoop
<1>5. f = [i \in 0..n |->
          IF i = 0 THEN <<0, carry>>
          ELSE LET r == carrying_add(Limb(a, i - 1), Limb(b, i - 1), f[i - 1][2])
               IN  <<f[i - 1][1] + r[1] * W[i - 1], r[2]>>]
  <2>1. ASSUME NEW i \in 0..n, i # 0
        PROVE  f[i] = <<f[i - 1][1] + Op(i, f[i - 1][2])[1] * W[i - 1], Op(i, f[i - 1][2])[2]>>
    <3>1. i \in 1..n /\ i - 1 \in 0..n
      BY <1>0, <2>1, SMT
    <3>2. f[i - 1][2] \in Int
      BY <1>4, <3>1
    <3>3. G[i][f[i - 1][2]] = Op(i, f[i - 1][2])
      BY <1>2, <3>1, <3>2
    <3> HIDE DEF Op
    <3> QED
      BY <1>4, <3>1, <3>3
  <2> QED
    BY <1>4, <2>1
<1>6. s = [i \in 0..n |->
          IF i = 0 THEN <<0, carry>>
          ELSE LET r == carrying_add(Limb(a, i - 1), Limb(b, i - 1), s[i - 1][2])
               IN  <<s[i - 1][1] + r[1] * W[i - 1], r[2]>>]
  BY <1>5 DEF AddedLimbs
<1>7. s[0] = <<0, carry>>
  BY <1>0, <1>6
<1>8. ASSUME NEW i \in 1..n, s[i - 1][2] \in Int
      PROVE  s[i] = <<s[i - 1][1] + G[i][s[i - 1][2]][1] * W[i - 1], G[i][s[i - 1][2]][2]>>
  <2>1. i \in 0..n /\ i # 0
    BY <1>0, SMT
  <2>2. s[i] = <<s[i - 1][1] + Op(i, s[i - 1][2])[1] * W[i - 1], Op(i, s[i - 1][2])[2]>>
    BY <1>6, <2>1
  <2>3. G[i][s[i - 1][2]] = Op(i, s[i - 1][2])
    BY <1>2, <1>8
  <2> HIDE DEF Op
  <2> QED
    BY <2>2, <2>3
<1>9. CarrySteps(s, G, n)
  BY <1>8 DEF CarrySteps
<1>10. WordsAdded(s, n)
  BY <1>3, <1>7, <1>9, LoopAdds
<1> QED
  BY <1>10, LimbsBelow

\* and so do differences
SubtractedLimbs(a, b, n, carry) ==
    LET loop[i \in 0..n] ==
          IF i = 0 THEN <<0, carry>>
          ELSE LET r == borrowing_sub(Limb(a, i - 1), Limb(b, i - 1), loop[i - 1][2])
               IN  <<loop[i - 1][1] + r[1] * W[i - 1], r[2]>>
    IN  loop

\* whatever the borrow;
LEMMA SubtractedLimbsFits ==
    ASSUME NEW a \in Nat, NEW b \in Nat, NEW n \in 0..(2 * N), NEW carry \in Int,
           NEW s, s = SubtractedLimbs(a, b, n, carry)
    PROVE  s[n][1] \in Nat /\ s[n][1] < W[n]
<1> DEFINE Op(i, c) == borrowing_sub(Limb(a, i - 1), Limb(b, i - 1), c)
           G == [i \in 1..n |-> [c \in Int |-> Op(i, c)]]
<1>0. n \in Nat /\ n <= 2 * N /\ N \in Nat /\ 0 \in 0..n
  BY BaseFacts, SMT
<1>1. ASSUME NEW i \in 1..n, NEW c \in Int PROVE Op(i, c)[1] \in Word /\ Op(i, c)[2] \in Int
  <2>1. i - 1 \in 0..(2 * N)
    BY <1>0, SMT
  <2>2. Limb(a, i - 1) \in Word /\ Limb(b, i - 1) \in Word
    BY <2>1, LimbType
  <2>3. Limb(a, i - 1) \in Int /\ Limb(b, i - 1) \in Int /\ B - 1 - Limb(a, i - 1) \in Int /\ 0 \in Int
    BY <2>2, BaseFacts, SMT DEF Word
  <2> QED
    BY <2>3, WordResults
<1>2. \A i \in 1..n : \A c \in Int : G[i][c] = Op(i, c)
  OBVIOUS
<1>3. WordOperation(G, n)
  <2> HIDE DEF G, Op
  <2> QED
    BY <1>1, <1>2 DEF WordOperation
<1> HIDE DEF G
<1>4a. PICK f : CarryLoop(f, G, n, carry)
  BY <1>3, LoopExists
<1>4. /\ f \in [0..n -> Int \X Int] /\ f[0] = <<0, carry>>
      /\ \A i \in 1..n : f[i] = <<f[i - 1][1] + G[i][f[i - 1][2]][1] * W[i - 1],
                                    G[i][f[i - 1][2]][2]>>
  BY <1>4a DEF CarryLoop
<1>5. f = [i \in 0..n |->
          IF i = 0 THEN <<0, carry>>
          ELSE LET r == borrowing_sub(Limb(a, i - 1), Limb(b, i - 1), f[i - 1][2])
               IN  <<f[i - 1][1] + r[1] * W[i - 1], r[2]>>]
  <2>1. ASSUME NEW i \in 0..n, i # 0
        PROVE  f[i] = <<f[i - 1][1] + Op(i, f[i - 1][2])[1] * W[i - 1], Op(i, f[i - 1][2])[2]>>
    <3>1. i \in 1..n /\ i - 1 \in 0..n
      BY <1>0, <2>1, SMT
    <3>2. f[i - 1][2] \in Int
      BY <1>4, <3>1
    <3>3. G[i][f[i - 1][2]] = Op(i, f[i - 1][2])
      BY <1>2, <3>1, <3>2
    <3> HIDE DEF Op
    <3> QED
      BY <1>4, <3>1, <3>3
  <2> QED
    BY <1>4, <2>1
<1>6. s = [i \in 0..n |->
          IF i = 0 THEN <<0, carry>>
          ELSE LET r == borrowing_sub(Limb(a, i - 1), Limb(b, i - 1), s[i - 1][2])
               IN  <<s[i - 1][1] + r[1] * W[i - 1], r[2]>>]
  BY <1>5 DEF SubtractedLimbs
<1>7. s[0] = <<0, carry>>
  BY <1>0, <1>6
<1>8. ASSUME NEW i \in 1..n, s[i - 1][2] \in Int
      PROVE  s[i] = <<s[i - 1][1] + G[i][s[i - 1][2]][1] * W[i - 1], G[i][s[i - 1][2]][2]>>
  <2>1. i \in 0..n /\ i # 0
    BY <1>0, SMT
  <2>2. s[i] = <<s[i - 1][1] + Op(i, s[i - 1][2])[1] * W[i - 1], Op(i, s[i - 1][2])[2]>>
    BY <1>6, <2>1
  <2>3. G[i][s[i - 1][2]] = Op(i, s[i - 1][2])
    BY <1>2, <1>8
  <2> HIDE DEF Op
  <2> QED
    BY <2>2, <2>3
<1>9. CarrySteps(s, G, n)
  BY <1>8 DEF CarrySteps
<1>10. WordsAdded(s, n)
  BY <1>3, <1>7, <1>9, LoopAdds
<1> QED
  BY <1>10, LimbsBelow

\* and the inverted limbs
NegatedLimbs(a, b, n, carry) ==
    LET loop[i \in 0..n] ==
          IF i = 0 THEN <<0, carry>>
          ELSE LET r == carrying_add(B - 1 - Limb(a, i - 1), 0, loop[i - 1][2])
               IN  <<loop[i - 1][1] + r[1] * W[i - 1], r[2]>>
    IN  loop

\* with a carry.
LEMMA NegatedLimbsFits ==
    ASSUME NEW a \in Nat, NEW b \in Nat, NEW n \in 0..(2 * N), NEW carry \in Int,
           NEW s, s = NegatedLimbs(a, b, n, carry)
    PROVE  s[n][1] \in Nat /\ s[n][1] < W[n]
<1> DEFINE Op(i, c) == carrying_add(B - 1 - Limb(a, i - 1), 0, c)
           G == [i \in 1..n |-> [c \in Int |-> Op(i, c)]]
<1>0. n \in Nat /\ n <= 2 * N /\ N \in Nat /\ 0 \in 0..n
  BY BaseFacts, SMT
<1>1. ASSUME NEW i \in 1..n, NEW c \in Int PROVE Op(i, c)[1] \in Word /\ Op(i, c)[2] \in Int
  <2>1. i - 1 \in 0..(2 * N)
    BY <1>0, SMT
  <2>2. Limb(a, i - 1) \in Word /\ Limb(b, i - 1) \in Word
    BY <2>1, LimbType
  <2>3. Limb(a, i - 1) \in Int /\ Limb(b, i - 1) \in Int /\ B - 1 - Limb(a, i - 1) \in Int /\ 0 \in Int
    BY <2>2, BaseFacts, SMT DEF Word
  <2> QED
    BY <2>3, WordResults
<1>2. \A i \in 1..n : \A c \in Int : G[i][c] = Op(i, c)
  OBVIOUS
<1>3. WordOperation(G, n)
  <2> HIDE DEF G, Op
  <2> QED
    BY <1>1, <1>2 DEF WordOperation
<1> HIDE DEF G
<1>4a. PICK f : CarryLoop(f, G, n, carry)
  BY <1>3, LoopExists
<1>4. /\ f \in [0..n -> Int \X Int] /\ f[0] = <<0, carry>>
      /\ \A i \in 1..n : f[i] = <<f[i - 1][1] + G[i][f[i - 1][2]][1] * W[i - 1],
                                    G[i][f[i - 1][2]][2]>>
  BY <1>4a DEF CarryLoop
<1>5. f = [i \in 0..n |->
          IF i = 0 THEN <<0, carry>>
          ELSE LET r == carrying_add(B - 1 - Limb(a, i - 1), 0, f[i - 1][2])
               IN  <<f[i - 1][1] + r[1] * W[i - 1], r[2]>>]
  <2>1. ASSUME NEW i \in 0..n, i # 0
        PROVE  f[i] = <<f[i - 1][1] + Op(i, f[i - 1][2])[1] * W[i - 1], Op(i, f[i - 1][2])[2]>>
    <3>1. i \in 1..n /\ i - 1 \in 0..n
      BY <1>0, <2>1, SMT
    <3>2. f[i - 1][2] \in Int
      BY <1>4, <3>1
    <3>3. G[i][f[i - 1][2]] = Op(i, f[i - 1][2])
      BY <1>2, <3>1, <3>2
    <3> HIDE DEF Op
    <3> QED
      BY <1>4, <3>1, <3>3
  <2> QED
    BY <1>4, <2>1
<1>6. s = [i \in 0..n |->
          IF i = 0 THEN <<0, carry>>
          ELSE LET r == carrying_add(B - 1 - Limb(a, i - 1), 0, s[i - 1][2])
               IN  <<s[i - 1][1] + r[1] * W[i - 1], r[2]>>]
  BY <1>5 DEF NegatedLimbs
<1>7. s[0] = <<0, carry>>
  BY <1>0, <1>6
<1>8. ASSUME NEW i \in 1..n, s[i - 1][2] \in Int
      PROVE  s[i] = <<s[i - 1][1] + G[i][s[i - 1][2]][1] * W[i - 1], G[i][s[i - 1][2]][2]>>
  <2>1. i \in 0..n /\ i # 0
    BY <1>0, SMT
  <2>2. s[i] = <<s[i - 1][1] + Op(i, s[i - 1][2])[1] * W[i - 1], Op(i, s[i - 1][2])[2]>>
    BY <1>6, <2>1
  <2>3. G[i][s[i - 1][2]] = Op(i, s[i - 1][2])
    BY <1>2, <1>8
  <2> HIDE DEF Op
  <2> QED
    BY <2>2, <2>3
<1>9. CarrySteps(s, G, n)
  BY <1>8 DEF CarrySteps
<1>10. WordsAdded(s, n)
  BY <1>3, <1>7, <1>9, LoopAdds
<1> QED
  BY <1>10, LimbsBelow

----------------------------------------------------------------------------
(* Bits of two words.                                                      *)

\* What is left by 2 * w, from what is left by w and the bit above.
LEMMA NextBit ==
    ASSUME NEW x \in Nat, NEW w \in Nat, w > 0
    PROVE  /\ x % (2 * w) = (x % w) + ((x \div w) % 2) * w
           /\ (x \div w) % 2 \in 0..1
<1> DEFINE q == x \div w
           r == x % w
           h == q \div 2
           b == q % 2
<1>1. q \in Nat /\ r \in Nat /\ r < w /\ x = w * q + r
  BY DivMod, SMT
<1> HIDE DEF q, r
<1>2. h \in Nat /\ b \in Nat /\ b < 2 /\ q = 2 * h + b
  BY <1>1, DivMod, SMT
<1> HIDE DEF h, b
<1>3. b \in 0..1
  BY <1>2, SMT
<1> DEFINE m == 2 * w
           t == r + b * w
<1>4. b * w = 0 \/ b * w = w
  BY <1>3, SMT
<1>5. b * w \in Nat /\ b * w <= w
  BY <1>4, SMT
<1>6. m \in Nat /\ m > 0 /\ t \in Nat /\ t < m
  BY <1>1, <1>5, SMT
<1>7. x = m * h + t
  <2>1. w * q = w * (2 * h + b)
    BY <1>2
  <2>2. w * (2 * h + b) = m * h + b * w
    BY <1>2, SMT
  <2> DEFINE f == m * h
             g == b * w
  <2>3. f \in Int /\ g \in Int /\ w * q = f + g
    BY <1>2, <1>5, <2>1, <2>2, SMT
  <2> HIDE DEF f, g, m
  <2>4. x = f + t
    BY <1>1, <2>3, SMT DEF g
  <2> QED
    BY <2>4 DEF f
<1>8. t \in 0..(m - 1) /\ x \in Int /\ h \in Int
  BY <1>2, <1>6, SMT
<1> HIDE DEF m, t
<1>9. x % m = t
  BY <1>6, <1>7, <1>8, DivisionIs
<1> QED
  BY <1>3, <1>9 DEF m, t, r, b, q

\* Words bit by bit: `&`, from which `|` and `^` follow.
BitOf(x, k, bw) == (x \div bw[k]) % 2

AndWords(x, y, bw, wb) ==
    LET sum[k \in 0..wb] ==
            IF k = 0 THEN 0
            ELSE sum[k - 1] + BitOf(x, k - 1, bw) * BitOf(y, k - 1, bw) * bw[k - 1]
    IN  sum[wb]

\* A sum s of the bits that the lowest k of both have.
CommonBits(s, x, y, k, bw) ==
    /\ s \in Nat /\ s <= x % bw[k] /\ s <= y % bw[k]
    /\ (x % bw[k]) + (y % bw[k]) - s < bw[k]
    /\ k >= 1 => s % 2 = (x % 2) * (y % 2)

\* One more bit.
LEMMA NextCommonBit ==
    ASSUME NEW bw, NEW wb, NEW top, BitTable(bw, wb, top),
           NEW x \in Nat, NEW y \in Nat, NEW k \in Nat, k < top,
           NEW s, CommonBits(s, x, y, k, bw),
           NEW z, z = s + BitOf(x, k, bw) * BitOf(y, k, bw) * bw[k]
    PROVE  CommonBits(z, x, y, k + 1, bw)
<1> DEFINE w == bw[k]
           a == x % w
           c == y % w
           b == BitOf(x, k, bw)
           d == BitOf(y, k, bw)
<1>1. w \in Nat /\ w > 0 /\ bw[k + 1] = 2 * w /\ bw[0] = 1 /\ top \in Nat
  BY BitFacts, BitTop, SMT
<1>2. s \in Nat /\ s <= a /\ s <= c /\ a + c - s < w
  BY DEF CommonBits
<1>3. a \in Nat /\ c \in Nat /\ a < w /\ c < w
  <2> HIDE DEF w
  <2> QED
    BY <1>1, DivMod, SMT
<1>4. /\ b \in 0..1 /\ x % (2 * w) = a + b * w
      /\ d \in 0..1 /\ y % (2 * w) = c + d * w
  <2>1. b = (x \div w) % 2 /\ d = (y \div w) % 2
    BY DEF BitOf
  <2> HIDE DEF w, b, d
  <2> QED
    BY <1>1, <2>1, NextBit
<1>5. z = s + (b * d) * w
  BY SMT
<1> DEFINE e == b * d
           bb == b * w
           dd == d * w
           ee == e * w
<1>6. /\ bb = 0 \/ bb = w
      /\ dd = 0 \/ dd = w
      /\ ee \in Nat
      /\ ee <= bb /\ ee <= dd /\ bb + dd - ee <= w
      /\ bb \in Nat /\ dd \in Nat
  <2> HIDE DEF w, b, d
  <2>1. CASE b = 0
    <3>1. e = 0 /\ bb = 0 /\ (dd = 0 \/ dd = w) /\ ee = 0
      BY <1>1, <1>4, <2>1, SMT
    <3> QED
      BY <1>1, <3>1, SMT
  <2>2. CASE b = 1
    <3>1. e = d /\ bb = w /\ (dd = 0 \/ dd = w) /\ ee = dd
      BY <1>1, <1>4, <2>2, SMT
    <3> QED
      BY <1>1, <3>1, SMT
  <2> QED
    BY <1>4, <2>1, <2>2, SMT
<1>7. k + 1 >= 1 => z % 2 = (x % 2) * (y % 2)
  <2>1. CASE k >= 1
    <3>1. s % 2 = (x % 2) * (y % 2)
      BY <2>1 DEF CommonBits
    <3>2. PICK v \in Nat : w = 2 * v
      <4>1. k - 1 \in Nat /\ k - 1 <= top /\ k - 1 < top /\ (k - 1) + 1 = k
        BY <1>1, <2>1, SMT
      <4>2. bw[k - 1] \in Nat /\ bw[(k - 1) + 1] = 2 * bw[k - 1]
        BY <4>1, BitFacts
      <4> QED
        BY <4>1, <4>2
    <3> HIDE DEF w
    <3>3. e \in Nat
      <4> HIDE DEF b, d
      <4> QED
        BY <1>4, SMT
    <3> HIDE DEF e
    <3>4. z = s + 2 * (e * v) /\ e * v \in Nat
      <4>1. e * w = 2 * (e * v) /\ e * v \in Nat
        BY <3>2, <3>3, SMT
      <4> QED
        BY <1>5, <4>1 DEF e
    <3> DEFINE g == e * v
    <3> HIDE DEF g
    <3>5. z = s + 2 * g /\ g \in Nat
      BY <3>4 DEF g
    <3>6. z % 2 = s % 2
      BY <1>2, <3>5, SMT
    <3> QED
      BY <3>1, <3>6
  <2>2. CASE k = 0
    <3>1. w = 1
      BY <1>1, <2>2
    <3>2. a = 0 /\ c = 0
      BY <1>3, <3>1, SMT
    <3>3. s = 0
      BY <1>2, <3>2, SMT
    <3>4. z = b * d
      <4>1. b * d \in Int
        <5> HIDE DEF b, d
        <5> QED
          BY <1>4, SMT
      <4> DEFINE f == b * d
      <4> HIDE DEF f
      <4>2. f \in Int /\ z = s + f * w
        BY <1>5, <4>1 DEF f
      <4>3. z = f
        <5> HIDE DEF w
        <5> QED
          BY <3>1, <3>3, <4>2, SMT
      <4> QED
        BY <4>3 DEF f
    <3>5. x % 2 = b /\ y % 2 = d
      <4>1. x % (2 * w) = 0 + b * w /\ y % (2 * w) = 0 + d * w
        BY <1>4, <3>2
      <4> HIDE DEF w, b, d
      <4>2. 2 * w = 2 /\ 0 + b * w = b /\ 0 + d * w = d
        BY <1>4, <3>1, SMT
      <4> QED
        BY <4>1, <4>2
    <3> HIDE DEF w, b, d
    <3>6. (b * d) % 2 = b * d
      <4>1. CASE b = 0
        BY <1>4, <4>1, SMT
      <4>2. CASE b = 1
        BY <1>4, <4>2, SMT
      <4> QED
        BY <1>4, <4>1, <4>2, SMT
    <3> QED
      BY <3>4, <3>5, <3>6
  <2> QED
    BY <2>1, <2>2, SMT
<1>8. /\ z \in Nat /\ z <= x % (2 * w) /\ z <= y % (2 * w)
      /\ (x % (2 * w)) + (y % (2 * w)) - z < 2 * w
  <2>1. x % (2 * w) = a + bb /\ y % (2 * w) = c + dd /\ z = s + ee
    BY <1>4, <1>5
  <2> DEFINE xx == x % (2 * w)
             yy == y % (2 * w)
  <2>2. xx = a + bb /\ yy = c + dd
    BY <2>1
  <2> HIDE DEF w, a, c, b, d, e, bb, dd, ee, xx, yy
  <2>3. z \in Nat /\ z <= xx /\ z <= yy /\ xx + yy - z < 2 * w
    BY <1>1, <1>2, <1>3, <1>6, <2>1, <2>2, SMT
  <2> QED
    BY <2>3 DEF xx, yy
<1> QED
  BY <1>1, <1>7, <1>8 DEF CommonBits

\* `&` of two words is below both and has their lowest bit; `|` is a word.
LEMMA AndIs ==
    ASSUME NEW bw, NEW wb, NEW top, BitTable(bw, wb, top),
           NEW x \in Word, NEW y \in Word, NEW z, z = AndWords(x, y, bw, wb)
    PROVE  /\ z \in Nat /\ z <= x /\ z <= y /\ x + y - z < B
           /\ z % 2 = (x % 2) * (y % 2)
<1> DEFINE t == [e \in Nat |-> IF e \in 1..wb
                               THEN BitOf(x, e - 1, bw) * BitOf(y, e - 1, bw) * bw[e - 1] ELSE 0]
<1>0. /\ wb \in Nat /\ wb > 0 /\ wb <= top /\ top \in Nat /\ bw[wb] = B /\ bw[0] = 1
      /\ B \in Nat /\ B >= 2 /\ x \in Nat /\ y \in Nat /\ x < B /\ y < B /\ 0 \in 0..wb
  <2>1. wb \in Nat /\ wb > 0 /\ top \in Nat /\ bw[wb] = B /\ bw[0] = 1
    BY BitTop
  <2>2. 1 \in 0..(2 * N) /\ B \in Nat /\ B >= 2
    BY BaseFacts, SMT
  <2>3. 1 * wb <= top
    BY <2>2, BitsOfLimbs
  <2>4. x \in Nat /\ y \in Nat /\ x < B /\ y < B
    BY <2>2, SMT DEF Word
  <2> QED
    BY <2>1, <2>2, <2>3, <2>4, SMT
<1>1. ASSUME NEW e \in 1..wb
      PROVE  /\ e - 1 \in Nat /\ e - 1 < top /\ e - 1 <= top /\ (e - 1) + 1 = e
             /\ BitOf(x, e - 1, bw) * BitOf(y, e - 1, bw) * bw[e - 1] \in Nat
  <2>1. e - 1 \in Nat /\ e - 1 < top /\ e - 1 <= top /\ (e - 1) + 1 = e
    BY <1>0, SMT
  <2> DEFINE w == bw[e - 1]
             b == BitOf(x, e - 1, bw)
             d == BitOf(y, e - 1, bw)
  <2>2. w \in Nat /\ w > 0
    BY <2>1, BitFacts
  <2>3. b = (x \div w) % 2 /\ d = (y \div w) % 2
    BY DEF BitOf
  <2> HIDE DEF w, b, d
  <2>4. b \in 0..1 /\ d \in 0..1
    BY <1>0, <2>2, <2>3, NextBit
  <2>5. b * d * w \in Nat
    BY <2>2, <2>4, SMT
  <2> QED
    BY <2>1, <2>5 DEF w, b, d
<1>2. Terms(t)
  BY <1>1 DEF Terms
<1>3. \A e \in 1..wb : t[e] = BitOf(x, e - 1, bw) * BitOf(y, e - 1, bw) * bw[e - 1]
  BY <1>0, SMT
<1> HIDE DEF t
<1>4. PICK s : IsSum(s, t)
  BY <1>2, SumsExist
<1>5. s[0] = 0 /\ s \in [Nat -> Nat] /\ \A e \in Nat : s[e + 1] = s[e] + t[e + 1]
  BY <1>4 DEF IsSum
<1> DEFINE sum == CHOOSE sum : sum = [k \in 0..wb |->
                      IF k = 0 THEN 0
                      ELSE sum[k - 1] + BitOf(x, k - 1, bw) * BitOf(y, k - 1, bw) * bw[k - 1]]
           g   == [k \in 0..wb |-> s[k]]
<1>6. g = [k \in 0..wb |->
              IF k = 0 THEN 0
              ELSE g[k - 1] + BitOf(x, k - 1, bw) * BitOf(y, k - 1, bw) * bw[k - 1]]
  <2>1. ASSUME NEW k \in 0..wb, k # 0
        PROVE  s[k] = g[k - 1] + BitOf(x, k - 1, bw) * BitOf(y, k - 1, bw) * bw[k - 1]
    <3>1. k - 1 \in Nat /\ k - 1 \in 0..wb /\ (k - 1) + 1 = k /\ k \in 1..wb
      BY <1>0, <2>1, SMT
    <3>2. s[(k - 1) + 1] = s[k - 1] + t[(k - 1) + 1]
      BY <1>5, <3>1
    <3>3. s[k] = s[k - 1] + BitOf(x, k - 1, bw) * BitOf(y, k - 1, bw) * bw[k - 1]
      BY <1>3, <3>1, <3>2
    <3> QED
      BY <3>1, <3>3
  <2> QED
    BY <1>5, <2>1
<1> HIDE DEF g
<1>7. sum = [k \in 0..wb |->
                IF k = 0 THEN 0
                ELSE sum[k - 1] + BitOf(x, k - 1, bw) * BitOf(y, k - 1, bw) * bw[k - 1]]
  BY <1>6
<1>8. z = sum[wb]
  BY DEF AndWords
<1> HIDE DEF sum
<1> DEFINE S == {k \in Nat : k <= wb => CommonBits(sum[k], x, y, k, bw)}
<1>9. 0 \in S
  <2>1. sum[0] = 0
    BY <1>0, <1>7
  <2>2. x % 1 = 0 /\ y % 1 = 0
    BY <1>0, SMT
  <2>3. CommonBits(0, x, y, 0, bw)
    BY <1>0, <2>2, SMT DEF CommonBits
  <2> QED
    BY <2>1, <2>3
<1>10. ASSUME NEW k \in S PROVE k + 1 \in S
  <2> SUFFICES ASSUME k + 1 <= wb PROVE CommonBits(sum[k + 1], x, y, k + 1, bw)
    BY SMT
  <2>1. k \in Nat /\ k <= wb /\ k < top /\ k + 1 \in 0..wb /\ k + 1 # 0 /\ (k + 1) - 1 = k
    BY <1>0, SMT
  <2>2. CommonBits(sum[k], x, y, k, bw)
    BY <2>1
  <2>3. sum[k + 1] = sum[k] + BitOf(x, k, bw) * BitOf(y, k, bw) * bw[k]
    BY <1>7, <2>1
  <2> QED
    BY <1>0, <2>1, <2>2, <2>3, NextCommonBit
<1>11. S = Nat
  <2> HIDE DEF S
  <2>1. S \in SUBSET Nat
    BY DEF S
  <2> QED
    BY <2>1, <1>9, <1>10, SetInduction
<1>12. CommonBits(z, x, y, wb, bw)
  BY <1>0, <1>8, <1>11
<1>13. x % B = x /\ y % B = y
  BY <1>0, SMT
<1> QED
  BY <1>0, <1>12, <1>13, SMT DEF CommonBits

\* `|`, `^` and `!` of words are words.
LEMMA WordsOfBits ==
    ASSUME NEW bw, NEW wb, NEW top, BitTable(bw, wb, top),
           NEW x \in Word, NEW y \in Word, NEW z, z = AndWords(x, y, bw, wb)
    PROVE  z \in Word /\ x + y - z \in Word /\ x + y - 2 * z \in Word /\ WordMAX - x \in Word
<1>1. z \in Nat /\ z <= x /\ z <= y /\ x + y - z < B
  BY AndIs
<1>2. x \in Nat /\ y \in Nat /\ x < B /\ y < B /\ B \in Nat
  BY BaseFacts, SMT DEF Word
<1> QED
  BY <1>1, <1>2, SMT DEF Word, WordMAX

----------------------------------------------------------------------------
(* Counting from the highest limb of v down while the limbs are zero.      *)

\* s[i] is the pair of the count and whether all of the i highest limbs, f[0] to
\* f[i - 1], were zero; c[w] is what a limb w adds.
CountedLimbs(s, f, n, c) ==
    /\ s[0] = <<0, TRUE>>
    /\ \A i \in 1..n : /\ s[i][1] = s[i - 1][1] + (IF s[i - 1][2] THEN c[f[i - 1]] ELSE 0)
                       /\ s[i][2] <=> (s[i - 1][2] /\ f[i - 1] = 0)
                       /\ s[i][2] \in BOOLEAN

\* No limb adds more than its bits, and none that is not zero all of them.
ZerosOfLimb(c, wb) ==
    \A w \in Word : c[w] \in Nat /\ c[w] <= wb /\ (w # 0 => c[w] < wb)

\* Limbs that were not counted whole are at least k, and v fits k limbs.
CountFits(cnt, more, i, v, n, wb) ==
    /\ cnt \in Nat
    /\ \E k \in 0..n : /\ v < W[k]
                       /\ more => k = n - i /\ cnt + k * wb <= n * wb
                       /\ cnt + k * wb < n * wb + wb

\* One more limb.
LEMMA NextCount ==
    ASSUME NEW n \in 0..(2 * N), NEW wb \in Nat, wb > 0, NEW v \in Nat,
           NEW i \in Nat, i < n, NEW cnt, NEW more \in BOOLEAN, CountFits(cnt, more, i, v, n, wb),
           NEW w, w = Limb(v, n - 1 - i),
           NEW z \in Nat, z <= wb, w # 0 => z < wb
    PROVE  CountFits(cnt + (IF more THEN z ELSE 0), more /\ w = 0, i + 1, v, n, wb)
<1>0. n \in Nat /\ n <= 2 * N /\ N \in Nat /\ B \in Nat /\ B >= 2
  BY BaseFacts, SMT
<1>1. cnt \in Nat
  BY DEF CountFits
<1>2. PICK k \in 0..n : /\ v < W[k]
                        /\ more => k = n - i /\ cnt + k * wb <= n * wb
                        /\ cnt + k * wb < n * wb + wb
  BY DEF CountFits
<1> DEFINE kw == k * wb
           nw == n * wb
<1>3. kw \in Nat /\ nw \in Nat
  BY <1>0, SMT
<1>4. CASE ~more
  <2>1. cnt + 0 \in Nat /\ cnt + 0 + k * wb < n * wb + wb
    BY <1>1, <1>2, <1>3, <1>4, SMT
  <2> QED
    BY <1>2, <1>4, <2>1 DEF CountFits
<1>5. CASE more
  <2>1. k = n - i /\ cnt + kw <= nw
    BY <1>2, <1>5
  <2> DEFINE m == n - 1 - i
  <2>2. m \in 0..(2 * N) /\ m < 2 * N /\ m \in 0..n /\ k = m + 1 /\ m = n - (i + 1) /\ m \in Nat
    BY <1>0, <2>1, SMT
  <2>3. CASE w # 0
    <3>1. cnt + z \in Nat /\ cnt + z + kw < nw + wb
      <4> HIDE DEF kw, nw
      <4> QED
        BY <1>1, <1>3, <2>1, <2>3, SMT
    <3> QED
      BY <1>2, <1>5, <2>3, <3>1 DEF CountFits
  <2>4. CASE w = 0
    <3> DEFINE a == W[m]
               q == v \div a
    <3>1. a \in Nat /\ a > 0 /\ W[k] = B * a
      BY <2>2, WeightFacts
    <3>2. w = q % B
      BY DEF Limb
    <3>3. q \in Nat /\ v = a * q + (v % a) /\ v % a \in Nat
      <4> HIDE DEF a
      <4> QED
        BY <3>1, DivMod, SMT
    <3>4. q < B
      <4>1. v < a * B
        BY <1>0, <1>2, <3>1, SMT
      <4> DEFINE r == v % a
                 g == a * q
                 h == a * B
      <4>2. g < h
        <5> HIDE DEF q, a
        <5>1. g \in Int /\ h \in Int /\ r \in Nat /\ v = g + r /\ v < h
          BY <1>0, <3>1, <3>3, <4>1, SMT
        <5> HIDE DEF g, h, r
        <5> QED
          BY <5>1, SMT
      <4> HIDE DEF q, a, r
      <4> QED
        BY <1>0, <3>1, <3>3, <4>2, Cancel
    <3>5. q = 0
      <4> HIDE DEF q
      <4> QED
        BY <1>0, <2>4, <3>2, <3>3, <3>4, SMT
    <3>6. v < W[m]
      BY <2>2, <3>5, BelowWeight
    <3>7. cnt + z \in Nat /\ cnt + z + m * wb <= n * wb /\ cnt + z + m * wb < n * wb + wb
      <4> DEFINE mw == m * wb
      <4>1. mw \in Nat /\ kw = mw + wb
        BY <2>2, SMT
      <4> HIDE DEF kw, nw, mw
      <4>2. cnt + z \in Nat /\ cnt + z + mw <= nw /\ cnt + z + mw < nw + wb
        BY <1>1, <1>3, <2>1, <4>1, SMT
      <4> QED
        BY <4>2 DEF mw, nw
    <3> QED
      BY <1>5, <2>2, <2>4, <3>6, <3>7 DEF CountFits
  <2> QED
    BY <2>3, <2>4
<1> QED
  BY <1>4, <1>5

\* The step of the loop that counts,
AddingCount(f, n, c) ==
    [i \in Nat |-> [u \in Nat \X BOOLEAN |->
        IF i \in 1..n THEN <<u[1] + (IF u[2] THEN c[f[i - 1]] ELSE 0), u[2] /\ f[i - 1] = 0>>
        ELSE <<0, TRUE>>]]

\* which exists,
LEMMA CountExists ==
    ASSUME NEW n \in Nat, NEW f, \A i \in 0..(n - 1) : f[i] \in Word,
           NEW wb, NEW c, ZerosOfLimb(c, wb)
    PROVE  \E s : IsRecursion(s, Nat \X BOOLEAN, <<0, TRUE>>, n, AddingCount(f, n, c))
<1> DEFINE S == Nat \X BOOLEAN
           F == AddingCount(f, n, c)
<1>1. <<0, TRUE>> \in S
  OBVIOUS
<1>2. Closed(F, S)
  <2> SUFFICES ASSUME NEW i \in Nat, NEW u \in S PROVE F[i][u] \in S
    BY DEF Closed
  <2>1. CASE i \in 1..n
    <3>1. i - 1 \in 0..(n - 1)
      BY <2>1, SMT
    <3>2. c[f[i - 1]] \in Nat
      BY <3>1 DEF ZerosOfLimb
    <3> DEFINE g == c[f[i - 1]]
               k == u[1]
               b == u[2] /\ f[i - 1] = 0
    <3>3. k \in Nat /\ b \in BOOLEAN
      OBVIOUS
    <3>4. k + (IF u[2] THEN g ELSE 0) \in Nat
      <4>1. k + g \in Nat /\ k + 0 \in Nat
        <5> HIDE DEF k, g
        <5> QED
          BY <3>2, <3>3, SMT DEF g
      <4> QED
        BY <4>1
    <3>5. F[i][u] = <<k + (IF u[2] THEN g ELSE 0), b>>
      BY <2>1 DEF AddingCount
    <3> DEFINE h == k + (IF u[2] THEN g ELSE 0)
    <3>6. F[i][u] = <<h, b>> /\ h \in Nat
      BY <3>4, <3>5
    <3> HIDE DEF b, h, F
    <3> DEFINE e == <<h, b>>
    <3>7. e \in S
      BY <3>3, <3>6
    <3>8. F[i][u] = e
      BY <3>6
    <3> HIDE DEF e, S
    <3> QED
      BY <3>7, <3>8
  <2>2. CASE i \notin 1..n
    <3>1. F[i][u] = <<0, TRUE>>
      BY <2>2 DEF AddingCount
    <3> HIDE DEF F, S
    <3> QED
      BY <1>1, <3>1
  <2> QED
    BY <2>1, <2>2
<1> HIDE DEF S, F
<1>3. \E s : IsRecursion(s, S, <<0, TRUE>>, n, F)
  BY <1>2, <1>1, RecursionExists
<1> QED
  BY <1>3 DEF S, F

\* and v, which fits n limbs, fits as many bits, rounded up, as are left.
LEMMA CountedFits ==
    ASSUME NEW n \in 0..(2 * N), NEW wb \in Nat, wb > 0, NEW v \in Nat, v < W[n],
           NEW f, \A i \in 0..(n - 1) : f[i] = Limb(v, n - 1 - i),
           NEW c, ZerosOfLimb(c, wb), NEW s, CountedLimbs(s, f, n, c)
    PROVE  CountFits(s[n][1], s[n][2], n, v, n, wb)
<1> DEFINE S == {i \in Nat : i <= n => CountFits(s[i][1], s[i][2], i, v, n, wb)}
<1>0. n \in Nat /\ n <= 2 * N /\ N \in Nat
  BY BaseFacts, SMT
<1>1. 0 \in S
  <2>1. s[0][1] = 0 /\ n \in 0..n /\ n = n - 0
    BY <1>0, SMT DEF CountedLimbs
  <2>2. 0 \in Nat /\ 0 + n * wb <= n * wb /\ 0 + n * wb < n * wb + wb
    BY <1>0, SMT
  <2> QED
    BY <2>1, <2>2 DEF CountFits
<1>2. ASSUME NEW i \in S PROVE i + 1 \in S
  <2> SUFFICES ASSUME i + 1 <= n
               PROVE  CountFits(s[i + 1][1], s[i + 1][2], i + 1, v, n, wb)
    BY SMT
  <2>1. i \in Nat /\ i <= n /\ i < n /\ i + 1 \in 1..n /\ (i + 1) - 1 = i /\ i \in 0..n
        /\ i \in 0..(n - 1) /\ n - 1 - i \in 0..(2 * N)
    BY <1>0, SMT
  <2> DEFINE cnt == s[i][1]
             more == s[i][2]
             w == f[i]
             z == c[w]
  <2>2. CountFits(cnt, more, i, v, n, wb)
    BY <2>1
  <2>3. /\ s[0] = <<0, TRUE>>
        /\ \A j \in 1..n : /\ s[j][1] = s[j - 1][1] + (IF s[j - 1][2] THEN c[f[j - 1]] ELSE 0)
                           /\ s[j][2] <=> (s[j - 1][2] /\ f[j - 1] = 0)
                           /\ s[j][2] \in BOOLEAN
    BY DEF CountedLimbs
  <2>4. s[i + 1][1] = cnt + (IF more THEN z ELSE 0) /\ (s[i + 1][2] <=> (more /\ w = 0))
    <3> DEFINE j == i + 1
    <3>1. /\ s[j][1] = s[j - 1][1] + (IF s[j - 1][2] THEN c[f[j - 1]] ELSE 0)
          /\ s[j][2] <=> (s[j - 1][2] /\ f[j - 1] = 0)
      BY <2>1, <2>3
    <3>2. j - 1 = i
      BY <2>1
    <3> QED
      BY <3>1, <3>2
  <2>5. more \in BOOLEAN /\ s[i + 1][2] \in BOOLEAN
    <3>1. s[i + 1][2] \in BOOLEAN
      BY <2>1, <2>3
    <3>2. i = 0 \/ i \in 1..n
      BY <2>1, SMT
    <3>3. CASE i = 0
      <4>1. s[0][2] = TRUE
        BY <2>3
      <4>2. more = TRUE
        BY <3>3, <4>1
      <4> QED
        BY <3>1, <4>2
    <3>4. CASE i \in 1..n
      BY <2>3, <3>1, <3>4
    <3> QED
      BY <3>2, <3>3, <3>4
  <2>6. w = Limb(v, n - 1 - i)
    BY <2>1
  <2>7. z \in Nat /\ z <= wb /\ (w # 0 => z < wb)
    <3>1. w \in Word
      BY <2>1, <2>6, LimbType
    <3> HIDE DEF w
    <3> QED
      BY <3>1 DEF ZerosOfLimb
  <2>8. s[i + 1][2] = (more /\ w = 0)
    BY <2>4, <2>5
  <2> HIDE DEF cnt, more, w, z
  <2>9. CountFits(cnt + (IF more THEN z ELSE 0), more /\ w = 0, i + 1, v, n, wb)
    BY <2>1, <2>2, <2>5, <2>6, <2>7, NextCount
  <2> QED
    BY <2>4, <2>8, <2>9
<1>3. S = Nat
  <2> HIDE DEF S
  <2>1. S \in SUBSET Nat
    BY DEF S
  <2> QED
    BY <2>1, <1>1, <1>2, SetInduction
<1> QED
  BY <1>0, <1>3

\* So it fits the limbs that p bits take, if p is at least what is left.
LEMMA WithinBits ==
    ASSUME NEW n \in 0..(2 * N), NEW wb \in Nat, wb > 0, NEW v \in Nat,
           NEW cnt, NEW more, NEW i, CountFits(cnt, more, i, v, n, wb),
           NEW p \in Nat, p >= n * wb - cnt,
           NEW t \in 0..(2 * N), t = (p + wb - 1) \div wb
    PROVE  v < W[t]
<1>0. n \in Nat /\ n <= 2 * N /\ N \in Nat /\ t \in Nat
  BY BaseFacts, SMT
<1>1. PICK k \in 0..n : v < W[k] /\ cnt + k * wb < n * wb + wb
  BY DEF CountFits
<1>2. cnt \in Nat
  BY DEF CountFits
<1> DEFINE kw == wb * k
           nw == n * wb
           a  == p + wb - 1
           r  == a % wb
           tw == wb * t
           uw == wb * (t + 1)
<1>3. kw = k * wb /\ kw \in Nat /\ nw \in Nat /\ tw \in Nat /\ uw = tw + wb /\ a \in Nat /\ uw \in Nat
  BY <1>0, SMT
<1>4. a = tw + r /\ r \in Nat /\ r < wb
  <2>1. t = a \div wb
    OBVIOUS
  <2> HIDE DEF a
  <2>2. a = wb * (a \div wb) + r /\ r \in Nat /\ r < wb
    BY <1>3, DivMod, SMT
  <2> QED
    BY <2>1, <2>2
<1>5. kw < uw
  <2>1. cnt + kw < nw + wb /\ p >= nw - cnt
    BY <1>1, <1>3
  <2> HIDE DEF kw, nw, tw, uw, r
  <2> QED
    BY <1>2, <1>3, <1>4, <2>1, SMT
<1>6. k < t + 1
  <2>1. k \in Int /\ t + 1 \in Int
    BY <1>0, SMT
  <2> QED
    BY <1>5, <2>1, Cancel
<1>7. k \in 0..t /\ k \in 0..(2 * N)
  BY <1>0, <1>6, SMT
<1>8. W[k] <= W[t] /\ W[k] \in Nat /\ W[t] \in Nat
  BY <1>7, WeightsGrow, WeightFacts
<1> QED
  BY <1>1, <1>8, SMT

----------------------------------------------------------------------------
(* The lowest limb.                                                        *)

\* It has the lowest bit of the integer, and so has what is stored there.
LEMMA LowestBit ==
    ASSUME NEW n \in 1..(2 * N), NEW v \in Nat, v < W[n], NEW w \in Word,
           NEW z, z = SetLimb(v, 0, w)
    PROVE  /\ Limb(v, 0) \in Word /\ Limb(v, 0) % 2 = v % 2
           /\ z \in Nat /\ z < W[n] /\ z % 2 = w % 2
<1> DEFINE q == v \div B
           r == v % B
           c == W[n - 1]
           bq == B * q
           t == HalfB * q
<1>1. B \in Nat /\ B > 0 /\ HalfB \in Nat /\ B = 2 * HalfB /\ N \in Nat /\ w \in Nat /\ w < B
      /\ W[0] = 1 /\ n - 1 \in 0..(2 * N) /\ n - 1 < 2 * N /\ (n - 1) + 1 = n
  BY BaseFacts, BaseAssumption, FirstWeights, SMT DEF B, Word
<1>2. c \in Nat /\ c > 0 /\ W[n] = B * c
  BY <1>1, WeightFacts
<1>3. v \in Int /\ v >= 0 /\ w \in Int
  BY <1>1, SMT
<1>4. q \in Nat /\ r \in Nat /\ r < B /\ v = bq + r
  BY <1>1, <1>3, DivMod
<1>5. Limb(v, 0) = r
  <2>1. v \div 1 = v
    BY <1>3, SMT
  <2> QED
    BY <1>1, <2>1 DEF Limb
<1>6. z = v + (w - r) * 1
  BY <1>1, <1>5 DEF SetLimb
<1> HIDE DEF q, r, c
<1>7. bq \in Nat /\ t \in Nat /\ bq = 2 * t
  <2>1. B * q = 2 * (HalfB * q)
    BY <1>1, <1>4, SMT
  <2>2. HalfB * q \in Nat
    BY <1>1, <1>4, SMT
  <2> QED
    BY <2>1, <2>2, SMT
<1>8. bq + B <= W[n]
  <2>1. bq < B * c
    <3> DEFINE bc == B * c
    <3>1. bc \in Nat /\ v < bc
      BY <1>1, <1>2, SMT
    <3> HIDE DEF bq, bc
    <3> QED
      BY <1>4, <1>7, <3>1, SMT DEF bc
  <2>2. q < c
    BY <1>1, <1>2, <1>4, <2>1, Cancel
  <2>3. q + 1 <= c /\ q + 1 \in Int /\ c \in Int
    BY <1>2, <1>4, <2>2, SMT
  <2>4. B * (q + 1) <= B * c
    BY <1>1, <2>3, Monotone
  <2>5. B * (q + 1) = bq + B
    BY <1>1, <1>4, SMT
  <2> QED
    BY <1>2, <2>4, <2>5
<1>9. W[n] \in Nat
  BY <1>1, <1>2, SMT
<1> HIDE DEF bq, t
<1>10. z = bq + w /\ z \in Nat /\ z < W[n]
  BY <1>1, <1>3, <1>4, <1>6, <1>7, <1>8, <1>9, SMT
<1>11. (2 * t + w) % 2 = w % 2 /\ (2 * t + r) % 2 = r % 2
  BY <1>1, <1>4, <1>7, SMT
<1>12. z % 2 = w % 2 /\ r % 2 = v % 2
  BY <1>4, <1>7, <1>10, <1>11
<1>13. r \in Word
  BY <1>1, <1>4, SMT DEF Word
<1> QED
  BY <1>5, <1>10, <1>12, <1>13

\* The product of two odd integers is odd, that of two that are not zero is not.
LEMMA LegalProduct ==
    ASSUME NEW a \in Nat, NEW b \in Nat
    PROVE  /\ a # 0 /\ b # 0 => a * b # 0
           /\ a % 2 = 1 /\ b % 2 = 1 => (a * b) % 2 = 1
<1>1. a # 0 /\ b # 0 => a * b # 0
  BY SMT
<1>2. ASSUME a % 2 = 1, b % 2 = 1 PROVE (a * b) % 2 = 1
  <2> DEFINE p == a \div 2
             q == b \div 2
  <2>1. p \in Nat /\ q \in Nat /\ a = 2 * p + 1 /\ b = 2 * q + 1
    BY <1>2, SMT
  <2> HIDE DEF p, q
  <2> DEFINE g == 2 * p * q + p + q
  <2>2. g \in Nat /\ a * b = 2 * g + 1
    <3>1. g \in Nat
      BY <2>1, SMT
    <3>2. (2 * p + 1) * (2 * q + 1) = 2 * (2 * p * q + p + q) + 1
      BY <2>1, SMT
    <3> QED
      BY <2>1, <3>1, <3>2
  <2> HIDE DEF g
  <2> QED
    BY <2>2, SMT
<1> QED
  BY <1>1, <1>2

=============================================================================
