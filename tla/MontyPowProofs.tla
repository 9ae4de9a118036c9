--------------------------- MODULE MontyPowProofs ---------------------------
(***************************************************************************)
(* The windowed exponentiations of MontyPow, for every word size, window,  *)
(* modulus, number of bases and exponents: the accumulated power is exact  *)
(* at every window and within it, the almost Montgomery variant stays      *)
(* within the error that two subtractions correct, and what is returned is *)
(* the power of the bits asked for.                                        *)
(***************************************************************************)
EXTENDS MontyPow, LimbsProofs

----------------------------------------------------------------------------
(* Digits to a base that is a power of two.                                *)

\* A number cut into its lowest digit, the next and the rest.
LEMMA TwoDigits ==
    ASSUME NEW y \in Nat, NEW w \in Nat, w > 0, NEW c \in Nat, c > 0
    PROVE  /\ y \div (w * c) = (y \div w) \div c
           /\ (y % (w * c)) \div w = (y \div w) % c
           /\ (y % (w * c)) % w = y % w
<1> DEFINE q == y \div w
           r == y % w
           h == q \div c
           g == q % c
<1>1. q \in Nat /\ r \in Nat /\ r < w /\ y = w * q + r
  BY DivMod
<1> HIDE DEF q, r
<1>2. h \in Nat /\ g \in Nat /\ g < c /\ q = c * h + g
  BY <1>1, DivMod
<1> HIDE DEF h, g
<1> DEFINE wc == w * c
           s == w * g + r
<1>3. wc \in Nat /\ wc > 0
  BY SMT
<1>4. s \in Nat /\ s < wc
  <2>1. w * (g + 1) <= w * c
    BY <1>2, Monotone, SMT
  <2>2. w * (g + 1) = w * g + w /\ w * g \in Nat
    BY <1>2, SMT
  <2> QED
    BY <1>1, <2>1, <2>2, SMT
<1>5. y = wc * h + s
  <2>1. w * (c * h + g) = (w * c) * h + w * g
    BY <1>2, SMT
  <2>2. (w * c) * h \in Int /\ w * g \in Int
    BY <1>2, SMT
  <2> QED
    BY <1>1, <1>2, <2>1, <2>2, SMT
<1> HIDE DEF wc
<1>6. y \div wc = h /\ y % wc = s
  <2> HIDE DEF s
  <2>1. s \in 0..(wc - 1) /\ y \in Int /\ h \in Int
    BY <1>2, <1>3, <1>4, SMT
  <2> QED
    BY <1>3, <1>5, <2>1, DivisionIs
<1>7. s \div w = g /\ s % w = r
  <2>1. r \in 0..(w - 1) /\ s \in Int /\ g \in Int /\ s = w * g + r
    BY <1>1, <1>2, <1>4, SMT
  <2> HIDE DEF s
  <2> QED
    BY <2>1, DivisionIs
<1> QED
  BY <1>6, <1>7 DEF q, r, h, g, wc

\* The same with powers of two.
LEMMA BitDigits ==
    ASSUME NEW y \in Nat, NEW s \in Nat, NEW t \in Nat
    PROVE  /\ y \div PowerOfTwo(s + t) = (y \div PowerOfTwo(s)) \div PowerOfTwo(t)
           /\ (y % PowerOfTwo(s + t)) \div PowerOfTwo(s)
                = (y \div PowerOfTwo(s)) % PowerOfTwo(t)
           /\ (y % PowerOfTwo(s + t)) % PowerOfTwo(s) = y % PowerOfTwo(s)
           /\ y \div PowerOfTwo(s) \in Nat
           /\ y % PowerOfTwo(s) \in 0..(PowerOfTwo(s) - 1)
<1> DEFINE w == PowerOfTwo(s)
           c == PowerOfTwo(t)
<1>1. w \in Nat /\ w > 0 /\ c \in Nat /\ c > 0 /\ PowerOfTwo(s + t) = w * c
  BY PowerDoubles, PowersMultiply
<1> HIDE DEF w, c
<1>2. /\ y \div (w * c) = (y \div w) \div c
      /\ (y % (w * c)) \div w = (y \div w) % c
      /\ (y % (w * c)) % w = y % w
  BY <1>1, TwoDigits
<1>3. y \div w \in Nat /\ y % w \in 0..(w - 1)
  BY <1>1, DivMod, SMT
<1> QED
  BY <1>1, <1>2, <1>3 DEF w, c

\* The low digits of a number are those of its remainder.
LowDigit(y, wc, w) == (y % wc) % w = y % w

LEMMA LowDigits ==
    ASSUME NEW y \in Nat, NEW s \in Nat, NEW t \in Nat
    PROVE  LowDigit(y, PowerOfTwo(s + t), PowerOfTwo(s))
    BY BitDigits DEF LowDigit

\* A number below a power of two has nothing above it.
LEMMA NothingAbove ==
    ASSUME NEW y \in Nat, NEW s \in Nat, NEW t \in Nat, s <= t
    PROVE  (y % PowerOfTwo(s)) \div PowerOfTwo(t) = 0
<1> DEFINE v == y % PowerOfTwo(s)
           w == PowerOfTwo(t)
<1>1. v \in 0..(PowerOfTwo(s) - 1) /\ PowerOfTwo(s) \in Nat
      /\ w \in Nat /\ w > 0 /\ PowerOfTwo(s) <= w
  BY BitDigits, PowerDoubles, PowersGrow
<1> HIDE DEF v, w
<1>2. v \in Int /\ v \in 0..(w - 1) /\ 0 \in Int /\ v = w * 0 + v
  BY <1>1, SMT
<1>3. v \div w = 0
  BY <1>1, <1>2, DivisionIs
<1> QED
  BY <1>3 DEF v, w

\* The weight of a limb is the power of two that its bits say.
LEMMA WeightIsPower ==
    ASSUME NEW l \in 0..(2 * N)
    PROVE  W[l] = PowerOfTwo(l * BITS)
<1> DEFINE S == {c \in Nat : c <= 2 * N => W[c] = PowerOfTwo(c * BITS)}
<1>1. N \in Nat /\ BITS \in Nat /\ B = PowerOfTwo(BITS)
  BY BaseFacts, WindowAssumption
<1>2. 0 \in S
  <2>1. 0 * BITS = 0
    BY <1>1, SMT
  <2> QED
    BY <2>1, WeightAssumption, PowerDoubles
<1>3. ASSUME NEW c \in S PROVE c + 1 \in S
  <2> SUFFICES ASSUME c + 1 <= 2 * N PROVE W[c + 1] = PowerOfTwo((c + 1) * BITS)
    OBVIOUS
  <2>1. c \in 0..(2 * N - 1) /\ c * BITS \in Nat /\ (c + 1) * BITS = BITS + c * BITS
    BY <1>1, SMT
  <2>2. W[c + 1] = B * W[c] /\ W[c] = PowerOfTwo(c * BITS)
    BY <1>1, <2>1, WeightAssumption, SMT
  <2>3. PowerOfTwo(BITS + c * BITS) = PowerOfTwo(BITS) * PowerOfTwo(c * BITS)
    BY <1>1, <2>1, PowersMultiply
  <2> QED
    BY <1>1, <2>1, <2>2, <2>3
<1>4. S = Nat
  <2>1. S \in SUBSET Nat
    OBVIOUS
  <2> HIDE DEF S
  <2> QED
    BY <1>2, <1>3, <2>1, SetInduction
<1>5. l \in S /\ l <= 2 * N
  BY <1>1, <1>4, SMT
<1> QED
  BY <1>5

\* t bits at place s of limb l are t bits at place l * BITS + s of the integer.
LEMMA BitsOfLimb ==
    ASSUME NEW y \in Nat, NEW l \in 0..(2 * N), NEW s \in Nat, NEW t \in Nat,
           s + t <= BITS
    PROVE  (Limb(y, l) \div PowerOfTwo(s)) % PowerOfTwo(t)
             = (y \div PowerOfTwo(l * BITS + s)) % PowerOfTwo(t)
<1>1. /\ BITS \in Nat /\ B = PowerOfTwo(BITS) /\ l \in Nat /\ l * BITS \in Nat
  BY WindowAssumption, SMT
<1>2. PICK f \in Nat : s + (t + f) = BITS /\ t + f \in Nat
  <2>1. BITS - s - t \in Nat /\ s + (t + (BITS - s - t)) = BITS
        /\ t + (BITS - s - t) \in Nat
    BY <1>1, SMT
  <2> QED
    BY <2>1
<1> DEFINE h == y \div PowerOfTwo(l * BITS)
           k == h \div PowerOfTwo(s)
<1>3. h \in Nat /\ Limb(y, l) = h % PowerOfTwo(s + (t + f))
  BY <1>1, <1>2, WeightIsPower, BitDigits DEF Limb
<1>4. y \div PowerOfTwo(l * BITS + s) = k
  BY <1>1, BitDigits
<1> HIDE DEF h
<1>5. Limb(y, l) \div PowerOfTwo(s) = k % PowerOfTwo(t + f)
  BY <1>2, <1>3, BitDigits
<1>6. k \in Nat
  BY <1>3, BitDigits
<1> HIDE DEF k
<1>7. (k % PowerOfTwo(t + f)) % PowerOfTwo(t) = k % PowerOfTwo(t)
  <2>1. t \in Nat /\ f \in Nat
    BY <1>2
  <2>2. LowDigit(k, PowerOfTwo(t + f), PowerOfTwo(t))
    BY <1>6, <2>1, LowDigits
  <2> QED
    BY <2>2 DEF LowDigit
<1> QED
  BY <1>4, <1>5, <1>7

\* What is one less than a multiple of n modulo the base is so in its low limb.
LEMMA SolutionIsInverse ==
    ASSUME NEW n \in Nat, NEW k \in Nat, NEW t \in Nat, k * n + 1 = B * t
    PROVE  HasNegInv(n)
<1> DEFINE q == k \div B
           r == k % B
           a == q * n
           h == t - a - 1
<1>1. B \in Nat /\ B > 0
  BY BaseFacts
<1>2. q \in Nat /\ r \in Nat /\ r < B /\ k = B * q + r
  BY <1>1, DivMod
<1> HIDE DEF q, r
<1>3. r * n = B * h + (B - 1)
  <2>1. a \in Int /\ (B * q) * n = B * a /\ (B * q + r) * n = (B * q) * n + r * n
    BY <1>1, <1>2, SMT
  <2> HIDE DEF a
  <2>2. B * h = B * t - B * a - B /\ B * t \in Int /\ B * a \in Int /\ r * n \in Int
    BY <1>1, <1>2, <2>1, SMT
  <2> QED
    BY <1>1, <1>2, <2>1, <2>2, SMT
<1>4. r * n \in Int /\ h \in Int /\ B - 1 \in 0..(B - 1)
  BY <1>1, <1>2, SMT
<1> HIDE DEF h
<1>5. (r * n) % B = B - 1
  BY <1>1, <1>3, <1>4, DivisionIs
<1> QED
  BY <1>1, <1>2, <1>5, SMT DEF Word, IsModNegInv, HasNegInv

\* The lowest limb of an odd modulus has the inverse that the parameters hold.
LEMMA OddHasNegInv ==
    ASSUME NEW n \in Nat, n % 2 = 1
    PROVE  HasNegInv(n)
<1> DEFINE Solves(k, t, d) == k * n + 1 = PowerOfTwo(d) * t
           S == {d \in Nat : \E k, t \in Nat : Solves(k, t, d)}
<1>1. 0 \in S
  <2>1. Solves(0, 1, 0)
    BY PowerDoubles, SMT
  <2> QED
    BY <2>1
<1>2. ASSUME NEW d \in S PROVE d + 1 \in S
  <2>1. PICK k \in Nat, t \in Nat : Solves(k, t, d)
    OBVIOUS
  <2> DEFINE P == PowerOfTwo(d)
  <2>2. P \in Nat /\ PowerOfTwo(d + 1) = 2 * P /\ d + 1 \in Nat
    BY PowerDoubles
  <2>3. k * n + 1 = P * t
    BY <2>1
  <2> HIDE DEF P, Solves
  <2>4. n \div 2 \in Nat /\ n = 2 * (n \div 2) + 1
    BY DivMod, SMT
  <2>5. t \div 2 \in Nat /\ t = 2 * (t \div 2) + (t % 2)
        /\ (t % 2 = 0 \/ t % 2 = 1)
    BY DivMod, SMT
  <2> DEFINE a == n \div 2
             b == t \div 2
  <2>6. a \in Nat /\ b \in Nat /\ n = 2 * a + 1 /\ (t = 2 * b \/ t = 2 * b + 1)
    BY <2>4, <2>5
  <2> HIDE DEF a, b
  <2>7. CASE t = 2 * b
    <3>1. P * (2 * b) = (2 * P) * b
      BY <2>2, <2>6, SMT
    <3>2. Solves(k, b, d + 1)
      BY <2>2, <2>3, <2>7, <3>1 DEF Solves
    <3> QED
      BY <2>2, <2>6, <3>2
  <2>8. CASE t = 2 * b + 1
    <3> DEFINE h == a + b + 1
    <3>1. (k + P) * n + 1 = P * (t + n)
      BY <2>2, <2>3, SMT
    <3>2. P * (t + n) = (2 * P) * h /\ h \in Nat /\ k + P \in Nat
      <4>1. t + n = 2 * h
        BY <2>6, <2>8, SMT
      <4>2. P * (2 * h) = (2 * P) * h
        BY <2>2, <2>6, SMT
      <4> QED
        BY <2>2, <2>6, <4>1, <4>2, SMT
    <3> HIDE DEF h
    <3>3. Solves(k + P, h, d + 1)
      BY <2>2, <3>1, <3>2 DEF Solves
    <3> QED
      BY <2>2, <3>2, <3>3
  <2> QED
    BY <2>6, <2>7, <2>8
<1>3. S = Nat
  <2>1. S \in SUBSET Nat
    OBVIOUS
  <2> HIDE DEF S
  <2> QED
    BY <1>1, <1>2, <2>1, SetInduction
<1>4. BITS \in Nat /\ B = PowerOfTwo(BITS) /\ B \in Nat /\ B > 0
  BY WindowAssumption, BaseFacts
<1>5. \E k \in Nat, t \in Nat : k * n + 1 = B * t
  <2>1. BITS \in S
    BY <1>3, <1>4
  <2> QED
    BY <1>4, <2>1
<1> QED
  BY <1>5, SolutionIsInverse

----------------------------------------------------------------------------
(* Powers modulo m.                                                        *)

\* The modulus of a call.
Modulus == m \in Nat /\ m > 0 /\ m \in Uint /\ HasNegInv(m)

LEMMA ModuliAreUnits == m \in Moduli => Modulus
<1> SUFFICES ASSUME m \in Moduli PROVE Modulus
  OBVIOUS
<1>1. m \in Uint /\ m % 2 = 1
  BY InputsAssumption
<1>2. m \in Nat /\ m > 0
  BY <1>1, BaseFacts, SMT DEF Uint
<1> QED
  BY <1>1, <1>2, OddHasNegInv DEF Modulus

\* A factor may be reduced first.
LEMMA ReduceFactor ==
    ASSUME NEW n \in Nat, n > 0, NEW a \in Int, NEW b \in Int
    PROVE  /\ ((a % n) * b) % n = (a * b) % n
           /\ (b * (a % n)) % n = (b * a) % n
           /\ (a * b) % n \in 0..(n - 1) /\ a % n \in 0..(n - 1)
<1>1. PICK d \in Int : a % n = a + d * n
  BY RemainderGap
<1> DEFINE r == a % n
           p == a * b
           f == d * b
<1>2. r = a + d * n /\ r \in Int
  BY <1>1, SMT
<1> HIDE DEF r
<1>3. r * b = p + f * n /\ b * r = r * b /\ b * a = p
  BY <1>2, SMT
<1>4. p \in Int /\ f \in Int /\ r * b \in Int
  BY <1>2, SMT
<1> HIDE DEF p, f
<1>5. (r * b) % n = p % n
  <2>1. Apart(r * b, p, f, n)
    BY <1>3 DEF Apart
  <2> QED
    BY <1>4, <2>1, ResidueApart
<1>6. p % n \in 0..(n - 1) /\ a % n \in 0..(n - 1)
  BY <1>4, ResidueOf
<1> QED
  BY <1>3, <1>5, <1>6 DEF r, p

\* The reduced value of a small number.
LEMMA AlreadyReduced ==
    ASSUME NEW n \in Nat, n > 0, NEW a \in 0..(n - 1)
    PROVE  a % n = a /\ ((1 % n) * a) % n = a /\ (a * (1 % n)) % n = a
<1>1. a \in Int /\ 0 \in Int /\ a = n * 0 + a /\ 1 \in Int /\ 1 * a = a /\ a * 1 = a
  BY SMT
<1>2. a % n = a
  BY <1>1, DivisionIs
<1>3. ((1 % n) * a) % n = (1 * a) % n /\ (a * (1 % n)) % n = (a * 1) % n
  BY <1>1, ReduceFactor
<1> QED
  BY <1>1, <1>2, <1>3

\* One step of the recursion that defines a power.
Times(v) == [j \in Nat |-> [w \in 0..(m - 1) |-> (w * v) % m]]

LEMMA PowerModFunction ==
    ASSUME Modulus, NEW v \in Int, NEW n \in Nat
    PROVE  \E f : IsRecursion(f, 0..(m - 1), 1 % m, n, Times(v)) /\ PowerMod(v, n) = f[n]
<1> DEFINE S == 0..(m - 1)
           f == CHOOSE f : f = [j \in 0..n |-> IF j = 0 THEN 1 % m
                                               ELSE (f[j - 1] * v) % m]
<1>1. m \in Nat /\ m > 0
  BY DEF Modulus
<1>2. \A w \in S : (w * v) % m \in S
  BY <1>1, ReduceFactor
<1>3. Closed(Times(v), S) /\ 1 % m \in S
  <2>1. 1 % m \in S
    BY <1>1, ReduceFactor
  <2> QED
    BY <1>2, <2>1 DEF Closed, Times
<1> HIDE DEF S
<1>4. PICK g : IsRecursion(g, S, 1 % m, n, Times(v))
  BY <1>3, RecursionExists
<1>5. g = [j \in 0..n |-> IF j = 0 THEN 1 % m ELSE (g[j - 1] * v) % m]
  <2>1. g \in [0..n -> S] /\ g[0] = 1 % m
        /\ \A j \in 1..n : g[j] = Times(v)[j][g[j - 1]]
    BY <1>4 DEF IsRecursion
  <2>2. ASSUME NEW j \in 0..n
        PROVE  g[j] = IF j = 0 THEN 1 % m ELSE (g[j - 1] * v) % m
    <3>1. CASE j = 0
      BY <2>1, <3>1
    <3>2. CASE j # 0
      <4>1. j \in Nat /\ j \in 1..n /\ j - 1 \in 0..n
        BY <3>2, SMT
      <4>2. g[j - 1] \in S
        BY <2>1, <4>1
      <4> QED
        BY <2>1, <3>2, <4>1, <4>2 DEF Times, S
    <3> QED
      BY <3>1, <3>2
  <2> QED
    BY <2>1, <2>2
<1>6. f = [j \in 0..n |-> IF j = 0 THEN 1 % m ELSE (f[j - 1] * v) % m]
  BY <1>5
<1>7. PowerMod(v, n) = f[n]
  BY DEF PowerMod
<1> HIDE DEF f
<1>8. f[0] = 1 % m
  BY <1>6
<1>9. ASSUME NEW j \in 1..n PROVE f[j] = (f[j - 1] * v) % m
  <2>1. j \in 0..n /\ j # 0
    BY SMT
  <2> QED
    BY <1>6, <2>1
<1>10. \A j \in 0..n : f[j] \in S
  <2>1. f[0] \in S
    BY <1>3, <1>8
  <2>2. \A j \in 1..n : f[j - 1] \in S => f[j] \in S
    BY <1>2, <1>9
  <2> QED
    BY <2>1, <2>2, RecursionStaysIn
<1>11. f \in [0..n -> S]
  <2>1. f = [j \in 0..n |-> f[j]]
    BY <1>6
  <2> QED
    BY <2>1, <1>10
<1>12. \A j \in 1..n : f[j] = Times(v)[j][f[j - 1]]
  <2> SUFFICES ASSUME NEW j \in 1..n PROVE f[j] = Times(v)[j][f[j - 1]]
    OBVIOUS
  <2>1. j \in Nat /\ j - 1 \in 0..n
    BY SMT
  <2>2. f[j - 1] \in S
    BY <1>10, <2>1
  <2> QED
    BY <1>9, <2>1, <2>2 DEF Times, S
<1>13. IsRecursion(f, S, 1 % m, n, Times(v))
  BY <1>8, <1>11, <1>12 DEF IsRecursion
<1> QED
  BY <1>7, <1>13 DEF S

\* The recursion of a power.
LEMMA PowerModSteps ==
    ASSUME Modulus, NEW v \in Int, NEW n \in Nat
    PROVE  /\ PowerMod(v, 0) = 1 % m
           /\ PowerMod(v, n) \in 0..(m - 1)
           /\ PowerMod(v, n + 1) = (PowerMod(v, n) * v) % m
<1>1. PowerMod(v, 0) = 1 % m
  BY PowerModFunction DEF IsRecursion
<1>2. PICK f : IsRecursion(f, 0..(m - 1), 1 % m, n, Times(v)) /\ PowerMod(v, n) = f[n]
  BY PowerModFunction
<1>3. n + 1 \in Nat /\ n + 1 \in 1..(n + 1) /\ (n + 1) - 1 = n
      /\ n <= n /\ n <= n + 1 /\ n \in 0..n /\ n \in 0..(n + 1)
  BY SMT
<1>4. PICK g : IsRecursion(g, 0..(m - 1), 1 % m, n + 1, Times(v))
               /\ PowerMod(v, n + 1) = g[n + 1]
  BY <1>3, PowerModFunction
<1>5. f[n] = g[n]
  BY <1>2, <1>3, <1>4, RecursionUnique
<1>6. g[n] \in 0..(m - 1) /\ g[n + 1] = Times(v)[n + 1][g[n]]
  BY <1>3, <1>4 DEF IsRecursion
<1>7. g[n + 1] = (g[n] * v) % m
  BY <1>3, <1>6 DEF Times
<1> QED
  BY <1>1, <1>2, <1>4, <1>5, <1>6, <1>7

\* Exponents add up.
LEMMA PowerModAdds ==
    ASSUME Modulus, NEW v \in Int, NEW n \in Nat, NEW l \in Nat
    PROVE  PowerMod(v, n + l) = (PowerMod(v, n) * PowerMod(v, l)) % m
<1> DEFINE a == PowerMod(v, n)
           S == {c \in Nat : PowerMod(v, n + c) = (a * PowerMod(v, c)) % m}
<1>1. m \in Nat /\ m > 0
  BY DEF Modulus
<1>2. a \in 0..(m - 1) /\ a \in Int
  BY PowerModSteps, SMT
<1>3. 0 \in S
  <2>1. n + 0 = n
    BY SMT
  <2>2. PowerMod(v, 0) = 1 % m
    BY PowerModSteps
  <2>3. (a * (1 % m)) % m = a
    <3> HIDE DEF a
    <3> QED
      BY <1>1, <1>2, AlreadyReduced
  <2> QED
    BY <2>1, <2>2, <2>3
<1> HIDE DEF a
<1>4. ASSUME NEW c \in S PROVE c + 1 \in S
  <2> DEFINE f == PowerMod(v, c)
             g == PowerMod(v, n + c)
  <2>1. c \in Nat /\ n + c \in Nat /\ (n + c) + 1 = n + (c + 1)
    BY SMT
  <2>2. f \in Int /\ f \in 0..(m - 1)
        /\ PowerMod(v, c + 1) = (f * v) % m
        /\ PowerMod(v, n + (c + 1)) = (g * v) % m
    BY <2>1, PowerModSteps, SMT
  <2>3. g = (a * f) % m
    OBVIOUS
  <2> HIDE DEF f, g
  <2>4. a * f \in Int /\ f * v \in Int /\ (a * f) * v = a * (f * v)
    BY <1>2, <2>2, SMT
  <2>5. (((a * f) % m) * v) % m = ((a * f) * v) % m
    BY <1>1, <2>4, ReduceFactor
  <2>6. (a * ((f * v) % m)) % m = (a * (f * v)) % m
    BY <1>1, <1>2, <2>4, ReduceFactor
  <2>7. PowerMod(v, n + (c + 1)) = (a * PowerMod(v, c + 1)) % m
    BY <2>2, <2>3, <2>4, <2>5, <2>6
  <2> QED
    BY <2>1, <2>7
<1>5. S = Nat
  <2>1. S \in SUBSET Nat
    OBVIOUS
  <2> HIDE DEF S
  <2> QED
    BY <1>3, <1>4, <2>1, SetInduction
<1> QED
  BY <1>5 DEF a

\* The bases of a call and what they stand for.
Arguments ==
    /\ Modulus
    /\ bases_and_exponents
         \in Seq((0..(m - 1)) \X (0..(W[RHS_LIMBS] - 1))) \ {<<>>}

LEMMA ArgumentFacts ==
    ASSUME Arguments
    PROVE  /\ K \in Nat /\ K > 0
           /\ \A b \in Bases : /\ x(b) \in 0..(m - 1) /\ x(b) \in Uint
                              /\ e(b) \in Nat
                              /\ Residue(x(b)) \in 0..(m - 1)
                              /\ Stands(x(b), Residue(x(b)), m)
<1>1. m \in Nat /\ m > 0 /\ m \in Uint /\ HasNegInv(m)
  BY DEF Arguments, Modulus
<1>2. K \in Nat /\ K > 0
        /\ \A b \in Bases : bases_and_exponents[b]
                              \in (0..(m - 1)) \X (0..(W[RHS_LIMBS] - 1))
  <2> DEFINE T == (0..(m - 1)) \X (0..(W[RHS_LIMBS] - 1))
  <2>1. bases_and_exponents \in Seq(T) /\ bases_and_exponents # <<>>
    BY DEF Arguments
  <2> HIDE DEF T
  <2>2. K \in Nat /\ K # 0 /\ \A b \in 1..K : bases_and_exponents[b] \in T
    BY <2>1, SMT DEF K
  <2> QED
    BY <2>2, SMT DEF T, Bases
<1>3. ASSUME NEW b \in Bases
      PROVE  /\ x(b) \in 0..(m - 1) /\ x(b) \in Uint /\ e(b) \in Nat
             /\ Residue(x(b)) \in 0..(m - 1)
             /\ Stands(x(b), Residue(x(b)), m)
  <2>1. x(b) \in 0..(m - 1) /\ e(b) \in 0..(W[RHS_LIMBS] - 1)
    BY <1>2 DEF x, e
  <2>2. x(b) \in Uint /\ x(b) \in Nat /\ e(b) \in Nat
    BY <1>1, <2>1, BaseFacts, SMT DEF Uint
  <2>3. \E v \in 0..(m - 1) : (v * R) % m = x(b) % m
    BY <1>1, <2>2, ResidueExists
  <2>4. Residue(x(b)) \in 0..(m - 1) /\ (Residue(x(b)) * R) % m = x(b) % m
    BY <2>3 DEF Residue
  <2>5. Residue(x(b)) \in Int
    BY <1>1, <2>4, SMT
  <2> QED
    BY <2>1, <2>2, <2>4, <2>5 DEF Stands
<1> QED
  BY <1>2, <1>3

\* The power of one base, with an exponent from n.
Factor(b, n) == PowerMod(Residue(x(b)), n[b])

\* The products of the first factors.
IsProduct(f, n) ==
    /\ f \in [0..K -> 0..(m - 1)]
    /\ f[0] = 1 % m
    /\ \A b \in 1..K : f[b] = (f[b - 1] * Factor(b, n)) % m

LEMMA FactorType ==
    ASSUME Arguments, NEW n \in [Bases -> Nat], NEW b \in Bases
    PROVE  Factor(b, n) \in 0..(m - 1) /\ Factor(b, n) \in Int
<1>1. Residue(x(b)) \in 0..(m - 1) /\ m \in Nat /\ n[b] \in Nat /\ Modulus
  BY ArgumentFacts DEF Arguments, Modulus
<1>2. Residue(x(b)) \in Int
  BY <1>1, SMT
<1>3. Factor(b, n) \in 0..(m - 1)
  BY <1>1, <1>2, PowerModSteps DEF Factor
<1> QED
  BY <1>1, <1>3, SMT

LEMMA ProductFunction ==
    ASSUME Arguments, NEW n \in [Bases -> Nat]
    PROVE  \E f : IsProduct(f, n) /\ ProductOfPowers(n) = f[K]
<1> DEFINE S == 0..(m - 1)
           F == [b \in Nat |-> [w \in S |-> IF b \in Bases
                                            THEN (w * Factor(b, n)) % m ELSE w]]
           f == CHOOSE f : f = [b \in 0..K |-> IF b = 0 THEN 1 % m
                    ELSE (f[b - 1] * PowerMod(Residue(x(b)), n[b])) % m]
<1>1. m \in Nat /\ m > 0 /\ K \in Nat /\ Bases = 1..K
  BY ArgumentFacts DEF Arguments, Modulus, Bases
<1>2. ASSUME NEW b \in Bases, NEW w \in S PROVE (w * Factor(b, n)) % m \in S
  <2>1. w \in Int /\ Factor(b, n) \in Int
    BY <1>1, FactorType, SMT
  <2> QED
    BY <1>1, <2>1, ReduceFactor
<1>3. Closed(F, S)
  BY <1>2 DEF Closed
<1>4. 1 % m \in S
  BY <1>1, ReduceFactor
<1> HIDE DEF F
<1>5. PICK g : IsRecursion(g, S, 1 % m, K, F)
  BY <1>1, <1>3, <1>4, RecursionExists
<1> HIDE DEF S
<1>6. ASSUME NEW b \in 1..K PROVE g[b] = (g[b - 1] * Factor(b, n)) % m
  <2>1. b \in Nat /\ b - 1 \in 0..K /\ b \in Bases
    BY <1>1, SMT
  <2>2. g[b - 1] \in S /\ g[b] = F[b][g[b - 1]]
    BY <1>5, <2>1 DEF IsRecursion
  <2> QED
    BY <2>1, <2>2 DEF F
<1>7. g = [b \in 0..K |-> IF b = 0 THEN 1 % m
               ELSE (g[b - 1] * PowerMod(Residue(x(b)), n[b])) % m]
  <2>1. \A b \in 0..K : b = 0 \/ b \in 1..K
    BY <1>1, SMT
  <2>2. g \in [0..K -> S] /\ g[0] = 1 % m
    BY <1>5 DEF IsRecursion
  <2> QED
    BY <1>6, <2>1, <2>2 DEF Factor
<1>8. f = [b \in 0..K |-> IF b = 0 THEN 1 % m
               ELSE (f[b - 1] * PowerMod(Residue(x(b)), n[b])) % m]
  BY <1>7
<1>9. ProductOfPowers(n) = f[K]
  BY DEF ProductOfPowers
<1> HIDE DEF f
<1>10. f[0] = 1 % m
  BY <1>1, <1>8, SMT
<1>11. ASSUME NEW b \in 1..K PROVE f[b] = (f[b - 1] * Factor(b, n)) % m
  <2>1. b \in 0..K /\ b # 0
    BY <1>1, SMT
  <2> QED
    BY <1>8, <2>1 DEF Factor
<1>12. \A b \in 0..K : f[b] \in S
  <2>1. f[0] \in S
    BY <1>4, <1>10
  <2>2. \A b \in 1..K : f[b - 1] \in S => f[b] \in S
    BY <1>1, <1>2, <1>11
  <2> QED
    BY <1>1, <2>1, <2>2, RecursionStaysIn
<1>13. f \in [0..K -> S]
  <2>1. f = [b \in 0..K |-> f[b]]
    BY <1>8
  <2> QED
    BY <2>1, <1>12
<1>14. IsProduct(f, n)
  BY <1>10, <1>11, <1>13 DEF IsProduct, S
<1> QED
  BY <1>9, <1>14

\* A property of the partial products, by induction over the bases.
LEMMA OverBases ==
    ASSUME NEW T \in SUBSET Nat, K \in Nat, 0 \in T,
           \A b \in 1..K : b - 1 \in T => b \in T
    PROVE  K \in T
<1> DEFINE S == {c \in Nat : c <= K => c \in T}
<1>1. 0 \in S
  OBVIOUS
<1>2. ASSUME NEW c \in S PROVE c + 1 \in S
  <2>1. c + 1 \in Nat /\ (c + 1) - 1 = c
    BY SMT
  <2>2. CASE c + 1 <= K
    <3>1. c + 1 \in 1..K /\ c \in T
      BY <2>1, <2>2, SMT
    <3> QED
      BY <2>1, <3>1
  <2>3. CASE ~(c + 1 <= K)
    BY <2>1, <2>3
  <2> QED
    BY <2>2, <2>3
<1>3. S = Nat
  <2>1. S \in SUBSET Nat
    OBVIOUS
  <2> HIDE DEF S
  <2> QED
    BY <1>1, <1>2, <2>1, SetInduction
<1>4. K \in S /\ K <= K
  BY <1>3, SMT
<1> QED
  BY <1>4

\* A product of products, taken crosswise.
Crossed(a, b, c, d, n) ==
    (((a * b) % n) * ((c * d) % n)) % n = (((a * c) % n) * ((b * d) % n)) % n

LEMMA Crosswise ==
    ASSUME NEW n \in Nat, n > 0,
           NEW a \in Int, NEW b \in Int, NEW c \in Int, NEW d \in Int
    PROVE  Crossed(a, b, c, d, n)
<1> DEFINE p == a * b
           q == c * d
           r == a * c
           s == b * d
<1>1. p \in Int /\ q \in Int /\ r \in Int /\ s \in Int
  BY SMT
<1>2. p * q = r * s
  <2>1. (a * b) * (c * d) = (a * c) * (b * d)
    BY SMT
  <2> QED
    BY <2>1
<1> HIDE DEF p, q, r, s
<1>3. ASSUME NEW f \in Int, NEW g \in Int
      PROVE  ((f % n) * (g % n)) % n = (f * g) % n
  <2>1. f % n \in Int
    BY ReduceFactor, SMT
  <2>2. ((f % n) * (g % n)) % n = ((f % n) * g) % n
    BY <2>1, ReduceFactor
  <2>3. ((f % n) * g) % n = (f * g) % n
    BY ReduceFactor
  <2> QED
    BY <2>2, <2>3
<1>4. ((p % n) * (q % n)) % n = ((r % n) * (s % n)) % n
  <2>1. ((p % n) * (q % n)) % n = (p * q) % n
    BY <1>1, <1>3
  <2>2. ((r % n) * (s % n)) % n = (r * s) % n
    BY <1>1, <1>3
  <2> QED
    BY <1>2, <2>1, <2>2
<1> QED
  BY <1>4 DEF p, q, r, s, Crossed

\* The product is below the modulus.
LEMMA ProductType ==
    ASSUME Arguments, NEW n \in [Bases -> Nat]
    PROVE  ProductOfPowers(n) \in 0..(m - 1) /\ ProductOfPowers(n) \in Int
<1>1. PICK f : IsProduct(f, n) /\ ProductOfPowers(n) = f[K]
  BY ProductFunction
<1>2. K \in 0..K /\ m \in Nat
  BY ArgumentFacts, SMT DEF Arguments, Modulus
<1>3. ProductOfPowers(n) \in 0..(m - 1)
  BY <1>1, <1>2 DEF IsProduct
<1> QED
  BY <1>2, <1>3, SMT

\* Exponents add up, base by base.
LEMMA ProductAdds ==
    ASSUME Arguments, NEW n \in [Bases -> Nat], NEW l \in [Bases -> Nat],
           NEW s, s = [b \in Bases |-> n[b] + l[b]]
    PROVE  /\ s \in [Bases -> Nat]
           /\ ProductOfPowers(s) = (ProductOfPowers(n) * ProductOfPowers(l)) % m
<1>1. s \in [Bases -> Nat]
  BY SMT
<1>2. PICK f : IsProduct(f, n) /\ ProductOfPowers(n) = f[K]
  BY ProductFunction
<1>3. PICK g : IsProduct(g, l) /\ ProductOfPowers(l) = g[K]
  BY ProductFunction
<1>4. PICK h : IsProduct(h, s) /\ ProductOfPowers(s) = h[K]
  BY <1>1, ProductFunction
<1>5. m \in Nat /\ m > 0 /\ K \in Nat /\ Bases = 1..K /\ Modulus
  BY ArgumentFacts DEF Arguments, Modulus, Bases
<1> DEFINE T == {b \in 0..K : h[b] = (f[b] * g[b]) % m}
<1>6. 0 \in T
  <2>1. f[0] = 1 % m /\ g[0] = 1 % m /\ h[0] = 1 % m
    BY <1>2, <1>3, <1>4 DEF IsProduct
  <2>2. 1 % m \in 0..(m - 1)
    BY <1>5, ReduceFactor
  <2>3. ((1 % m) * (1 % m)) % m = 1 % m
    BY <1>5, <2>2, AlreadyReduced
  <2>4. 0 \in 0..K
    BY <1>5, SMT
  <2> QED
    BY <2>1, <2>3, <2>4
<1>7. ASSUME NEW b \in 1..K, b - 1 \in T PROVE b \in T
  <2> DEFINE a  == f[b - 1]
             c  == g[b - 1]
             fn == Factor(b, n)
             fl == Factor(b, l)
             v  == Residue(x(b))
  <2>1. b \in Bases /\ b \in 0..K /\ b - 1 \in 0..K
    BY <1>5, SMT
  <2>2. a \in 0..(m - 1) /\ c \in 0..(m - 1)
    BY <1>2, <1>3, <2>1 DEF IsProduct
  <2>3. a \in Int /\ c \in Int /\ fn \in Int /\ fl \in Int
    <3>1. fn \in Int /\ fl \in Int
      BY <2>1, FactorType
    <3> HIDE DEF a, c
    <3> QED
      BY <1>5, <2>2, <3>1, SMT
  <2>4. f[b] = (a * fn) % m /\ g[b] = (c * fl) % m
    BY <1>2, <1>3 DEF IsProduct
  <2>5. h[b] = (h[b - 1] * Factor(b, s)) % m /\ h[b - 1] = (a * c) % m
    BY <1>4, <1>7 DEF IsProduct
  <2>6. Factor(b, s) = (fn * fl) % m
    <3>1. v \in Int /\ n[b] \in Nat /\ l[b] \in Nat /\ s[b] = n[b] + l[b]
      BY <1>5, <2>1, ArgumentFacts, SMT
    <3> HIDE DEF v
    <3>2. PowerMod(v, n[b] + l[b]) = (PowerMod(v, n[b]) * PowerMod(v, l[b])) % m
      BY <1>5, <3>1, PowerModAdds
    <3> QED
      BY <3>1, <3>2 DEF Factor, v
  <2> HIDE DEF a, c, fn, fl, v, T
  <2>7. Crossed(a, c, fn, fl, m)
    <3>1. m \in Nat /\ m > 0
      BY <1>5
    <3> QED
      BY <2>3, <3>1, Crosswise
  <2>8. (((a * c) % m) * ((fn * fl) % m)) % m = (((a * fn) % m) * ((c * fl) % m)) % m
    BY <2>7 DEF Crossed
  <2> USE DEF T
  <2> QED
    BY <2>1, <2>4, <2>5, <2>6, <2>8
<1>8. K \in T
  <2>1. T \in SUBSET Nat /\ 0 \in T /\ \A b \in 1..K : b - 1 \in T => b \in T
    BY <1>5, <1>6, <1>7, SMT
  <2> HIDE DEF T
  <2> QED
    BY <1>5, <2>1, OverBases
<1> QED
  BY <1>1, <1>2, <1>3, <1>4, <1>8

\* Exponent d for base j and none for the others.
Single(j, d) == [b \in Bases |-> IF b = j THEN d ELSE 0]

LEMMA ProductOfSingle ==
    ASSUME Arguments, NEW j \in Bases, NEW d \in Nat
    PROVE  /\ Single(j, d) \in [Bases -> Nat]
           /\ ProductOfPowers(Single(j, d)) = PowerMod(Residue(x(j)), d)
<1> DEFINE n == Single(j, d)
           v == Residue(x(j))
           u == PowerMod(v, d)
<1>1. n \in [Bases -> Nat]
  BY DEF Single
<1>2. m \in Nat /\ m > 0 /\ K \in Nat /\ Bases = 1..K /\ Modulus
  BY ArgumentFacts DEF Arguments, Modulus, Bases
<1>3. u \in 0..(m - 1)
  <2>1. v \in 0..(m - 1)
    BY ArgumentFacts
  <2>2. v \in Int
    BY <1>2, <2>1, SMT
  <2> HIDE DEF v
  <2> QED
    BY <1>2, <2>2, PowerModSteps
<1>4. Factor(j, n) = u
  BY DEF Factor, Single
<1>5. ASSUME NEW b \in Bases, b # j PROVE Factor(b, n) = 1 % m
  <2>1. n[b] = 0
    BY <1>5 DEF Single
  <2>2. Residue(x(b)) \in 0..(m - 1)
    BY ArgumentFacts
  <2>3. Residue(x(b)) \in Int
    BY <1>2, <2>2, SMT
  <2>4. PowerMod(Residue(x(b)), 0) = 1 % m
    BY <1>2, <2>3, PowerModSteps
  <2> QED
    BY <2>1, <2>4 DEF Factor
<1> HIDE DEF n, u
<1>6. PICK f : IsProduct(f, n) /\ ProductOfPowers(n) = f[K]
  BY <1>1, ProductFunction
<1> DEFINE T == {b \in 0..K : f[b] = IF b < j THEN 1 % m ELSE u}
<1>7. 0 \in T
  BY <1>2, <1>6, SMT DEF IsProduct
<1>8. ASSUME NEW b \in 1..K, b - 1 \in T PROVE b \in T
  <2>1. b \in 0..K /\ b \in Bases /\ f[b] = (f[b - 1] * Factor(b, n)) % m
    BY <1>2, <1>6, SMT DEF IsProduct
  <2>2. 1 % m \in 0..(m - 1)
    BY <1>2, ReduceFactor
  <2>3. CASE b = j
    <3>1. f[b - 1] = 1 % m
      BY <1>2, <1>8, <2>3, SMT
    <3>2. ((1 % m) * u) % m = u
      BY <1>2, <1>3, AlreadyReduced
    <3>3. f[b] = u
      BY <1>4, <2>1, <2>3, <3>1, <3>2
    <3>4. ~(b < j)
      BY <1>2, <2>3, SMT
    <3> QED
      BY <2>1, <3>3, <3>4
  <2>4. CASE b # j
    <3>1. (b - 1 < j) <=> (b < j)
      BY <1>2, <2>4, SMT
    <3>2. f[b - 1] \in 0..(m - 1)
      BY <1>3, <1>8, <2>2
    <3>3. f[b] = f[b - 1]
      BY <1>2, <1>5, <2>1, <2>4, <3>2, AlreadyReduced
    <3> QED
      BY <1>8, <2>1, <3>1, <3>3
  <2> QED
    BY <2>3, <2>4
<1>9. K \in T
  <2>1. T \in SUBSET Nat /\ 0 \in T /\ \A b \in 1..K : b - 1 \in T => b \in T
    BY <1>2, <1>7, <1>8, SMT
  <2> HIDE DEF T
  <2> QED
    BY <1>2, <2>1, OverBases
<1>10. f[K] = u
  BY <1>2, <1>9, SMT
<1> QED
  BY <1>1, <1>6, <1>10 DEF n, u

\* No exponents, no power.
LEMMA ProductOfZeros ==
    ASSUME Arguments
    PROVE  ProductOfPowers([b \in Bases |-> 0]) = 1 % m
<1>1. K \in Nat /\ K > 0 /\ Modulus
  BY ArgumentFacts DEF Arguments
<1>2. 1 \in Bases
  BY <1>1, SMT DEF Bases
<1>3. ProductOfPowers(Single(1, 0)) = PowerMod(Residue(x(1)), 0)
  BY <1>2, ProductOfSingle
<1>4. Single(1, 0) = [b \in Bases |-> 0]
  BY DEF Single
<1>5. Residue(x(1)) \in 0..(m - 1) /\ m \in Nat
  BY <1>2, ArgumentFacts DEF Arguments, Modulus
<1>6. Residue(x(1)) \in Int
  BY <1>5, SMT
<1>7. PowerMod(Residue(x(1)), 0) = 1 % m
  BY <1>1, <1>6, PowerModSteps
<1> QED
  BY <1>3, <1>4, <1>7

----------------------------------------------------------------------------
(* Products of forms that need not be reduced.                             *)

\* One conditional subtraction leaves N limbs, and the residue alone.
LEMMA CorrectedOnce ==
    ASSUME NEW v \in Nat, NEW n \in Uint, n > 0, v < R + n,
           NEW c, c = TrySubWithCarry(v % R, v \div R, n)
    PROVE  /\ c[1] \in Uint /\ c[1] % n = v % n /\ c[2] = 0
           /\ c[1] = IF v < n THEN v ELSE v - n
<1>1. n \in Nat /\ n < R /\ R \in Nat
  BY BaseFacts, SMT DEF Uint
<1>2. c[1] = (IF v < n THEN v ELSE v - n) /\ c[2] = 0
  BY TrySubValue, TrySubNoCarry
<1>3. CASE v < n
  BY <1>1, <1>2, <1>3, SMT DEF Uint
<1>4. CASE ~(v < n)
  <2>1. c[1] = v - n /\ v - n \in Int /\ v \in Int /\ -1 \in Int
        /\ v - n = v + (-1) * n /\ v - n \in Uint
    BY <1>1, <1>2, <1>4, SMT DEF Uint
  <2>2. (v - n) % n = v % n
    BY <1>1, <2>1, SameResidue
  <2> QED
    BY <1>2, <2>1, <2>2
<1> QED
  BY <1>3, <1>4

\* So does one of an integer without a carry.
LEMMA CorrectedAgain ==
    ASSUME NEW a \in Uint, NEW n \in Uint, n > 0,
           NEW c, c = TrySubWithCarry(a, 0, n)
    PROVE  /\ c[1] \in Uint /\ c[1] % n = a % n /\ c[2] = 0
           /\ c[1] = IF a < n THEN a ELSE a - n
<1>1. a \in Nat /\ a < R /\ n \in Nat /\ R \in Nat /\ R > 0
  BY BaseFacts, SMT DEF Uint
<1>2. a % R = a /\ a \div R = 0
  <2>1. a \in 0..(R - 1) /\ a \in Int /\ 0 \in Int /\ a = R * 0 + a
    BY <1>1, SMT
  <2> QED
    BY <1>1, <2>1, DivisionIs
<1>3. a < R + n
  BY <1>1, SMT
<1>4. c = TrySubWithCarry(a % R, a \div R, n)
  BY <1>2
<1> QED
  BY <1>1, <1>3, <1>4, CorrectedOnce

\* Whatever its factors, a product has N limbs and stands for the product.
LEMMA MulAny ==
    ASSUME NEW n \in Uint, n > 0, HasNegInv(n), NEW a \in Uint, NEW b \in Uint
    PROVE  /\ mul_montgomery_form(a, b, n) \in Uint
           /\ (mul_montgomery_form(a, b, n) * R) % n = (a * b) % n
           /\ a < n \/ b < n => mul_montgomery_form(a, b, n) < n
<1> DEFINE t == a * b
           acc == Acc(t, n)
           r == mul_montgomery_form(a, b, n)
<1>1. n \in Nat /\ b < R /\ b \in Nat /\ R \in Nat
  BY BaseFacts, SMT DEF Uint
<1>2. t \in Nat /\ acc < b + n
  BY <1>1, AccOfProduct
<1>3. acc \in Nat
  BY <1>1, <1>2, AccFacts
<1>4. (acc * R) % n = t % n
  BY <1>1, <1>2, AccCongruent
<1>5. r = TrySubWithCarry(acc % R, acc \div R, n)[1]
  BY DEF mul_montgomery_form, Out, Over
<1>6. a < n \/ b < n => r = acc % n
  BY MulForm
<1> HIDE DEF t, acc, r
<1>7. acc < R + n
  BY <1>1, <1>2, <1>3, SMT
<1>8. r \in Uint /\ r % n = acc % n
  BY <1>3, <1>5, <1>7, CorrectedOnce
<1>9. (r * R) % n = (acc * R) % n
  <2>1. r \in Int /\ acc \in Int /\ R \in Int
    BY <1>1, <1>3, <1>8, SMT DEF Uint
  <2>2. ((r % n) * R) % n = (r * R) % n
    BY <1>1, <2>1, ReduceFactor
  <2>3. ((acc % n) * R) % n = (acc * R) % n
    BY <1>1, <2>1, ReduceFactor
  <2> QED
    BY <1>8, <2>2, <2>3
<1>10. a < n \/ b < n => r < n
  BY <1>1, <1>3, <1>6, ResidueOf, SMT
<1> QED
  BY <1>4, <1>8, <1>9, <1>10 DEF t, r

LEMMA AlmostAny ==
    ASSUME NEW n \in Uint, n > 0, HasNegInv(n), NEW a \in Uint, NEW b \in Uint
    PROVE  /\ almost_montgomery_mul(a, b, n) \in Uint
           /\ (almost_montgomery_mul(a, b, n) * R) % n = (a * b) % n
<1>1. /\ n \in Nat /\ R \in Nat /\ a \in Nat /\ a <= R /\ b \in Nat /\ b <= R
      /\ 1 <= n
  BY BaseFacts, SMT DEF Uint
<1>2. a * b <= R * (R * n)
  <2>1. a * b <= a * R
    BY <1>1, Monotone
  <2>2. R * a <= R * R /\ a * R = R * a
    BY <1>1, Monotone, SMT
  <2>3. R * 1 <= R * n /\ R * 1 = R
    BY <1>1, Monotone, SMT
  <2>4. R * R <= R * (R * n)
    <3>1. R * n \in Int /\ R \in Int /\ R <= R * n
      BY <1>1, <2>3, SMT
    <3> QED
      BY <1>1, <3>1, Monotone
  <2> DEFINE p == a * b
             q == R * a
             r == R * R
             s == R * (R * n)
  <2>5. p \in Int /\ q \in Int /\ r \in Int /\ s \in Int
    BY <1>1, SMT
  <2>6. p <= q /\ q <= r /\ r <= s
    BY <2>1, <2>2, <2>4
  <2> HIDE DEF p, q, r, s
  <2>7. p <= s
    BY <2>5, <2>6, SMT
  <2> QED
    BY <2>7 DEF p, s
<1> QED
  BY <1>1, <1>2, AlmostMul

\* The product either routine takes.
LEMMA ProductOfForms ==
    ASSUME Arguments, NEW a \in Uint, NEW b \in Uint,
           NEW v, Stands(a, v, m), NEW w, Stands(b, w, m)
    PROVE  /\ MontyMul(a, b) \in Uint
           /\ Stands(MontyMul(a, b), (v * w) % m, m)
           /\ almost_montgomery_mul(a, b, m) \in Uint
           /\ Stands(almost_montgomery_mul(a, b, m), (v * w) % m, m)
           /\ mul_montgomery_form(a, b, m) \in Uint
           /\ Stands(mul_montgomery_form(a, b, m), (v * w) % m, m)
<1>1. m \in Nat /\ m > 0 /\ m \in Uint /\ HasNegInv(m)
  BY DEF Arguments, Modulus
<1>2. \A c \in Uint : c \in Int
  BY BaseFacts, SMT DEF Uint
<1>3. v \in Int /\ w \in Int
  BY DEF Stands
<1>4. ASSUME NEW c \in Uint, (c * R) % m = (a * b) % m
      PROVE  Stands(c, (v * w) % m, m)
  BY <1>1, <1>2, <1>3, <1>4, ProductStands
<1>5. /\ almost_montgomery_mul(a, b, m) \in Uint
      /\ Stands(almost_montgomery_mul(a, b, m), (v * w) % m, m)
  BY <1>1, <1>4, AlmostAny
<1>6. /\ mul_montgomery_form(a, b, m) \in Uint
      /\ Stands(mul_montgomery_form(a, b, m), (v * w) % m, m)
  BY <1>1, <1>4, MulAny
<1> QED
  BY <1>5, <1>6 DEF MontyMul

\* Exponents multiplied alike.
Scaled(n, k) == [b \in Bases |-> n[b] * k]

\* Squaring doubles the exponents.
LEMMA SquareScales ==
    ASSUME Arguments, NEW n \in [Bases -> Nat], NEW j \in Nat,
           NEW v, v = ProductOfPowers(Scaled(n, PowerOfTwo(j)))
    PROVE  /\ Scaled(n, PowerOfTwo(j)) \in [Bases -> Nat]
           /\ ProductOfPowers(Scaled(n, PowerOfTwo(j + 1))) = (v * v) % m
<1> DEFINE k == PowerOfTwo(j)
           s == Scaled(n, k)
           t == Scaled(n, PowerOfTwo(j + 1))
<1>1. k \in Nat /\ PowerOfTwo(j + 1) = 2 * k
  BY PowerDoubles
<1> HIDE DEF k
<1>2. s \in [Bases -> Nat]
  BY <1>1, SMT DEF Scaled
<1>3. ASSUME NEW b \in Bases PROVE n[b] * (2 * k) = s[b] + s[b]
  <2>1. n[b] \in Nat /\ s[b] = n[b] * k
    BY DEF Scaled
  <2> QED
    BY <1>1, <2>1, SMT
<1>4. t = [b \in Bases |-> s[b] + s[b]]
  BY <1>1, <1>3 DEF Scaled
<1> HIDE DEF s, t
<1>5. ProductOfPowers(t) = (ProductOfPowers(s) * ProductOfPowers(s)) % m
  BY <1>2, <1>4, ProductAdds
<1> QED
  BY <1>2, <1>5 DEF s, t, k

\* The squarings that are left in almost Montgomery form.
LEMMA SquaresStand ==
    ASSUME Arguments, NEW a \in Uint, NEW n \in [Bases -> Nat],
           Stands(a, ProductOfPowers(n), m),
           NEW count \in Nat, NEW base, base = AlmostSquares(a, count, m)
    PROVE  \A j \in 0..count :
               /\ base[j] \in Uint
               /\ Stands(base[j], ProductOfPowers(Scaled(n, PowerOfTwo(j))), m)
<1>1. m \in Nat /\ m > 0 /\ m \in Uint /\ HasNegInv(m)
  BY DEF Arguments, Modulus
<1>2. /\ base \in [0..count -> Uint]
      /\ base[0] = a
      /\ \A j \in 1..count :
             base[j] = almost_montgomery_mul(base[j - 1], base[j - 1], m)
  BY <1>1, AlmostSquaresAre
<1> DEFINE Good(j) == /\ base[j] \in Uint
                      /\ Stands(base[j], ProductOfPowers(Scaled(n, PowerOfTwo(j))), m)
           S == {j \in Nat : j <= count => Good(j)}
<1>3. 0 \in S
  <2>1. \A b \in Bases : n[b] * 1 = n[b]
    BY SMT
  <2>2. Scaled(n, PowerOfTwo(0)) = n
    BY <2>1, PowerDoubles DEF Scaled
  <2> QED
    BY <1>2, <2>2
<1>4. ASSUME NEW j \in S PROVE j + 1 \in S
  <2> SUFFICES ASSUME j + 1 <= count PROVE Good(j + 1)
    BY SMT
  <2>1. j \in Nat /\ j <= count /\ j + 1 \in 1..count /\ (j + 1) - 1 = j
    BY SMT
  <2>2. Good(j)
    BY <2>1
  <2>3. base[j + 1] = almost_montgomery_mul(base[j], base[j], m)
    BY <1>2, <2>1
  <2> DEFINE v == ProductOfPowers(Scaled(n, PowerOfTwo(j)))
  <2>4. ProductOfPowers(Scaled(n, PowerOfTwo(j + 1))) = (v * v) % m
    BY <2>1, SquareScales
  <2>5. base[j] \in Uint /\ Stands(base[j], v, m)
    BY <2>2
  <2> HIDE DEF v, Good
  <2>6. /\ almost_montgomery_mul(base[j], base[j], m) \in Uint
        /\ Stands(almost_montgomery_mul(base[j], base[j], m), (v * v) % m, m)
    BY <2>5, ProductOfForms
  <2> QED
    BY <2>3, <2>4, <2>6 DEF Good
<1>5. S = Nat
  <2>1. S \in SUBSET Nat
    OBVIOUS
  <2> HIDE DEF S
  <2> QED
    BY <1>3, <1>4, <2>1, SetInduction
<1>6. ASSUME NEW j \in 0..count PROVE Good(j)
  <2>1. j \in S /\ j <= count
    BY <1>5, SMT
  <2> QED
    BY <2>1
<1> QED
  BY <1>6

\* The squarings at the head of a window, in either routine.  Any form of
\* N limbs may be squared: the result is a form of the square, if perhaps not
\* the reduced one.
LEMMA SquaredForm ==
    ASSUME Arguments, NEW a \in Uint, NEW n \in [Bases -> Nat],
           Stands(a, ProductOfPowers(n), m)
    PROVE  /\ Squared(a) \in Uint
           /\ Stands(Squared(a), ProductOfPowers(Scaled(n, WINDOW_COUNT)), m)
<1>1. m \in Nat /\ m > 0 /\ m \in Uint /\ HasNegInv(m)
  BY DEF Arguments, Modulus
<1>2. WINDOW \in Nat /\ WINDOW > 0 /\ WINDOW \in 0..WINDOW /\ WINDOW - 1 \in Nat
      /\ WINDOW - 1 \in 0..WINDOW /\ (WINDOW - 1) + 1 = WINDOW
  BY WindowAssumption, SMT
<1> DEFINE base == AlmostSquares(a, WINDOW, m)
           u == ProductOfPowers(Scaled(n, WINDOW_COUNT))
           f == base[WINDOW - 1]
           v == ProductOfPowers(Scaled(n, PowerOfTwo(WINDOW - 1)))
<1>3. \A j \in 0..WINDOW :
          /\ base[j] \in Uint
          /\ Stands(base[j], ProductOfPowers(Scaled(n, PowerOfTwo(j))), m)
  BY <1>2, SquaresStand
<1>4. f \in Uint /\ Stands(f, v, m)
  BY <1>2, <1>3
<1>5. u = (v * v) % m
  BY <1>2, SquareScales DEF WINDOW_COUNT
<1>6. CASE variant = "amm"
  <2>1. Squared(a) = base[WINDOW]
    BY <1>6 DEF Squared
  <2> QED
    BY <1>2, <1>3, <2>1 DEF WINDOW_COUNT
<1>7. CASE variant # "amm" /\ WINDOW = 1
  <2>1. Squared(a) = mul_montgomery_form(a, a, m)
    BY <1>7, SMT DEF Squared, square_repeat_montgomery_form, square_montgomery_form
  <2>2. f = a
    <3>1. base[0] = a
      BY <1>1, <1>2, AlmostSquaresAre
    <3>2. WINDOW - 1 = 0
      BY <1>7, SMT
    <3> QED
      BY <3>1, <3>2
  <2> HIDE DEF base, u, f, v
  <2>3. /\ mul_montgomery_form(f, f, m) \in Uint
        /\ Stands(mul_montgomery_form(f, f, m), (v * v) % m, m)
    BY <1>4, ProductOfForms
  <2> QED
    BY <1>5, <2>1, <2>2, <2>3 DEF u
<1>8. CASE variant # "amm" /\ WINDOW # 1
  <2> DEFINE acc  == Acc(f * f, m)
             once == TrySubWithCarry(acc % R, acc \div R, m)
             r    == TrySubWithCarry(once[1], once[2], m)[1]
  <2>1. Squared(a) = r
    <3>1. WINDOW > 1 /\ WINDOW # 0
      BY <1>2, <1>8, SMT
    <3>2. Squared(a) = square_repeat_montgomery_form(a, WINDOW, m)
      BY <1>8 DEF Squared
    <3> QED
      BY <1>8, <3>1, <3>2 DEF square_repeat_montgomery_form, Out, Over
  <2> HIDE DEF f, v, u, base
  <2>2. f \in Nat /\ f < R /\ f * f \in Nat /\ R \in Nat /\ m < R
    BY <1>1, <1>4, BaseFacts, SMT DEF Uint
  <2>3. acc \in Nat /\ acc < f + m
    BY <1>1, <1>4, <2>2, AccFacts, AccOfProduct
  <2>4. (acc * R) % m = (f * f) % m
    BY <1>1, <2>2, AccCongruent
  <2> HIDE DEF acc
  <2>5. acc < R + m
    BY <1>1, <2>2, <2>3, SMT
  <2>6. once[1] \in Uint /\ once[1] % m = acc % m /\ once[2] = 0
    BY <1>1, <2>3, <2>5, CorrectedOnce
  <2>7. r \in Uint /\ r % m = once[1] % m
    <3>1. r = TrySubWithCarry(once[1], 0, m)[1]
      BY <2>6
    <3> DEFINE o == once[1]
               c == TrySubWithCarry(o, 0, m)
    <3>2. o \in Uint
      BY <2>6
    <3> HIDE DEF once, r, o
    <3>3. c[1] \in Uint /\ c[1] % m = o % m
      BY <1>1, <3>2, CorrectedAgain
    <3> HIDE DEF c
    <3> QED
      BY <3>1, <3>3 DEF o, c
  <2> HIDE DEF once, r
  <2>8. (r * R) % m = (f * f) % m
    <3>1. r \in Int /\ acc \in Int /\ R \in Int
      BY <2>2, <2>3, <2>7, SMT DEF Uint
    <3>2. ((r % m) * R) % m = (r * R) % m
      BY <1>1, <3>1, ReduceFactor
    <3>3. ((acc % m) * R) % m = (acc * R) % m
      BY <1>1, <3>1, ReduceFactor
    <3> QED
      BY <2>4, <2>6, <2>7, <3>2, <3>3
  <2>9. Stands(r, (v * v) % m, m)
    <3>1. r \in Int /\ f \in Int /\ v \in Int
      BY <1>4, <2>2, <2>7, SMT DEF Uint, Stands
    <3> QED
      BY <1>1, <1>4, <2>8, <3>1, ProductStands
  <2> QED
    BY <1>5, <2>1, <2>7, <2>9 DEF u
<1> QED
  BY <1>6, <1>7, <1>8

----------------------------------------------------------------------------
(* The tables.                                                             *)

LEMMA WindowCount ==
    /\ WINDOW_COUNT \in Nat /\ WINDOW_COUNT >= 2 /\ WINDOW_COUNT - 1 \in Nat
    /\ 0 \in 0..(WINDOW_COUNT - 1) /\ 1 \in 1..(WINDOW_COUNT - 1)
<1>1. WINDOW \in Nat /\ 1 <= WINDOW /\ 1 = 0 + 1
  BY WindowAssumption, SMT
<1>2. PowerOfTwo(0) = 1 /\ PowerOfTwo(0 + 1) = 2 * PowerOfTwo(0)
  BY PowerDoubles
<1>3. PowerOfTwo(1) = 2
  BY <1>2, SMT
<1>4. WINDOW_COUNT \in Nat /\ PowerOfTwo(1) <= WINDOW_COUNT
  BY <1>1, PowersGrow, PowerDoubles DEF WINDOW_COUNT
<1> QED
  BY <1>3, <1>4, SMT

\* The entries that compute_powers leaves.
LEMMA TableIs ==
    ASSUME Arguments, NEW base \in Uint, NEW p, p = compute_powers(base)
    PROVE  /\ p \in [0..(WINDOW_COUNT - 1) -> Uint]
           /\ p[0] = one /\ p[1] = base
           /\ \A n \in 2..(WINDOW_COUNT - 1) : p[n] = MontyMul(p[n - 1], base)
<1> DEFINE C == WINDOW_COUNT - 1
           F == [j \in Nat |-> [w \in Uint |-> IF j = 1 THEN base
                                               ELSE MontyMul(w, base)]]
           f == CHOOSE f : f = [n \in 0..C |->
                    IF n = 0 THEN one ELSE IF n = 1 THEN base
                    ELSE MontyMul(f[n - 1], base)]
<1>1. m \in Nat /\ m > 0 /\ m \in Uint /\ HasNegInv(m)
  BY DEF Arguments, Modulus
<1>2. C \in Nat /\ 0 \in 0..C /\ 1 \in 1..C
  BY WindowCount
<1>3. one \in Uint
  <2>1. one \in 0..(m - 1)
    BY <1>1, OneStands DEF one
  <2> QED
    BY <1>1, <2>1, BaseFacts, SMT DEF Uint
<1>4. \A w \in Uint : MontyMul(w, base) \in Uint
  BY <1>1, MulAny, AlmostAny DEF MontyMul
<1>5. Closed(F, Uint)
  BY <1>4 DEF Closed
<1> HIDE DEF F
<1>6. PICK g : IsRecursion(g, Uint, one, C, F)
  BY <1>2, <1>3, <1>5, RecursionExists
<1>7. ASSUME NEW n \in 1..C
      PROVE  g[n] = IF n = 1 THEN base ELSE MontyMul(g[n - 1], base)
  <2>1. n \in Nat /\ n - 1 \in 0..C
    BY <1>2, SMT
  <2>2. g[n - 1] \in Uint /\ g[n] = F[n][g[n - 1]]
    BY <1>6, <2>1 DEF IsRecursion
  <2> QED
    BY <2>1, <2>2 DEF F
<1>8. g = [n \in 0..C |-> IF n = 0 THEN one ELSE IF n = 1 THEN base
                          ELSE MontyMul(g[n - 1], base)]
  <2>1. g \in [0..C -> Uint] /\ g[0] = one
    BY <1>6 DEF IsRecursion
  <2>2. \A n \in 0..C : n = 0 \/ n \in 1..C
    BY <1>2, SMT
  <2> HIDE DEF C
  <2> QED
    BY <1>7, <2>1, <2>2
<1>9. f = [n \in 0..C |-> IF n = 0 THEN one ELSE IF n = 1 THEN base
                          ELSE MontyMul(f[n - 1], base)]
  BY <1>8
<1>10. p = f
  BY DEF compute_powers
<1> HIDE DEF f, C
<1>11. f[0] = one /\ f[1] = base
  <2>1. 1 # 0 /\ 1 \in 0..C
    BY <1>2, SMT
  <2> QED
    BY <1>2, <1>9, <2>1
<1>12. ASSUME NEW n \in 2..C PROVE f[n] = MontyMul(f[n - 1], base)
  <2>1. n \in 0..C /\ n # 0 /\ n # 1
    BY <1>2, SMT
  <2> QED
    BY <1>9, <2>1
<1>13. \A n \in 0..C : f[n] \in Uint
  <2>1. ASSUME NEW n \in 1..C, f[n - 1] \in Uint PROVE f[n] \in Uint
    <3>1. n = 1 \/ n \in 2..C
      BY <1>2, SMT
    <3> QED
      BY <1>4, <1>11, <1>12, <2>1, <3>1
  <2> QED
    BY <1>2, <1>3, <1>11, <2>1, RecursionStaysIn
<1>14. f \in [0..C -> Uint]
  <2>1. f = [n \in 0..C |-> f[n]]
    BY <1>9
  <2> QED
    BY <1>13, <2>1
<1> QED
  BY <1>10, <1>11, <1>12, <1>14 DEF C

\* Entry n is a form of the n-th power; in almost Montgomery form it exceeds
\* the modulus by one multiple at most, otherwise it is reduced.
LEMMA TableEntries ==
    ASSUME Arguments, NEW base \in 0..(m - 1), base \in Uint,
           NEW v \in 0..(m - 1), Stands(base, v, m),
           NEW p, p = compute_powers(base)
    PROVE  \A n \in 0..(WINDOW_COUNT - 1) :
               /\ Stands(p[n], PowerMod(v, n), m)
               /\ p[n] < 2 * m
               /\ variant # "amm" => p[n] < m
<1>1. m \in Nat /\ m > 0 /\ m \in Uint /\ HasNegInv(m) /\ Modulus
  BY DEF Arguments, Modulus
<1>2. /\ p \in [0..(WINDOW_COUNT - 1) -> Uint]
      /\ p[0] = one /\ p[1] = base
      /\ \A n \in 2..(WINDOW_COUNT - 1) : p[n] = MontyMul(p[n - 1], base)
  BY TableIs
<1>3. WINDOW_COUNT \in Nat /\ WINDOW_COUNT >= 2 /\ v \in Int /\ base < m
      /\ base \in Nat /\ R \in Nat
  BY <1>1, WindowCount, BaseFacts, SMT
<1> DEFINE Good(n) == /\ Stands(p[n], PowerMod(v, n), m)
                      /\ p[n] < 2 * m
                      /\ variant # "amm" => p[n] < m
           S == {n \in Nat : n < WINDOW_COUNT => Good(n)}
<1>4. 0 \in S
  <2>1. one \in 0..(m - 1) /\ Stands(one, 1 % m, m)
    BY <1>1, OneStands DEF one
  <2>2. PowerMod(v, 0) = 1 % m
    BY <1>1, <1>3, PowerModSteps
  <2>3. one < m /\ one < 2 * m
    BY <1>1, <2>1, SMT
  <2> QED
    BY <1>2, <2>1, <2>2, <2>3
<1>5. 1 \in S
  <2>1. PowerMod(v, 0) = 1 % m /\ PowerMod(v, 0 + 1) = (PowerMod(v, 0) * v) % m
    BY <1>1, <1>3, PowerModSteps
  <2>2. ((1 % m) * v) % m = v
    BY <1>1, AlreadyReduced
  <2>3. 0 + 1 = 1
    OBVIOUS
  <2>4. PowerMod(v, 1) = v
    BY <2>1, <2>2, <2>3
  <2>5. base < 2 * m
    BY <1>1, <1>3, SMT
  <2> QED
    BY <1>2, <1>3, <2>4, <2>5
<1>6. ASSUME NEW n \in S, n >= 1 PROVE n + 1 \in S
  <2> SUFFICES ASSUME n + 1 < WINDOW_COUNT PROVE Good(n + 1)
    BY SMT
  <2>1. n \in Nat /\ n < WINDOW_COUNT /\ n \in 0..(WINDOW_COUNT - 1)
        /\ n + 1 \in 2..(WINDOW_COUNT - 1) /\ (n + 1) - 1 = n
    BY <1>3, <1>6, SMT
  <2> DEFINE a == p[n]
             u == PowerMod(v, n)
             r == MontyMul(a, base)
  <2>2. a \in Uint /\ Stands(a, u, m)
    BY <1>2, <2>1
  <2>3. p[n + 1] = r
    BY <1>2, <2>1
  <2>4. PowerMod(v, n + 1) = (u * v) % m
    BY <1>1, <1>3, <2>1, PowerModSteps
  <2> HIDE DEF a, u
  <2>5. Stands(r, (u * v) % m, m) /\ r \in Uint
    BY <2>2, ProductOfForms
  <2>6. variant # "amm" => r < m
    BY <1>1, <1>3, <2>2, MulAny DEF MontyMul
  <2>7. r < 2 * m
    <3>1. CASE variant = "amm"
      <4>1. a \in Nat /\ a <= R /\ base <= m
        BY <1>1, <1>3, <2>2, SMT DEF Uint
      <4>2. a * base <= R * (1 * m)
        <5>1. a * base <= a * m
          BY <1>1, <1>3, <4>1, Monotone
        <5>2. m * a <= m * R
          BY <1>1, <1>3, <4>1, Monotone
        <5>3. m * a = a * m /\ m * R = R * (1 * m) /\ a * base \in Int
              /\ a * m \in Int /\ m * R \in Int
          BY <1>1, <1>3, <4>1, SMT
        <5> QED
          BY <5>1, <5>2, <5>3, SMT
      <4>3. 1 \in Nat /\ 1 + 1 = 2
        OBVIOUS
      <4>4. almost_montgomery_mul(a, base, m) < (1 + 1) * m
        BY <1>1, <2>2, <4>2, <4>3, AlmostMul
      <4>5. r = almost_montgomery_mul(a, base, m)
        BY <3>1 DEF MontyMul
      <4> HIDE DEF r
      <4> QED
        BY <4>3, <4>4, <4>5
    <3>2. CASE variant # "amm"
      <4>1. r < m /\ r \in Nat
        BY <2>5, <2>6, <3>2, BaseFacts, SMT DEF Uint
      <4> HIDE DEF r
      <4> QED
        BY <1>1, <4>1, SMT
    <3> QED
      BY <3>1, <3>2
  <2> QED
    BY <2>3, <2>4, <2>5, <2>6, <2>7
<1>7. S = Nat
  <2>1. S \in SUBSET Nat
    OBVIOUS
  <2>2. ASSUME NEW n \in S PROVE n + 1 \in S
    <3>1. n = 0 \/ n >= 1
      BY SMT
    <3>2. 0 + 1 = 1
      OBVIOUS
    <3> QED
      BY <1>5, <1>6, <3>1, <3>2
  <2> HIDE DEF S
  <2> QED
    BY <1>4, <2>1, <2>2, SetInduction
<1>8. ASSUME NEW n \in 0..(WINDOW_COUNT - 1) PROVE Good(n)
  <2>1. n \in S /\ n < WINDOW_COUNT
    BY <1>3, <1>7, SMT
  <2> QED
    BY <2>1
<1> QED
  BY <1>8

----------------------------------------------------------------------------
(* Positions of windows.                                                   *)

LEMMA Positions ==
    /\ BITS \in Nat /\ BITS > 0 /\ WINDOW \in Nat /\ WINDOW > 0
    /\ BITS_PER_WINDOW \in Nat /\ BITS_PER_WINDOW > 0
    /\ BITS = WINDOW * BITS_PER_WINDOW
    /\ RHS_LIMBS \in Nat /\ RHS_LIMBS > 0 /\ RHS_LIMBS <= 2 * N
<1>1. BITS \in Nat /\ WINDOW \in Nat /\ WINDOW > 0 /\ BITS % WINDOW = 0
      /\ B = PowerOfTwo(BITS)
  BY WindowAssumption, SMT
<1>2. BITS > 0
  <2>1. BITS # 0
    BY <1>1, BaseFacts, PowerDoubles, SMT
  <2> QED
    BY <1>1, <2>1, SMT
<1> DEFINE g == BITS_PER_WINDOW
<1>3. g \in Nat /\ BITS = WINDOW * g + 0
  BY <1>1, DivMod DEF BITS_PER_WINDOW
<1> HIDE DEF g
<1>4. g > 0 /\ BITS = WINDOW * g
  <2>1. WINDOW * g = BITS
    BY <1>1, <1>3, SMT
  <2>2. g # 0
    BY <1>1, <1>2, <2>1, SMT
  <2> QED
    BY <1>3, <2>1, <2>2, SMT
<1>5. RHS_LIMBS \in Nat /\ RHS_LIMBS > 0 /\ RHS_LIMBS <= 2 * N
  BY ExponentAssumption, BaseFacts, SMT
<1> QED
  BY <1>1, <1>2, <1>3, <1>4, <1>5 DEF g

\* Where pow_init puts the highest window, and the bits it counts in it.
LEMMA StartPosition ==
    ASSUME bits \in Nat, exponent_bits > 0
    PROVE  /\ starting_limb \in 0..(RHS_LIMBS - 1)
           /\ starting_window \in 0..(BITS_PER_WINDOW - 1)
           /\ starting_window_bits \in 1..WINDOW
           /\ exponent_bits \in Nat
           /\ exponent_bits = starting_limb * BITS + starting_window * WINDOW
                                + starting_window_bits
<1> DEFINE y  == exponent_bits - 1
           sl == starting_limb
           sb == starting_bit_in_limb
           sw == starting_window
           r  == sb % WINDOW
<1>1. /\ BITS \in Nat /\ BITS > 0 /\ WINDOW \in Nat /\ WINDOW > 0
      /\ BITS_PER_WINDOW \in Nat /\ BITS = WINDOW * BITS_PER_WINDOW
      /\ RHS_LIMBS \in Nat
  BY Positions
<1>2. exponent_bits \in Nat /\ exponent_bits <= RHS_LIMBS * BITS
      /\ RHS_LIMBS * BITS \in Nat
  BY <1>1, SMT DEF exponent_bits
<1>3. y \in Nat /\ exponent_bits = y + 1
  BY <1>2, SMT
<1>4. sl \in Nat /\ sb \in Nat /\ sb < BITS /\ y = BITS * sl + sb
  <2> HIDE DEF y
  <2>1. y \div BITS \in Nat /\ y % BITS \in Nat /\ y % BITS < BITS
        /\ y = BITS * (y \div BITS) + (y % BITS)
    BY <1>1, <1>3, DivMod
  <2> QED
    BY <2>1 DEF y, starting_limb, starting_bit_in_limb
<1> HIDE DEF y, sl, sb
<1>5. sw \in Nat /\ r \in Nat /\ r < WINDOW /\ sb = WINDOW * sw + r
  <2>1. sw = sb \div WINDOW
    BY DEF starting_window, sb
  <2>2. sb \div WINDOW \in Nat /\ r \in Nat /\ r < WINDOW
        /\ sb = WINDOW * (sb \div WINDOW) + r
    BY <1>1, <1>4, DivMod
  <2> HIDE DEF sw, r
  <2> QED
    BY <2>1, <2>2
<1>6. starting_window_bits = r + 1
  BY DEF starting_window_bits, sb
<1> HIDE DEF sw, r
<1>7. sl < RHS_LIMBS
  <2>1. BITS * sl \in Int /\ BITS * RHS_LIMBS = RHS_LIMBS * BITS
    BY <1>1, <1>4, SMT
  <2>2. BITS * sl < BITS * RHS_LIMBS
    BY <1>2, <1>3, <1>4, <2>1, SMT
  <2> QED
    BY <1>1, <1>4, <2>2, Cancel
<1>8. sw < BITS_PER_WINDOW
  <2>1. WINDOW * sw \in Int
    BY <1>1, <1>5, SMT
  <2>2. WINDOW * sw < WINDOW * BITS_PER_WINDOW
    BY <1>1, <1>4, <1>5, <2>1, SMT
  <2> QED
    BY <1>1, <1>5, <2>2, Cancel
<1>9. exponent_bits = sl * BITS + sw * WINDOW + (r + 1)
  <2> DEFINE p == sl * BITS
             q == sw * WINDOW
  <2>1. BITS * sl = p /\ WINDOW * sw = q /\ p \in Int /\ q \in Int
    BY <1>1, <1>4, <1>5, SMT
  <2> HIDE DEF p, q
  <2>2. y = p + sb /\ sb = q + r
    BY <1>4, <1>5, <2>1
  <2>3. exponent_bits = p + q + (r + 1)
    BY <1>3, <1>4, <1>5, <2>1, <2>2, SMT
  <2> QED
    BY <2>3 DEF p, q
<1>10. sl \in 0..(RHS_LIMBS - 1) /\ sw \in 0..(BITS_PER_WINDOW - 1)
       /\ r + 1 \in 1..WINDOW
  BY <1>1, <1>4, <1>5, <1>7, <1>8, SMT
<1> QED
  BY <1>2, <1>6, <1>9, <1>10 DEF sl, sw

\* A window in reach of the call: the highest one, or one wholly below the
\* bits asked for.
InReach ==
    /\ bits \in Nat /\ exponent_bits > 0
    /\ limb_num \in 0..(RHS_LIMBS - 1)
    /\ window_num \in 0..(BITS_PER_WINDOW - 1)
    /\ AtStart \/ LowBit + WINDOW < exponent_bits

LEMMA ReachFacts ==
    ASSUME InReach
    PROVE  /\ exponent_bits \in Nat /\ LowBit \in Nat /\ LowBit < exponent_bits
           /\ limb_num \in 0..(2 * N) /\ window_num * WINDOW \in Nat
           /\ window_num * WINDOW + WINDOW <= BITS
           /\ AtStart => /\ exponent_bits = LowBit + starting_window_bits
                         /\ starting_window_bits \in Nat
                         /\ starting_window_bits <= WINDOW
<1>1. /\ BITS \in Nat /\ BITS > 0 /\ WINDOW \in Nat /\ WINDOW > 0
      /\ BITS_PER_WINDOW \in Nat /\ BITS = WINDOW * BITS_PER_WINDOW
      /\ RHS_LIMBS \in Nat /\ RHS_LIMBS <= 2 * N /\ N \in Nat
  BY Positions, BaseFacts
<1>2. limb_num \in Nat /\ window_num \in Nat /\ limb_num < RHS_LIMBS
      /\ window_num + 1 <= BITS_PER_WINDOW
  BY <1>1, SMT DEF InReach
<1>3. limb_num * BITS \in Nat /\ window_num * WINDOW \in Nat
  BY <1>1, <1>2, SMT
<1>4. LowBit \in Nat
  BY <1>3, SMT DEF LowBit
<1>5. window_num * WINDOW + WINDOW <= BITS
  <2>1. WINDOW * (window_num + 1) <= WINDOW * BITS_PER_WINDOW
    BY <1>1, <1>2, Monotone
  <2>2. WINDOW * (window_num + 1) = window_num * WINDOW + WINDOW
    BY <1>1, <1>2, SMT
  <2> QED
    BY <1>1, <2>1, <2>2
<1>6. /\ exponent_bits \in Nat
      /\ starting_window_bits \in 1..WINDOW
      /\ exponent_bits = starting_limb * BITS + starting_window * WINDOW
                           + starting_window_bits
  BY StartPosition DEF InReach
<1>7. AtStart => exponent_bits = LowBit + starting_window_bits
  BY <1>6 DEF AtStart, LowBit
<1>8. starting_window_bits \in Nat /\ starting_window_bits <= WINDOW
      /\ starting_window_bits > 0
  BY <1>1, <1>6, SMT
<1>9. LowBit < exponent_bits
  <2>1. CASE AtStart
    BY <1>4, <1>6, <1>7, <1>8, <2>1, SMT
  <2>2. CASE ~AtStart
    <3>1. LowBit + WINDOW < exponent_bits
      BY <2>2 DEF InReach
    <3> QED
      BY <1>1, <1>4, <1>6, <3>1, SMT
  <2> QED
    BY <2>1, <2>2
<1>10. limb_num \in 0..(2 * N)
  BY <1>1, <1>2, SMT
<1> QED
  BY <1>3, <1>4, <1>5, <1>6, <1>7, <1>8, <1>9, <1>10

\* The digit the code looks up is the next digit of the bits asked for, also in
\* the highest window, which may hold fewer of them.
LEMMA DigitIs ==
    ASSUME Arguments, InReach, NEW b \in Bases
    PROVE  /\ idx(b) \in 0..(WINDOW_COUNT - 1)
           /\ Above(b, LowBit + WINDOW) \in Nat
           /\ Above(b, LowBit) = Above(b, LowBit + WINDOW) * WINDOW_COUNT + idx(b)
           /\ AtStart => Above(b, LowBit + WINDOW) = 0
<1> DEFINE y == e(b)
           L == LowBit
           h == y \div PowerOfTwo(L)
           c == Considered(b)
           s == window_num * WINDOW
<1>1. /\ exponent_bits \in Nat /\ L \in Nat /\ L < exponent_bits
      /\ limb_num \in 0..(2 * N) /\ s \in Nat /\ s + WINDOW <= BITS
      /\ L = limb_num * BITS + s
      /\ AtStart => /\ exponent_bits = L + starting_window_bits
                    /\ starting_window_bits \in Nat
                    /\ starting_window_bits <= WINDOW
  BY ReachFacts DEF LowBit
<1>2. y \in Nat /\ WINDOW \in Nat /\ BITS \in Nat
  BY ArgumentFacts, Positions
<1> HIDE DEF y, L, s
<1>3. h \in Nat /\ c = y % PowerOfTwo(exponent_bits) /\ c \in Nat
  <2>1. c = y % PowerOfTwo(exponent_bits)
    BY DEF Considered, y
  <2>2. y % PowerOfTwo(exponent_bits) \in 0..(PowerOfTwo(exponent_bits) - 1)
        /\ h \in Nat
    BY <1>1, <1>2, BitDigits
  <2>3. PowerOfTwo(exponent_bits) \in Nat
    BY <1>1, PowerDoubles
  <2> HIDE DEF c, h
  <2> QED
    BY <2>1, <2>2, <2>3
<1>4. WINDOW_COUNT = PowerOfTwo(WINDOW) /\ WINDOW_COUNT \in Nat /\ WINDOW_COUNT > 0
  BY <1>2, PowerDoubles DEF WINDOW_COUNT
<1> DEFINE d == c \div PowerOfTwo(L)
           u == c \div PowerOfTwo(L + WINDOW)
<1> HIDE DEF c, h
<1>5. d \in Nat /\ u \in Nat /\ u = d \div WINDOW_COUNT
      /\ d = u * WINDOW_COUNT + (d % WINDOW_COUNT)
  <2>1. d \in Nat /\ u = d \div PowerOfTwo(WINDOW)
    <3>1. L \in Nat /\ WINDOW \in Nat /\ c \in Nat
      BY <1>1, <1>2, <1>3
    <3> QED
      BY <3>1, BitDigits
  <2> HIDE DEF d, u
  <2>2. d = WINDOW_COUNT * (d \div WINDOW_COUNT) + (d % WINDOW_COUNT)
        /\ d \div WINDOW_COUNT \in Nat
    BY <1>4, <2>1, DivMod
  <2>3. u = d \div WINDOW_COUNT
    BY <1>4, <2>1
  <2>4. WINDOW_COUNT * u = u * WINDOW_COUNT
    BY <1>4, <2>2, <2>3, SMT
  <2> QED
    BY <2>1, <2>2, <2>3, <2>4
<1>6. d % WINDOW_COUNT \in 0..(WINDOW_COUNT - 1)
  <2> HIDE DEF d, u
  <2>1. d \in Int
    BY <1>5
  <2> QED
    BY <1>4, <2>1, ResidueOf
<1>7. CASE AtStart
  <2> DEFINE t == starting_window_bits
  <2>1. t \in Nat /\ t <= WINDOW /\ exponent_bits = L + t
        /\ s + t <= BITS
    BY <1>1, <1>2, <1>7, SMT
  <2>2. idx(b) = (Limb(y, limb_num) \div PowerOfTwo(s)) % PowerOfTwo(t)
    BY <1>7 DEF idx, y, s
  <2> HIDE DEF t
  <2>3. idx(b) = h % PowerOfTwo(t)
    BY <1>1, <1>2, <2>1, <2>2, BitsOfLimb DEF h
  <2>4. d = h % PowerOfTwo(t)
    BY <1>1, <1>2, <1>3, <2>1, BitDigits DEF h
  <2>5. u = 0
    <3>1. exponent_bits <= L + WINDOW /\ L + WINDOW \in Nat
      BY <1>1, <1>2, <2>1, SMT
    <3> QED
      BY <1>1, <1>2, <1>3, <3>1, NothingAbove
  <2>6. d = d % WINDOW_COUNT
    <3> HIDE DEF d, u
    <3> QED
      BY <1>4, <1>5, <1>6, <2>5, SMT
  <2> QED
    BY <1>1, <1>5, <1>6, <2>3, <2>4, <2>5, <2>6 DEF Above, c, L
<1>8. CASE ~AtStart
  <2>1. PICK f \in Nat : exponent_bits = L + (WINDOW + f)
    <3>1. L + WINDOW < exponent_bits
      BY <1>8 DEF InReach, L
    <3>2. exponent_bits - L - WINDOW \in Nat
          /\ exponent_bits = L + (WINDOW + (exponent_bits - L - WINDOW))
      BY <1>1, <1>2, <3>1, SMT
    <3> QED
      BY <3>2
  <2>2. idx(b) = (Limb(y, limb_num) \div PowerOfTwo(s)) % PowerOfTwo(WINDOW)
    BY <1>8 DEF idx, y, s, WINDOW_COUNT
  <2>3. idx(b) = h % PowerOfTwo(WINDOW)
    BY <1>1, <1>2, <2>2, BitsOfLimb DEF h
  <2>4. d = h % PowerOfTwo(WINDOW + f)
    <3>1. WINDOW + f \in Nat
      BY <1>2
    <3> QED
      BY <1>1, <1>2, <1>3, <2>1, <3>1, BitDigits DEF h
  <2>5. d % PowerOfTwo(WINDOW) = h % PowerOfTwo(WINDOW)
    <3>1. (h % PowerOfTwo(WINDOW + f)) % PowerOfTwo(WINDOW) = h % PowerOfTwo(WINDOW)
      <4>1. h \in Nat /\ WINDOW \in Nat
        BY <1>2, <1>3
      <4> HIDE DEF d, u
      <4> QED
        BY <4>1, BitDigits
    <3> HIDE DEF d
    <3> QED
      BY <2>4, <3>1
  <2>6. idx(b) = d % WINDOW_COUNT
    BY <1>4, <2>3, <2>5
  <2> QED
    BY <1>1, <1>5, <1>6, <1>8, <2>6 DEF Above, c, L
<1> QED
  BY <1>7, <1>8

----------------------------------------------------------------------------
(* The exponents that the accumulated power stands for.                    *)

\* Before the window at bit L, within it with the bases below j done, and at
\* the end.
BeforeWindow(L)    == [b \in Bases |-> Above(b, L + WINDOW)]
WithinWindow(L, j) == [b \in Bases |->
                          IF b < j THEN Above(b, L)
                          ELSE Above(b, L + WINDOW) * WINDOW_COUNT]
AfterWindow(L)     == [b \in Bases |-> Above(b, L)]
AskedFor           == [b \in Bases |-> Considered(b)]

LEMMA ExponentTypes ==
    ASSUME Arguments, InReach, NEW L, L = LowBit, NEW j \in Nat
    PROVE  /\ BeforeWindow(L) \in [Bases -> Nat]
           /\ WithinWindow(L, j) \in [Bases -> Nat]
           /\ AfterWindow(L) \in [Bases -> Nat]
           /\ Scaled(BeforeWindow(L), WINDOW_COUNT) = WithinWindow(L, 1)
           /\ WithinWindow(L, K + 1) = AfterWindow(L)
<1>1. WINDOW_COUNT \in Nat /\ K \in Nat /\ Bases = 1..K
  BY WindowCount, ArgumentFacts DEF Bases
<1>2. ASSUME NEW b \in Bases
      PROVE  /\ Above(b, L + WINDOW) \in Nat
             /\ Above(b, L + WINDOW) * WINDOW_COUNT \in Nat
             /\ Above(b, L) \in Nat
  <2> DEFINE a == Above(b, L + WINDOW)
             d == Above(b, L)
  <2>1. a \in Nat /\ d = a * WINDOW_COUNT + idx(b)
        /\ idx(b) \in 0..(WINDOW_COUNT - 1)
    BY DigitIs
  <2> HIDE DEF a, d
  <2>2. a * WINDOW_COUNT \in Nat
    BY <1>1, <2>1, SMT
  <2>3. d \in Nat
    BY <1>1, <2>1, <2>2, SMT
  <2> QED
    BY <2>1, <2>2, <2>3 DEF a, d
<1>3. ASSUME NEW b \in Bases PROVE ~(b < 1) /\ b < K + 1
  BY <1>1, SMT
<1>4. /\ BeforeWindow(L) \in [Bases -> Nat]
      /\ WithinWindow(L, j) \in [Bases -> Nat]
      /\ AfterWindow(L) \in [Bases -> Nat]
  BY <1>2 DEF BeforeWindow, WithinWindow, AfterWindow
<1>5. Scaled(BeforeWindow(L), WINDOW_COUNT) = WithinWindow(L, 1)
  BY <1>3 DEF Scaled, BeforeWindow, WithinWindow
<1>6. WithinWindow(L, K + 1) = AfterWindow(L)
  BY <1>3 DEF WithinWindow, AfterWindow
<1> QED
  BY <1>4, <1>5, <1>6

\* The squarings make room for the window's digits.
LEMMA WindowSquares ==
    ASSUME Arguments, InReach, z \in Uint, NEW L, L = LowBit,
           Stands(z, ProductOfPowers(BeforeWindow(L)), m),
           NEW v, v = IF AtStart THEN z ELSE Squared(z)
    PROVE  v \in Uint /\ Stands(v, ProductOfPowers(WithinWindow(L, 1)), m)
<1>1. /\ BeforeWindow(L) \in [Bases -> Nat]
      /\ Scaled(BeforeWindow(L), WINDOW_COUNT) = WithinWindow(L, 1)
  BY ExponentTypes
<1>2. CASE AtStart
  <2>1. ASSUME NEW b \in Bases
        PROVE  Above(b, L + WINDOW) * WINDOW_COUNT = Above(b, L + WINDOW)
    <3>1. Above(b, L + WINDOW) = 0
      BY <1>2, DigitIs
    <3>2. 0 * WINDOW_COUNT = 0
      BY WindowCount, SMT
    <3> QED
      BY <3>1, <3>2
  <2>2. Scaled(BeforeWindow(L), WINDOW_COUNT) = BeforeWindow(L)
    BY <2>1 DEF Scaled, BeforeWindow
  <2> QED
    BY <1>1, <1>2, <2>2
<1>3. CASE ~AtStart
  BY <1>1, <1>3, SquaredForm
<1> QED
  BY <1>2, <1>3

\* The tables a call computes.
Tables == \A b \in Bases : powers[b] = compute_powers(x(b))

\* The product by one base's entry brings in that base's digit.
LEMMA DigitMultiplied ==
    ASSUME Arguments, InReach, Tables, z \in Uint, i \in Bases,
           NEW L, L = LowBit,
           Stands(z, ProductOfPowers(WithinWindow(L, i)), m)
    PROVE  /\ Multiplied \in Uint
           /\ Stands(Multiplied, ProductOfPowers(WithinWindow(L, i + 1)), m)
           /\ variant = "amm" => Multiplied < 3 * m
           /\ variant \notin {"amm", "vartime"} => Multiplied < m
<1> DEFINE n == WithinWindow(L, i)
           s == WithinWindow(L, i + 1)
           d == idx(i)
           f == powers[i][d]
           v == Residue(x(i))
           P == ProductOfPowers(n)
<1>1. m \in Nat /\ m > 0 /\ m \in Uint /\ HasNegInv(m)
  BY DEF Arguments, Modulus
<1>2. K \in Nat /\ Bases = 1..K /\ i \in Nat /\ WINDOW_COUNT \in Nat
  BY ArgumentFacts, WindowCount, SMT DEF Bases
<1>3. /\ d \in 0..(WINDOW_COUNT - 1)
      /\ Above(i, L) = Above(i, L + WINDOW) * WINDOW_COUNT + d
  BY DigitIs
<1>4. d \in Nat
  BY <1>2, <1>3
<1>5. n \in [Bases -> Nat] /\ s \in [Bases -> Nat]
  <2>1. i + 1 \in Nat
    BY <1>2
  <2> QED
    BY <1>2, <2>1, ExponentTypes
<1>6. s = [b \in Bases |-> n[b] + Single(i, d)[b]]
  <2>1. ASSUME NEW b \in Bases PROVE s[b] = n[b] + Single(i, d)[b]
    <3>1. CASE b = i
      <4>1. b < i + 1 /\ ~(b < i)
        BY <1>2, <3>1, SMT
      <4>2. s[b] = Above(i, L) /\ n[b] = Above(i, L + WINDOW) * WINDOW_COUNT
            /\ Single(i, d)[b] = d
        BY <3>1, <4>1 DEF WithinWindow, Single
      <4> QED
        BY <1>3, <4>2
    <3>2. CASE b # i
      <4>1. b < i + 1 <=> b < i
        BY <1>2, <3>2, SMT
      <4>2. s[b] = n[b] /\ Single(i, d)[b] = 0
        BY <3>2, <4>1 DEF WithinWindow, Single
      <4>3. n[b] \in Nat
        BY <1>5
      <4> QED
        BY <4>2, <4>3, SMT
    <3> QED
      BY <3>1, <3>2
  <2>2. s = [b \in Bases |-> s[b]]
    BY DEF WithinWindow
  <2> QED
    BY <2>1, <2>2
<1>7. /\ x(i) \in 0..(m - 1) /\ x(i) \in Uint
      /\ v \in 0..(m - 1) /\ Stands(x(i), v, m)
      /\ powers[i] = compute_powers(x(i))
  BY ArgumentFacts DEF Tables
<1>8. /\ f \in Uint
      /\ Stands(f, PowerMod(v, d), m)
      /\ f < 2 * m
      /\ variant # "amm" => f < m
  <2> DEFINE p == powers[i]
  <2>1. p = compute_powers(x(i))
    BY <1>7
  <2> HIDE DEF d, v, p
  <2>2. p \in [0..(WINDOW_COUNT - 1) -> Uint]
    BY <1>7, <2>1, TableIs
  <2>3. /\ Stands(p[d], PowerMod(v, d), m)
        /\ p[d] < 2 * m
        /\ variant # "amm" => p[d] < m
    BY <1>3, <1>7, <2>1, TableEntries
  <2>4. p[d] \in Uint
    BY <1>3, <2>2
  <2> QED
    BY <2>3, <2>4 DEF p
<1>9. Single(i, d) \in [Bases -> Nat]
      /\ ProductOfPowers(Single(i, d)) = PowerMod(v, d)
  <2> HIDE DEF d
  <2> QED
    BY <1>4, ProductOfSingle
<1> HIDE DEF n, s, d, f, v
<1>10. ProductOfPowers(s) = (P * PowerMod(v, d)) % m
  BY <1>5, <1>6, <1>9, ProductAdds
<1>11. CASE variant = "vartime" /\ d = 0
  <2>1. Multiplied = z
    BY <1>11 DEF Multiplied, d
  <2>2. ASSUME NEW b \in Bases PROVE n[b] + Single(i, d)[b] = n[b]
    <3>1. Single(i, d)[b] = 0 /\ n[b] \in Nat
      BY <1>5, <1>11 DEF Single
    <3> QED
      BY <3>1, SMT
  <2>3. s = [b \in Bases |-> n[b]]
    BY <1>6, <2>2
  <2>4. s = n
    BY <1>5, <2>3
  <2> QED
    BY <1>11, <2>1, <2>4 DEF n, s
<1>12. CASE ~(variant = "vartime" /\ d = 0)
  <2>1. Multiplied = MontyMul(z, f)
    BY <1>12 DEF Multiplied, d, f
  <2>2. Stands(z, P, m)
    BY DEF n
  <2> HIDE DEF P
  <2>3. MontyMul(z, f) \in Uint /\ Stands(MontyMul(z, f), (P * PowerMod(v, d)) % m, m)
    BY <1>8, <2>2, ProductOfForms
  <2>4. variant = "amm" => MontyMul(z, f) < 3 * m
    <3> SUFFICES ASSUME variant = "amm" PROVE MontyMul(z, f) < 3 * m
      OBVIOUS
    <3>1. z \in Nat /\ z <= R /\ R \in Nat /\ f \in Nat /\ f <= 2 * m /\ 2 * m \in Int
      BY <1>1, <1>8, BaseFacts, SMT DEF Uint
    <3>2. z * f <= R * (2 * m)
      <4> DEFINE g == 2 * m
                 q == z * f
                 r == z * g
                 t == R * g
      <4>1. q <= r
        BY <3>1, Monotone
      <4>2. g * z <= g * R /\ g \in Nat
        BY <1>1, <3>1, Monotone
      <4> HIDE DEF g
      <4>3. g * z = r /\ g * R = t /\ q \in Int /\ r \in Int /\ t \in Int
        BY <3>1, <4>2, SMT
      <4> HIDE DEF q, r, t
      <4>4. q <= t
        BY <4>1, <4>2, <4>3, SMT
      <4> QED
        BY <4>4 DEF g, q, t
    <3>3. 2 \in Nat /\ 2 + 1 = 3
      OBVIOUS
    <3>4. almost_montgomery_mul(z, f, m) < (2 + 1) * m
      BY <1>1, <1>8, <3>2, <3>3, AlmostMul
    <3> QED
      BY <3>3, <3>4 DEF MontyMul
  <2>5. variant \notin {"amm", "vartime"} => MontyMul(z, f) < m
    BY <1>1, <1>8, MulAny DEF MontyMul
  <2> QED
    BY <1>10, <2>1, <2>3, <2>4, <2>5 DEF s
<1> QED
  BY <1>11, <1>12

\* Two subtractions reduce what the last product leaves.
LEMMA ReducedTwice ==
    ASSUME Arguments, NEW v \in Uint, v < 3 * m, NEW w, Stands(v, w, m)
    PROVE  /\ almost_montgomery_reduce(v, m) \in Uint
           /\ almost_montgomery_reduce(v, m) < m
           /\ Stands(almost_montgomery_reduce(v, m), w, m)
<1>1. m \in Nat /\ m > 0 /\ m \in Uint /\ v \in Nat
  BY BaseFacts, SMT DEF Arguments, Modulus, Uint
<1> DEFINE c == TrySubWithCarry(v, 0, m)
           o == c[1]
           d == TrySubWithCarry(o, 0, m)
           r == d[1]
<1>2. /\ o \in Uint /\ o % m = v % m
      /\ o = IF v < m THEN v ELSE v - m
  BY <1>1, CorrectedAgain
<1>3. almost_montgomery_reduce(v, m) = r
  BY DEF almost_montgomery_reduce
<1> HIDE DEF c, o
<1>4. /\ r \in Uint /\ r % m = o % m
      /\ r = IF o < m THEN o ELSE o - m
  BY <1>1, <1>2, CorrectedAgain
<1> HIDE DEF d, r
<1>5. r < m
  BY <1>1, <1>2, <1>4, SMT
<1>6. Stands(r, w, m)
  BY <1>2, <1>4 DEF Stands
<1> QED
  BY <1>3, <1>4, <1>5, <1>6

----------------------------------------------------------------------------
(* The inductive invariant.                                                *)

\* Within the loops: the window is in reach, the tables are those computed,
\* and the accumulated power stands for the exponents so far.
Looping ==
    /\ InReach /\ Tables
    /\ pc = "window" => Stands(z, ProductOfPowers(BeforeWindow(LowBit)), m)
    /\ pc = "multiply" =>
           i \in Bases /\ Stands(z, ProductOfPowers(WithinWindow(LowBit, i)), m)
    /\ pc = "window" /\ variant = "amm" => z < 3 * m

Finished ==
    /\ Stands(z, ProductOfPowers(AskedFor), m)
    /\ variant # "vartime" => z < m

Inv ==
    /\ TypeOK
    /\ bits \in Nat
    /\ variant = "amm" => K = 1
    /\ pc \in {"window", "multiply"} => Looping
    /\ pc = "done" => Finished

\* The arguments of every call.
LEMMA TypedArguments == TypeOK => Arguments
<1> SUFFICES ASSUME TypeOK PROVE Arguments
  OBVIOUS
<1>1. m \in Moduli /\ bases_and_exponents \in Inputs(m)
  BY DEF TypeOK
<1>2. Modulus
  BY <1>1, ModuliAreUnits
<1>3. Inputs(m) \subseteq Seq((0..(m - 1)) \X (0..(W[RHS_LIMBS] - 1))) \ {<<>>}
  BY <1>1, InputsAssumption
<1> QED
  BY <1>1, <1>2, <1>3 DEF Arguments

LEMMA Initially == Init => Inv
<1> SUFFICES ASSUME Init PROVE Inv
  OBVIOUS
<1>1. bits \in Nat
  BY Positions, SMT DEF Init
<1>2. 0 \in Uint /\ 0 \in 0..(RHS_LIMBS - 1) /\ 0 \in 0..(BITS_PER_WINDOW - 1)
  BY BaseFacts, Positions, SMT DEF Uint
<1>3. 0 \in 0..(K + 1)
  <2>1. m \in Moduli /\ bases_and_exponents \in Inputs(m)
    BY DEF Init
  <2>2. Arguments
    BY <2>1, ModuliAreUnits, InputsAssumption DEF Arguments
  <2> QED
    BY <2>2, ArgumentFacts, SMT
<1>4. TypeOK
  BY <1>2, <1>3 DEF Init, TypeOK
<1>5. pc = "start" /\ (variant = "amm" => K = 1)
  BY DEF Init
<1> QED
  BY <1>1, <1>4, <1>5 DEF Inv

\* What a step that keeps the arguments keeps.
LEMMA ArgumentsKept ==
    ASSUME UNCHANGED params
    PROVE  /\ m' = m /\ variant' = variant /\ bits' = bits
           /\ bases_and_exponents' = bases_and_exponents
           /\ K' = K /\ Bases' = Bases
           /\ exponent_bits' = exponent_bits
    BY DEF params, K, Bases, exponent_bits

\* The power of given exponents is one of the things kept.
LEMMA PowersKept ==
    ASSUME UNCHANGED params, NEW n
    PROVE  ProductOfPowers(n)' = ProductOfPowers(n)
    BY ArgumentsKept DEF ProductOfPowers, PowerMod, Residue, x, K

\* The table that belongs to a base is kept, too.
LEMMA TableKept ==
    ASSUME UNCHANGED params, NEW b
    PROVE  compute_powers(x(b))' = compute_powers(x(b))
<1>1. variant' = variant /\ m' = m /\ bases_and_exponents' = bases_and_exponents
  BY ArgumentsKept
<1> QED
  BY <1>1, ZenonT(30) DEF compute_powers, x, one, MontyMul

\* Nothing asked for: the power is one.
LEMMA NothingAsked ==
    ASSUME Inv, ReturnOne
    PROVE  Inv'
<1>1. Arguments /\ m \in Nat /\ m > 0 /\ m \in Uint /\ exponent_bits = 0 /\ TypeOK
  BY TypedArguments DEF Inv, Arguments, Modulus, ReturnOne
<1>2. one \in 0..(m - 1) /\ Stands(one, 1 % m, m)
  BY <1>1, OneStands DEF one
<1>3. one \in Uint /\ one < m
  BY <1>1, <1>2, BaseFacts, SMT DEF Uint
<1>4. UNCHANGED params /\ z' = one /\ pc' = "done"
  BY DEF ReturnOne
<1>5. AskedFor = [b \in Bases |-> 0]
  <2>1. ASSUME NEW b \in Bases PROVE Considered(b) = 0
    <3>1. e(b) \in Nat /\ PowerOfTwo(0) = 1
      BY <1>1, ArgumentFacts, PowerDoubles
    <3>2. e(b) % PowerOfTwo(0) \in 0..(PowerOfTwo(0) - 1)
      BY <3>1, BitDigits
    <3>3. e(b) % PowerOfTwo(0) = 0
      BY <3>1, <3>2, SMT
    <3> QED
      BY <1>1, <3>3 DEF Considered
  <2> QED
    BY <2>1 DEF AskedFor
<1>6. AskedFor' = AskedFor
  BY <1>4, ArgumentsKept DEF AskedFor, Considered, e
<1>7. ProductOfPowers(AskedFor)' = 1 % m
  <2> DEFINE n == AskedFor
  <2>1. ProductOfPowers(n) = 1 % m
    BY <1>1, <1>5, ProductOfZeros
  <2>2. PICK l : l = n
    OBVIOUS
  <2>3. ProductOfPowers(l)' = 1 % m
    BY <1>4, <2>1, <2>2, PowersKept
  <2> QED
    BY <1>6, <2>2, <2>3
<1>8. Finished'
  BY <1>2, <1>3, <1>4, <1>7, ArgumentsKept DEF Finished, Stands
<1>9. TypeOK'
  BY <1>1, <1>3, <1>4, ArgumentsKept DEF TypeOK, ReturnOne
<1> QED
  BY <1>4, <1>8, <1>9, ArgumentsKept DEF Inv

\* The same for exponents given by the state.
LEMMA ExponentsKept ==
    ASSUME UNCHANGED params
    PROVE  /\ (AskedFor' = AskedFor)
           /\ \A L : \A b \in Bases : Above(b, L)' = Above(b, L)
    BY ArgumentsKept DEF AskedFor, Considered, Above, e

\* The tables and the highest window.
LEMMA Started ==
    ASSUME Inv, Start
    PROVE  Inv'
<1>1. Arguments /\ m \in Nat /\ m > 0 /\ m \in Uint /\ TypeOK /\ bits \in Nat
      /\ exponent_bits > 0
  BY TypedArguments DEF Inv, Arguments, Modulus, Start
<1>2. one \in 0..(m - 1) /\ Stands(one, 1 % m, m)
  BY <1>1, OneStands DEF one
<1>3. one \in Uint /\ one < m /\ one < 3 * m
  BY <1>1, <1>2, BaseFacts, SMT DEF Uint
<1>4. /\ UNCHANGED params /\ z' = one /\ pc' = "window"
      /\ powers' = [b \in Bases |-> compute_powers(x(b))]
      /\ limb_num' = starting_limb /\ window_num' = starting_window /\ i' = i
  BY DEF Start
<1>5. /\ starting_limb \in 0..(RHS_LIMBS - 1)
      /\ starting_window \in 0..(BITS_PER_WINDOW - 1)
      /\ starting_window_bits \in 1..WINDOW
      /\ exponent_bits \in Nat
      /\ exponent_bits = starting_limb * BITS + starting_window * WINDOW
                           + starting_window_bits
  BY <1>1, StartPosition
<1>6. InReach'
  <2>1. starting_limb' = starting_limb /\ starting_window' = starting_window
    BY <1>4, ArgumentsKept
       DEF starting_limb, starting_window, starting_bit_in_limb
  <2>2. AtStart'
    BY <1>4, <2>1 DEF AtStart
  <2> QED
    BY <1>1, <1>4, <1>5, <2>2, ArgumentsKept DEF InReach
<1>7. Tables'
  <2>1. ASSUME NEW b \in Bases PROVE powers'[b] = compute_powers(x(b))'
    <3>1. powers'[b] = compute_powers(x(b))
      BY <1>4
    <3>2. compute_powers(x(b))' = compute_powers(x(b))
      BY <1>4, TableKept, Zenon
    <3> QED
      BY <3>1, <3>2
  <2> QED
    BY <1>4, <2>1, ArgumentsKept DEF Tables
<1>8. PICK L : L = LowBit'
  OBVIOUS
<1>9. L + WINDOW \in Nat /\ exponent_bits <= L + WINDOW
  <2>1. L = starting_limb * BITS + starting_window * WINDOW
    BY <1>4, <1>8 DEF LowBit
  <2>2. starting_limb * BITS \in Nat /\ starting_window * WINDOW \in Nat
    BY <1>5, Positions, SMT
  <2>3. L \in Nat /\ exponent_bits = L + starting_window_bits
    BY <1>5, <2>1, <2>2, SMT
  <2> QED
    BY <1>5, <2>3, Positions, SMT
<1>10. BeforeWindow(L) = [b \in Bases |-> 0]
  <2>1. ASSUME NEW b \in Bases PROVE Above(b, L + WINDOW) = 0
    <3>1. e(b) \in Nat
      BY <1>1, ArgumentFacts
    <3> QED
      BY <1>5, <1>9, <3>1, NothingAbove DEF Above, Considered
  <2> QED
    BY <2>1 DEF BeforeWindow
<1>11. Stands(z', ProductOfPowers(BeforeWindow(LowBit))', m')
  <2>1. PICK n : n = BeforeWindow(L)
    OBVIOUS
  <2>2. BeforeWindow(LowBit)' = n
    <3>1. BeforeWindow(LowBit)' = [b \in Bases |-> Above(b, L + WINDOW)']
      BY <1>4, <1>8, ArgumentsKept DEF BeforeWindow, Above, Considered, e
    <3>2. \A b \in Bases : Above(b, L + WINDOW)' = Above(b, L + WINDOW)
      BY <1>4, ExponentsKept
    <3> QED
      BY <2>1, <3>1, <3>2 DEF BeforeWindow
  <2>3. ProductOfPowers(n)' = 1 % m
    BY <1>1, <1>4, <1>10, <2>1, ProductOfZeros, PowersKept
  <2>4. ProductOfPowers(BeforeWindow(LowBit))' = 1 % m
    BY <2>2, <2>3
  <2> QED
    BY <1>2, <1>4, <2>4, ArgumentsKept
<1>12. Looping'
  BY <1>3, <1>4, <1>6, <1>7, <1>11, ArgumentsKept DEF Looping
<1>13. TypeOK'
  <2>1. powers' \in [Bases -> [0..(WINDOW_COUNT - 1) -> Uint]]
    <3>1. ASSUME NEW b \in Bases
          PROVE  compute_powers(x(b)) \in [0..(WINDOW_COUNT - 1) -> Uint]
      <4>1. x(b) \in Uint
        BY <1>1, ArgumentFacts
      <4> QED
        BY <1>1, <4>1, TableIs
    <3> QED
      BY <1>4, <3>1
  <2> QED
    BY <1>1, <1>3, <1>4, <1>5, <2>1, ArgumentsKept DEF TypeOK
<1> QED
  BY <1>1, <1>4, <1>12, <1>13, ArgumentsKept DEF Inv

\* The squarings.
LEMMA WindowEntered ==
    ASSUME Inv, Window
    PROVE  Inv'
<1>1. Arguments /\ TypeOK /\ bits \in Nat /\ z \in Uint /\ pc = "window"
  BY TypedArguments DEF Inv, TypeOK, Window
<1>2. /\ UNCHANGED params /\ z' = IF AtStart THEN z ELSE Squared(z)
      /\ i' = 1 /\ pc' = "multiply"
      /\ powers' = powers /\ limb_num' = limb_num /\ window_num' = window_num
  BY DEF Window
<1>3. InReach /\ Tables
      /\ Stands(z, ProductOfPowers(BeforeWindow(LowBit)), m)
  BY <1>1 DEF Inv, Looping
<1>4. PICK L : L = LowBit
  OBVIOUS
<1>5. z' \in Uint /\ Stands(z', ProductOfPowers(WithinWindow(L, 1)), m)
  BY <1>1, <1>2, <1>3, <1>4, WindowSquares
<1>6. InReach' /\ LowBit' = L
  <2>1. AtStart' = AtStart /\ LowBit' = LowBit
    BY <1>2, ArgumentsKept DEF AtStart, LowBit, starting_limb, starting_window,
                               starting_bit_in_limb
  <2> QED
    BY <1>2, <1>3, <1>4, <2>1, ArgumentsKept DEF InReach
<1>7. Tables'
  <2>1. ASSUME NEW b \in Bases
        PROVE  compute_powers(x(b))' = compute_powers(x(b))
    BY <1>2, TableKept, Zenon
  <2> QED
    BY <1>2, <1>3, <2>1, ArgumentsKept DEF Tables
<1>8. Stands(z', ProductOfPowers(WithinWindow(LowBit, i))', m')
  <2>1. PICK n : n = WithinWindow(L, 1)
    OBVIOUS
  <2>2. WithinWindow(LowBit, i)' = n
    BY <1>2, <1>6, <2>1, ArgumentsKept DEF WithinWindow, Above, Considered, e
  <2>3. ProductOfPowers(n)' = ProductOfPowers(n)
    BY <1>2, PowersKept
  <2> QED
    BY <1>2, <1>5, <2>1, <2>2, <2>3, ArgumentsKept
<1>9. 1 \in Bases /\ 1 \in 0..(K + 1)
  BY <1>1, ArgumentFacts, SMT DEF Bases
<1>10. Looping'
  BY <1>2, <1>6, <1>7, <1>8, <1>9, ArgumentsKept DEF Looping
<1>11. TypeOK'
  BY <1>1, <1>2, <1>5, <1>9, ArgumentsKept DEF TypeOK
<1> QED
  BY <1>1, <1>2, <1>10, <1>11, ArgumentsKept DEF Inv

\* The next window lies in reach, and its low bit a window below.
LEMMA NextInReach ==
    ASSUME InReach, UNCHANGED params, window_num > 0 \/ limb_num > 0,
           IF window_num > 0
             THEN window_num' = window_num - 1 /\ UNCHANGED limb_num
             ELSE /\ window_num' = BITS_PER_WINDOW - 1
                  /\ limb_num' = limb_num - 1
    PROVE  InReach' /\ LowBit' + WINDOW = LowBit
<1> DEFINE G == BITS_PER_WINDOW
<1>1. /\ BITS \in Nat /\ WINDOW \in Nat /\ G \in Nat /\ G > 0
      /\ BITS = WINDOW * G /\ RHS_LIMBS \in Nat
  BY Positions
<1> HIDE DEF G
<1>2. limb_num \in 0..(RHS_LIMBS - 1) /\ window_num \in 0..(G - 1)
      /\ bits \in Nat /\ exponent_bits > 0
  BY DEF InReach, G
<1>3. /\ limb_num' \in 0..(RHS_LIMBS - 1) /\ window_num' \in 0..(G - 1)
      /\ limb_num' * BITS + window_num' * WINDOW + WINDOW
           = limb_num * BITS + window_num * WINDOW
  <2>1. CASE window_num > 0
    <3>1. limb_num' = limb_num /\ window_num' = window_num - 1
      BY <2>1
    <3>2. window_num' \in 0..(G - 1)
      BY <1>1, <1>2, <2>1, <3>1, SMT
    <3>3. (window_num - 1) * WINDOW + WINDOW = window_num * WINDOW
          /\ (window_num - 1) * WINDOW \in Int /\ limb_num * BITS \in Int
      BY <1>1, <1>2, SMT
    <3> QED
      BY <1>2, <1>1, <3>1, <3>2, <3>3, SMT
  <2>2. CASE ~(window_num > 0)
    <3>1. limb_num' = limb_num - 1 /\ window_num' = G - 1
          /\ window_num = 0 /\ limb_num > 0
      BY <1>1, <1>2, <2>2, SMT DEF G
    <3>2. limb_num' \in 0..(RHS_LIMBS - 1) /\ window_num' \in 0..(G - 1)
      BY <1>1, <1>2, <3>1, SMT
    <3>3. (G - 1) * WINDOW + WINDOW = BITS
      BY <1>1, SMT
    <3>4. (limb_num - 1) * BITS + BITS = limb_num * BITS
          /\ (limb_num - 1) * BITS \in Int /\ (G - 1) * WINDOW \in Int
          /\ window_num * WINDOW = 0 /\ limb_num * BITS \in Int
      BY <1>1, <1>2, <3>1, SMT
    <3> DEFINE p == (limb_num - 1) * BITS
               q == (G - 1) * WINDOW
               r == limb_num * BITS
    <3>5. p \in Int /\ q \in Int /\ r \in Int /\ q + WINDOW = BITS /\ p + BITS = r
      BY <3>3, <3>4
    <3> HIDE DEF p, q, r
    <3>6. p + q + WINDOW = r + 0
      BY <1>1, <3>5, SMT
    <3>7. limb_num' * BITS + window_num' * WINDOW + WINDOW = r + 0
      BY <3>1, <3>6 DEF p, q
    <3> QED
      BY <3>2, <3>4, <3>7 DEF r
  <2> QED
    BY <2>1, <2>2
<1>4. LowBit' + WINDOW = LowBit
  BY <1>3 DEF LowBit
<1>5. LowBit < exponent_bits
  BY ReachFacts
<1>6. bits' \in Nat /\ exponent_bits' > 0 /\ exponent_bits' = exponent_bits
  BY <1>2, ArgumentsKept
<1> QED
  BY <1>3, <1>4, <1>5, <1>6 DEF InReach, G

\* The product by a table's entry; after the last base the next window or the
\* end.
LEMMA BaseMultiplied ==
    ASSUME Inv, Multiply
    PROVE  Inv'
<1>1. Arguments /\ TypeOK /\ bits \in Nat /\ z \in Uint /\ pc = "multiply"
      /\ variant \in {"ct", "vartime", "amm"}
  BY TypedArguments DEF Inv, TypeOK, Multiply
<1>2. /\ InReach /\ Tables /\ i \in Bases
      /\ Stands(z, ProductOfPowers(WithinWindow(LowBit, i)), m)
  BY <1>1 DEF Inv, Looping
<1>3. UNCHANGED params /\ powers' = powers /\ i' = i + 1
  BY DEF Multiply
<1>4. PICK L : L = LowBit
  OBVIOUS
<1> DEFINE v == Multiplied
<1>5. /\ v \in Uint
      /\ Stands(v, ProductOfPowers(WithinWindow(L, i + 1)), m)
      /\ variant = "amm" => v < 3 * m
      /\ variant \notin {"amm", "vartime"} => v < m
  BY <1>1, <1>2, <1>4, DigitMultiplied
<1>6. K \in Nat /\ K > 0 /\ Bases = 1..K /\ i \in Nat /\ i <= K /\ i' \in 0..(K + 1)
  BY <1>1, <1>2, <1>3, ArgumentFacts, SMT DEF Bases
<1>7. Tables'
  <2>1. ASSUME NEW b \in Bases
        PROVE  compute_powers(x(b))' = compute_powers(x(b))
    BY <1>3, TableKept, Zenon
  <2> QED
    BY <1>2, <1>3, <2>1, ArgumentsKept DEF Tables
<1>8. CASE i < K
  <2>1. z' = v /\ limb_num' = limb_num /\ window_num' = window_num /\ pc' = pc
    BY <1>8 DEF Multiply
  <2> HIDE DEF v
  <2>2. InReach' /\ LowBit' = L
    <3>1. AtStart' = AtStart /\ LowBit' = LowBit
      BY <1>3, <2>1, ArgumentsKept
         DEF AtStart, LowBit, starting_limb, starting_window, starting_bit_in_limb
    <3> QED
      BY <1>2, <1>3, <1>4, <2>1, <3>1, ArgumentsKept DEF InReach
  <2>3. Stands(z', ProductOfPowers(WithinWindow(LowBit, i))', m')
    <3>1. PICK n : n = WithinWindow(L, i + 1)
      OBVIOUS
    <3>2. WithinWindow(LowBit, i)' = n
      BY <1>3, <2>2, <3>1, ArgumentsKept DEF WithinWindow, Above, Considered, e
    <3>3. ProductOfPowers(n)' = ProductOfPowers(n)
      BY <1>3, PowersKept
    <3> QED
      BY <1>3, <1>5, <2>1, <3>1, <3>2, <3>3, ArgumentsKept
  <2>4. i' \in Bases
    BY <1>3, <1>6, <1>8, SMT
  <2>5. Looping'
    BY <1>1, <1>3, <1>7, <2>1, <2>2, <2>3, <2>4, ArgumentsKept DEF Looping
  <2>6. TypeOK'
    BY <1>1, <1>3, <1>5, <1>6, <2>1, ArgumentsKept DEF TypeOK
  <2> QED
    BY <1>1, <1>3, <2>1, <2>5, <2>6, ArgumentsKept DEF Inv
<1>9. CASE ~(i < K)
  <2>1. NextWindow(v)
    BY <1>9 DEF Multiply
  <2> HIDE DEF v
  <2>2. i = K
    BY <1>6, <1>9, SMT
  <2>3. WithinWindow(L, i + 1) = AfterWindow(L)
    BY <1>1, <1>2, <1>4, <1>6, <2>2, ExponentTypes
  <2>4. CASE window_num > 0 \/ limb_num > 0
    <3>1. /\ z' = v /\ pc' = "window"
          /\ IF window_num > 0
               THEN window_num' = window_num - 1 /\ UNCHANGED limb_num
               ELSE /\ window_num' = BITS_PER_WINDOW - 1
                    /\ limb_num' = limb_num - 1
      BY <2>1, <2>4 DEF NextWindow
    <3>2. InReach' /\ LowBit' + WINDOW = L
      BY <1>2, <1>3, <1>4, <2>4, <3>1, NextInReach
    <3>3. Stands(z', ProductOfPowers(BeforeWindow(LowBit))', m')
      <4>1. PICK n : n = AfterWindow(L)
        OBVIOUS
      <4>2. BeforeWindow(LowBit)' = n
        BY <1>3, <3>2, <4>1, ArgumentsKept
           DEF BeforeWindow, AfterWindow, Above, Considered, e
      <4>3. ProductOfPowers(n)' = ProductOfPowers(n)
        BY <1>3, PowersKept
      <4> QED
        BY <1>3, <1>5, <2>3, <3>1, <4>1, <4>2, <4>3, ArgumentsKept
    <3>4. Looping'
      BY <1>3, <1>5, <1>7, <3>1, <3>2, <3>3, ArgumentsKept DEF Looping
    <3>5. TypeOK'
      BY <1>1, <1>3, <1>5, <1>6, <3>1, <3>2, ArgumentsKept DEF TypeOK, InReach
    <3> QED
      BY <1>1, <1>3, <3>1, <3>4, <3>5, ArgumentsKept DEF Inv
  <2>5. CASE ~(window_num > 0 \/ limb_num > 0)
    <3>1. /\ z' = IF variant = "amm" THEN almost_montgomery_reduce(v, m) ELSE v
          /\ pc' = "done" /\ limb_num' = limb_num /\ window_num' = window_num
      BY <2>1, <2>5 DEF NextWindow
    <3>2. L = 0
      <4>1. limb_num = 0 /\ window_num = 0 /\ BITS \in Nat /\ WINDOW \in Nat
        BY <1>2, <2>5, Positions, SMT DEF InReach
      <4>2. 0 * BITS + 0 * WINDOW = 0
        BY <4>1, SMT
      <4> QED
        BY <1>4, <4>1, <4>2 DEF LowBit
    <3>3. AfterWindow(L) = AskedFor
      <4>1. ASSUME NEW b \in Bases PROVE Above(b, 0) = Considered(b)
        <5>1. exponent_bits \in Nat /\ e(b) \in Nat
          BY <1>1, <1>2, ReachFacts, ArgumentFacts
        <5>2. Considered(b) \in 0..(PowerOfTwo(exponent_bits) - 1)
          BY <5>1, BitDigits DEF Considered
        <5>3. PowerOfTwo(exponent_bits) \in Nat /\ PowerOfTwo(0) = 1
          BY <5>1, PowerDoubles
        <5> DEFINE c == Considered(b)
        <5>4. c \in Nat /\ Above(b, 0) = c \div 1
          BY <5>2, <5>3 DEF Above
        <5> HIDE DEF c
        <5>5. c \div 1 = c
          BY <5>4, SMT
        <5> QED
          BY <5>4, <5>5 DEF c
      <4> QED
        BY <3>2, <4>1 DEF AfterWindow, AskedFor
    <3> DEFINE P == ProductOfPowers(AskedFor)
    <3>4. Stands(v, P, m)
      BY <1>5, <2>3, <3>3
    <3>5. z' \in Uint /\ Stands(z', P, m) /\ (variant # "vartime" => z' < m)
      <4> HIDE DEF P
      <4>1. CASE variant = "amm"
        BY <1>1, <1>5, <3>1, <3>4, <4>1, ReducedTwice
      <4>2. CASE variant # "amm"
        BY <1>1, <1>5, <3>1, <3>4, <4>2
      <4> QED
        BY <4>1, <4>2
    <3>6. Finished'
      <4>1. PICK n : n = AskedFor
        OBVIOUS
      <4>2. AskedFor' = n
        BY <1>3, <4>1, ExponentsKept
      <4>3. ProductOfPowers(n)' = ProductOfPowers(n)
        BY <1>3, PowersKept
      <4>4. ProductOfPowers(AskedFor)' = P
        BY <4>1, <4>2, <4>3
      <4> QED
        BY <1>3, <3>5, <4>4, ArgumentsKept DEF Finished
    <3>7. TypeOK'
      BY <1>1, <1>3, <1>6, <3>1, <3>5, ArgumentsKept DEF TypeOK
    <3> QED
      BY <1>1, <1>3, <3>1, <3>6, <3>7, ArgumentsKept DEF Inv
  <2> QED
    BY <2>4, <2>5
<1> QED
  BY <1>8, <1>9

\* Nothing changes after the return.
LEMMA Unchanging ==
    ASSUME Inv, UNCHANGED vars
    PROVE  Inv'
<1>1. UNCHANGED params /\ powers' = powers /\ z' = z /\ limb_num' = limb_num
      /\ window_num' = window_num /\ i' = i /\ pc' = pc
  BY DEF vars, params
<1>2. TypeOK /\ bits \in Nat
  BY DEF Inv
<1>3. InReach => InReach'
  <2>1. AtStart' = AtStart /\ LowBit' = LowBit
    BY <1>1, ArgumentsKept
       DEF AtStart, LowBit, starting_limb, starting_window, starting_bit_in_limb
  <2> QED
    BY <1>1, <2>1, ArgumentsKept DEF InReach
<1>4. Tables => Tables'
  <2>1. ASSUME NEW b \in Bases
        PROVE  compute_powers(x(b))' = compute_powers(x(b))
    BY <1>1, TableKept, Zenon
  <2> QED
    BY <1>1, <2>1, ArgumentsKept DEF Tables
<1>5. PICK l : l = BeforeWindow(LowBit)
  OBVIOUS
<1>6. PICK n : n = WithinWindow(LowBit, i)
  OBVIOUS
<1>7. PICK k : k = AskedFor
  OBVIOUS
<1>8. LowBit' = LowBit
  BY <1>1 DEF LowBit
<1>9. /\ BeforeWindow(LowBit)' = l
      /\ WithinWindow(LowBit, i)' = n
      /\ AskedFor' = k
  BY <1>1, <1>5, <1>6, <1>7, <1>8, ArgumentsKept
     DEF BeforeWindow, WithinWindow, AskedFor, Above, Considered, e
<1>10. /\ ProductOfPowers(BeforeWindow(LowBit))' = ProductOfPowers(l)
       /\ ProductOfPowers(WithinWindow(LowBit, i))' = ProductOfPowers(n)
       /\ ProductOfPowers(AskedFor)' = ProductOfPowers(k)
  <2>1. /\ ProductOfPowers(l)' = ProductOfPowers(l)
        /\ ProductOfPowers(n)' = ProductOfPowers(n)
        /\ ProductOfPowers(k)' = ProductOfPowers(k)
    BY <1>1, PowersKept
  <2> QED
    BY <1>9, <2>1
<1>11. Looping => Looping'
  BY <1>1, <1>3, <1>4, <1>5, <1>6, <1>10, ArgumentsKept DEF Looping
<1>12. Finished => Finished'
  BY <1>1, <1>7, <1>10, ArgumentsKept DEF Finished
<1>13. TypeOK'
  BY <1>1, <1>2, ArgumentsKept DEF TypeOK
<1> QED
  BY <1>1, <1>2, <1>11, <1>12, <1>13, ArgumentsKept DEF Inv

THEOREM Invariance == Spec => []Inv
<1>1. Init => Inv
  BY Initially
<1>2. Inv /\ [Next]_vars => Inv'
  <2> SUFFICES ASSUME Inv, [Next]_vars PROVE Inv'
    OBVIOUS
  <2>1. CASE ReturnOne
    BY <2>1, NothingAsked
  <2>2. CASE Start
    BY <2>2, Started
  <2>3. CASE Window
    BY <2>3, WindowEntered
  <2>4. CASE Multiply
    BY <2>4, BaseMultiplied
  <2>5. CASE Returned
    BY <2>5, Unchanging DEF Returned
  <2>6. CASE UNCHANGED vars
    BY <2>6, Unchanging
  <2> QED
    BY <2>1, <2>2, <2>3, <2>4, <2>5, <2>6 DEF Next
<1> QED
  BY <1>1, <1>2, PTL DEF Spec

----------------------------------------------------------------------------
(* What the routines promise.                                              *)

\* Before and within each window the accumulated power is exact: it stands for
\* the bits of the exponents above the windows still to come, and within a
\* window for this window's digits of the bases whose turn is over.
THEOREM PrefixesExact == Spec => []PrefixPower
<1>1. Inv => PrefixPower
  <2> SUFFICES ASSUME Inv PROVE PrefixPower
    OBVIOUS
  <2>1. TypeOK
    BY DEF Inv
  <2>2. ASSUME pc = "window"
        PROVE  z % m = (ProductOfPowers([b \in Bases |-> Above(b, LowBit + WINDOW)])
                          * R) % m
    BY <2>2 DEF Inv, Looping, Stands, BeforeWindow
  <2>3. ASSUME pc = "multiply"
        PROVE  z % m = (ProductOfPowers(
                          [b \in Bases |->
                              IF b < i THEN Above(b, LowBit)
                              ELSE Above(b, LowBit + WINDOW) * WINDOW_COUNT])
                          * R) % m
    BY <2>3 DEF Inv, Looping, Stands, WithinWindow
  <2>4. CASE pc = "window"
    BY <2>1, <2>2, <2>4 DEF PrefixPower
  <2>5. CASE pc = "multiply"
    BY <2>1, <2>3, <2>5 DEF PrefixPower
  <2>6. CASE pc \notin {"window", "multiply"}
    BY <2>1, <2>6 DEF PrefixPower
  <2> QED
    BY <2>4, <2>5, <2>6
<1> QED
  BY <1>1, Invariance, PTL

\* What is returned stands for the product of the bases raised to the bits of
\* their exponents that the call asked for.
THEOREM PowerReturned == Spec => []ResultIsPower
<1>1. Inv => ResultIsPower
  BY DEF Inv, Finished, Stands, AskedFor, ResultIsPower
<1> QED
  BY <1>1, Invariance, PTL

\* In almost Montgomery form a table's entry exceeds the modulus by one
\* multiple at most and the accumulated power, at each window, by two.
THEOREM ErrorsBounded == Spec => []AmmErrorsBounded
<1>1. Inv => AmmErrorsBounded
  <2> SUFFICES ASSUME Inv, variant = "amm", pc \in {"window", "multiply"}
               PROVE  /\ \A n \in 0..(WINDOW_COUNT - 1) : powers[1][n] \div m <= 1
                      /\ pc = "window" => z \div m <= 2
    BY DEF AmmErrorsBounded
  <2>1. Arguments /\ Looping /\ m \in Nat /\ m > 0 /\ z \in Uint
    BY TypedArguments DEF Inv, TypeOK, Arguments, Modulus
  <2>2. ASSUME NEW a \in Nat, NEW c \in Nat, a < (c + 1) * m
        PROVE  a \div m <= c
    <3> DEFINE q == a \div m
    <3>1. q \in Int /\ a = m * q + (a % m) /\ a % m \in Nat
      BY <2>1, DivMod
    <3> HIDE DEF q
    <3>2. m * q <= a /\ m * q \in Int /\ m * (c + 1) = (c + 1) * m
      BY <2>1, <3>1, SMT
    <3>3. m * q < m * (c + 1)
      BY <2>1, <2>2, <3>2, SMT
    <3>4. q < c + 1
      BY <2>1, <3>1, <3>3, Cancel
    <3>5. q <= c
      BY <3>1, <3>4, SMT
    <3> QED
      BY <3>5 DEF q
  <2>3. ASSUME NEW n \in 0..(WINDOW_COUNT - 1) PROVE powers[1][n] \div m <= 1
    <3>1. 1 \in Bases
      BY <2>1, ArgumentFacts, SMT DEF Bases
    <3> DEFINE p == powers[1]
               v == Residue(x(1))
    <3>2. /\ x(1) \in 0..(m - 1) /\ x(1) \in Uint
          /\ v \in 0..(m - 1) /\ Stands(x(1), v, m)
      BY <2>1, <3>1, ArgumentFacts
    <3>3. p = compute_powers(x(1))
      BY <2>1, <3>1 DEF Looping, Tables
    <3> HIDE DEF p, v
    <3>4. p[n] < 2 * m /\ p[n] \in Uint
      <4>1. p[n] < 2 * m
        BY <2>1, <3>2, <3>3, TableEntries
      <4>2. p \in [0..(WINDOW_COUNT - 1) -> Uint]
        BY <2>1, <3>2, <3>3, TableIs
      <4> QED
        BY <4>1, <4>2
    <3>5. p[n] \in Nat /\ 1 \in Nat /\ 2 = 1 + 1
      BY <3>4 DEF Uint
    <3>6. p[n] \div m <= 1
      BY <2>2, <3>4, <3>5
    <3> QED
      BY <3>6 DEF p
  <2>4. ASSUME pc = "window" PROVE z \div m <= 2
    <3>1. z < 3 * m /\ z \in Nat /\ 2 \in Nat /\ 3 = 2 + 1
      BY <2>1, <2>4 DEF Looping, Uint
    <3> QED
      BY <2>2, <3>1
  <2> QED
    BY <2>3, <2>4
<1> QED
  BY <1>1, Invariance, PTL

\* What the constant-time and the almost Montgomery variants return is reduced.
THEOREM Reduced == Spec => []ResultReduced
<1>1. Inv => ResultReduced
  BY DEF Inv, Finished, ResultReduced
<1> QED
  BY <1>1, Invariance, PTL
=============================================================================
