-------------------------- MODULE MontyLimbsProofs --------------------------
(***************************************************************************)
(* The inner loops of Montgomery arithmetic, for every word base, number   *)
(* of limbs, modulus and operands: no carry is lost, no wide sum that is   *)
(* meant to fit overflows, and each loop leaves what the routines built on *)
(* it expect.                                                              *)
(***************************************************************************)
EXTENDS MontyLimbs, LimbsProofs

----------------------------------------------------------------------------
(* Rows on plain numbers.                                                  *)

\* The lowest limb is the remainder by the base.
LEMMA LowestLimb ==
    ASSUME NEW v \in Nat
    PROVE  /\ W[1] = B /\ Limb(v, 0) = v % B /\ v % W[1] = v % B
           /\ v % B \in Word /\ v % W[0] = 0
           /\ \E h \in Nat : v = B * h + Limb(v, 0)
<1>1. /\ W[0] = 1 /\ B \in Nat /\ B > 0
      /\ 0 \in 0..(2 * N) /\ 0 < 2 * N /\ 0 \in 0..(2 * N - 1) /\ v \in Int /\ v >= 0
  BY BaseFacts, WeightAssumption, SMT
<1>2. W[0 + 1] = B * W[0]
  BY <1>1, WeightFacts
<1>3. W[1] = B
  BY <1>1, <1>2, SMT
<1>4. v \div 1 = v /\ v % 1 = 0
  BY SMT
<1>5. Limb(v, 0) = v % B
  BY <1>1, <1>4 DEF Limb
<1>6. v % B \in Word /\ v \div B \in Nat /\ v = B * (v \div B) + (v % B)
  <2>1. /\ v % B \in Nat /\ v % B < B /\ v \div B \in Nat
        /\ v = B * (v \div B) + (v % B)
    BY <1>1, DivMod
  <2> QED
    BY <2>1, <1>1, SMT DEF Word
<1> QED
  BY <1>1, <1>3, <1>4, <1>5, <1>6

\* A number of N limbs is its low N limbs.
LEMMA LowIsAll ==
    ASSUME NEW v \in Uint
    PROVE  v \in Nat /\ v % R = v /\ v % W[N] = v
<1>1. v \in Nat /\ v \in Int /\ R \in Nat /\ R > 0 /\ v \in 0..(R - 1)
      /\ v = R * 0 + v
  BY BaseFacts, SMT DEF Uint
<1>2. v % R = v
  BY <1>1, DivisionIs
<1> QED
  BY <1>1, <1>2 DEF R

\* What a row adds up in the lowest limb before the modulus.
LowestSum(acc1, x1, y1) == x1 * Limb(y1, 0) + Limb(acc1, 0)

\* A row starts with a multiple of the modulus that clears the lowest limb, and
\* the lowest limbs alone determine it.
LEMMA RowStarts ==
    ASSUME NEW acc1 \in Nat, NEW xi \in Nat, NEW y1 \in Nat, NEW m1 \in Nat,
           NEW k1 \in Nat, IsModNegInv(k1, m1),
           NEW s, s = LowestSum(acc1, xi, y1),
           NEW u1, u1 = ((s % B) * k1) % B
    PROVE  /\ u1 \in Word /\ s \in Nat
           /\ (u1 * Limb(m1, 0) + s) % B = 0
           /\ u1 = wrapping_mul(Lo(acc1 + xi * y1), k1)
<1>1. B \in Nat /\ B > 0
  BY BaseFacts, SMT
<1> DEFINE y0 == Limb(y1, 0)
           a0 == Limb(acc1, 0)
           m0 == Limb(m1, 0)
<1>2. PICK yh \in Nat : y1 = B * yh + y0
  BY LowestLimb
<1>3. PICK ah \in Nat : acc1 = B * ah + a0
  BY LowestLimb
<1>4. PICK mh \in Nat : m1 = B * mh + m0
  BY LowestLimb
<1>5. y0 \in Nat /\ a0 \in Nat /\ m0 \in Nat
  <2>1. y0 \in Word /\ a0 \in Word /\ m0 \in Word
    BY LowestLimb
  <2> QED
    BY <2>1, <1>1, SMT DEF Word
<1>6. s = xi * y0 + a0
  BY DEF LowestSum
<1> HIDE DEF y0, a0, m0
<1>7. s \in Nat
  BY <1>5, <1>6, SMT
<1>8. u1 \in Word /\ \E z \in Nat : s + u1 * m1 = B * z
  BY <1>7, ClearsLowLimb
<1>9. PICK z \in Nat : s + u1 * m1 = B * z
  BY <1>8
<1>10. (u1 * m0 + s) % B = 0
  <2> DEFINE v == u1 * m0 + s
             w == z - u1 * mh
  <2>1. u1 \in Nat
    BY <1>1, <1>8, SMT DEF Word
  <2>2. u1 * (B * mh + m0) = B * (u1 * mh) + u1 * m0
    BY <2>1, <1>1, <1>5, SMT
  <2>3. B * (z - u1 * mh) = B * z - B * (u1 * mh)
    BY <2>1, <1>1, SMT
  <2>4. v \in Int /\ w \in Int /\ v = B * w + 0 /\ 0 \in 0..(B - 1)
    BY <2>1, <2>2, <2>3, <1>1, <1>4, <1>5, <1>7, <1>9, SMT
  <2> HIDE DEF v, w
  <2>5. v % B = 0
    BY <2>4, <1>1, DivisionIs
  <2> QED
    BY <2>5 DEF v
<1>11. (acc1 + xi * y1) % B = s % B
  <2> DEFINE a1 == acc1 + xi * y1
             e == ah + xi * yh
  <2>1. xi * (B * yh + y0) = B * (xi * yh) + xi * y0
    BY <1>1, <1>5, SMT
  <2>2. B * (ah + xi * yh) = B * ah + B * (xi * yh) /\ e * B = B * e
    BY <1>1, SMT
  <2>3. xi * y1 \in Int /\ xi * y0 \in Int /\ B * (xi * yh) \in Int
        /\ B * ah \in Int /\ xi * yh \in Int
    BY <1>1, <1>5, SMT
  <2>4. a1 \in Int /\ e \in Int /\ s \in Int /\ a1 = s + e * B
    BY <2>1, <2>2, <2>3, <1>1, <1>2, <1>3, <1>5, <1>6, <1>7, SMT
  <2> HIDE DEF a1, e
  <2>5. a1 % B = s % B
    BY <2>4, <1>1, SameResidue
  <2> QED
    BY <2>5 DEF a1
<1> QED
  BY <1>7, <1>8, <1>10, <1>11 DEF m0, wrapping_mul, Lo

\* Word and carry of an exact sum.
LEMMA SumParts ==
    ASSUME NEW s \in Nat
    PROVE  /\ s % B \in Word /\ s \div B \in Nat
           /\ (s % B) + B * (s \div B) = s
<1>1. B \in Nat /\ B > 0 /\ s \in Int /\ s >= 0
  BY BaseFacts, SMT
<1>2. s % B \in Nat /\ s % B < B /\ s \div B \in Nat
      /\ s = B * (s \div B) + (s % B)
  BY <1>1, DivMod
<1> QED
  BY <1>1, <1>2, SMT DEF Word

\* The same when the low word of the sum is zero.
LEMMA ClearedParts ==
    ASSUME NEW s \in Nat, s % B = 0
    PROVE  s \div B \in Nat /\ B * (s \div B) = s
<1> DEFINE c == s \div B
<1>1. c \in Nat /\ 0 + B * c = s
  BY SumParts
<1> HIDE DEF c
<1>2. B * c = s
  BY <1>1, BaseFacts, SMT
<1> QED
  BY <1>1, <1>2 DEF c

----------------------------------------------------------------------------
(* Multiplication: Fios.                                                   *)

\* A sum of wide words, with the bit it overflows by, is shifted down exactly.
LEMMA WideSum ==
    ASSUME NEW a \in Nat, NEW b \in Nat, a < B * B, b < B * B
    PROVE  /\ Mul!wide(a) = a
           /\ Mul!Lo(Mul!wide_overflowing_add(a, b)[1]) = (a + b) % B
           /\ Mul!CarryOf(Mul!wide_overflowing_add(a, b)) = (a + b) \div B
<1> DEFINE BB == B * B
           v  == a + b
           h  == IF v >= BB THEN 1 ELSE 0
           w  == v - BB * h
           e  == w \div B
           r  == w % B
<1>1. B \in Nat /\ B > 0 /\ BB \in Nat /\ BB > 0 /\ BB = B * B
      /\ a < BB /\ b < BB
  BY BaseFacts, SMT
<1> HIDE DEF BB
<1>2. v \in Int /\ h \in {0, 1} /\ w \in 0..(BB - 1) /\ v = BB * h + w
  BY <1>1, SMT
<1> HIDE DEF h
<1>3. v % BB = w
  <2> HIDE DEF v, w
  <2> QED
    BY <1>1, <1>2, DivisionIs, SMT
<1>4. a % BB = a
  <2>1. a \in Int /\ 0 \in Int /\ a = BB * 0 + a /\ a \in 0..(BB - 1)
    BY <1>1, SMT
  <2> QED
    BY <2>1, <1>1, DivisionIs
<1>5. e \in Nat /\ r \in 0..(B - 1) /\ w = B * e + r
  <2>1. w \in Int /\ w >= 0
    BY <1>1, <1>2, SMT
  <2> HIDE DEF w
  <2>2. /\ w % B \in Nat /\ w % B < B /\ w \div B \in Nat
        /\ w = B * (w \div B) + (w % B)
    BY <1>1, <2>1, DivMod
  <2> QED
    BY <2>2, <1>1, SMT
<1> HIDE DEF w, e, r
<1>6. v \div B = h * B + e /\ v % B = r
  <2> DEFINE f == h * B + e
  <2>1. (B * B) * h = B * (h * B)
    BY <1>1, <1>2, SMT
  <2>2. B * (h * B + e) = B * (h * B) + B * e
    BY <1>1, <1>2, <1>5, SMT
  <2>3. h * B \in Int /\ B * e \in Int
    BY <1>1, <1>2, <1>5, SMT
  <2>4. f \in Int /\ v = B * f + r
    BY <2>1, <2>2, <2>3, <1>1, <1>2, <1>5, SMT
  <2> HIDE DEF f, v
  <2>5. v \div B = f /\ v % B = r
    BY <2>4, <1>1, <1>2, <1>5, DivisionIs
  <2> QED
    BY <2>5 DEF f
<1>7. Mul!wide(a) = a
  BY <1>4 DEF Mul!wide, Mul!B, B, BB
<1>8. Mul!wide_overflowing_add(a, b) = <<w, h>>
  BY <1>3 DEF Mul!wide_overflowing_add, Mul!wide, Mul!B, B, BB, h
<1>9. Mul!Lo(w) = r /\ Mul!CarryOf(<<w, h>>) = h * B + e
  BY DEF Mul!Lo, Mul!CarryOf, Mul!Hi, Mul!B, B, r, e
<1> QED
  BY <1>6, <1>7, <1>8, <1>9

\* The bounds in the comments of the code: both wide sums of a limb fit, and
\* what they carry together is a word and one bit.
LEMMA WideBounds ==
    ASSUME NEW xi \in Word, NEW yl \in Word, NEW ol \in Word,
           NEW u1 \in Word, NEW ml \in Word, NEW c \in Nat, c <= 2 * B - 2
    PROVE  /\ xi * yl + ol \in Nat /\ xi * yl + ol <= B * B - B
           /\ xi * yl + ol < B * B
           /\ u1 * ml + c \in Nat /\ u1 * ml + c < B * B
           /\ ((xi * yl + ol) + (u1 * ml + c)) \div B \in Nat
           /\ ((xi * yl + ol) + (u1 * ml + c)) \div B <= 2 * B - 2
<1>1. B \in Nat /\ B >= 2 /\ xi \in Nat /\ yl \in Nat /\ ol \in Nat
      /\ u1 \in Nat /\ ml \in Nat
      /\ xi <= B - 1 /\ yl <= B - 1 /\ u1 <= B - 1 /\ ml <= B - 1
      /\ ol <= B - 1
  BY BaseFacts, SMT DEF Word
<1>2. ASSUME NEW a \in Nat, NEW b \in Nat, a <= B - 1, b <= B - 1
      PROVE  a * b \in Nat /\ a * b <= B * B - 2 * B + 1
  <2>1. a * b <= a * (B - 1) /\ (B - 1) * a <= (B - 1) * (B - 1)
    BY <1>1, <1>2, Monotone, SMT
  <2>2. a * (B - 1) = (B - 1) * a /\ (B - 1) * (B - 1) = B * B - 2 * B + 1
        /\ a * b \in Nat /\ (B - 1) * a \in Int /\ B * B \in Int
    BY <1>1, <1>2, SMT
  <2> QED
    BY <2>1, <2>2, <1>1, SMT
<1> DEFINE xy == xi * yl
           um == u1 * ml
           BB == B * B
           s  == (xy + ol) + (um + c)
<1>3. xy \in Nat /\ xy <= BB - 2 * B + 1 /\ um \in Nat /\ um <= BB - 2 * B + 1
      /\ BB \in Nat
  BY <1>1, <1>2, SMT
<1> HIDE DEF xy, um
<1>4. BB = B * (2 * B - 1) - B * (B - 1)
  BY <1>1, SMT
<1>5. xy + ol <= BB - B /\ um + c < BB /\ s <= 2 * BB - B - 1 /\ s \in Nat
  <2> HIDE DEF BB
  <2> QED
    BY <1>1, <1>3, SMT
<1>6. xy + ol < BB
  <2> HIDE DEF BB
  <2> QED
    BY <1>1, <1>3, <1>5, SMT
<1>7. s \div B \in Nat /\ s \div B <= 2 * B - 2
  <2> DEFINE e == s \div B
  <2>1. e \in Nat /\ (s % B) \in Word /\ (s % B) + B * e = s
    <3> HIDE DEF s
    <3> QED
      BY <1>5, SumParts
  <2>2. B * e <= s
    BY <2>1, <1>1, <1>5, SMT DEF Word
  <2>3. B * e < B * (2 * B - 1)
    <3>1. 2 * BB - B = B * (2 * B - 1)
      BY <1>1, SMT
    <3> HIDE DEF BB, s, e
    <3>2. B * e \in Int
      BY <1>1, <2>1, SMT
    <3> QED
      BY <2>2, <3>1, <3>2, <1>1, <1>3, <1>5, SMT
  <2> HIDE DEF e
  <2>4. e < 2 * B - 1
    <3>1. 2 * B - 1 \in Int /\ e \in Int
      BY <1>1, <2>1, SMT
    <3> QED
      BY <2>3, <3>1, <1>1, Cancel
  <2> QED
    BY <2>1, <2>4, <1>1, SMT DEF e
<1>8. xy + ol \in Nat /\ um + c \in Nat
  BY <1>1, <1>3, SMT
<1> QED
  BY <1>5, <1>6, <1>7, <1>8 DEF xy, um

\* The operators of the instance are those of Limbs.
LEMMA MulOps ==
    /\ Mul!B = B /\ Mul!R = R /\ Mul!Word = Word /\ Mul!Uint = Uint
    /\ Mul!WideWord = WideWord
    /\ \A v, l : Mul!Limb(v, l) = Limb(v, l)
    /\ \A v, l, w : Mul!SetLimb(v, l, w) = SetLimb(v, l, w)
    /\ \A v, w : Mul!wrapping_mul(v, w) = wrapping_mul(v, w)
    /\ \A v : Mul!Lo(v) = v % B /\ Mul!Hi(v) = v \div B
    /\ \A v, w : Mul!IsModNegInv(v, w) = IsModNegInv(v, w)
    BY DEF Mul!B, B, Mul!R, R, Mul!Word, Word, Mul!Uint, Uint, Mul!WideWord,
           WideWord, Mul!Limb, Limb, Mul!SetLimb, SetLimb, Mul!wrapping_mul,
           wrapping_mul, Mul!Lo, Mul!Hi, Mul!IsModNegInv, IsModNegInv

\* What is added below limb j of a row besides the multiple of the modulus.
FromFactor == Limb(x, i) * (y % W[j])

\* The inductive invariant of a multiplication.
MulInv ==
    /\ Mul!TypeOK /\ meta_carry = acc \div R
    /\ ExactRows(x, y, m, acc, q, i)
    /\ pc = "done" <=> i = N
    /\ pc \in {"row", "done"} => out = acc % R
    /\ pc \in {"limb", "top"} =>
        /\ j \in 1..N /\ (pc = "top" <=> j = N)
        /\ u = wrapping_mul(Lo(acc + Limb(x, i) * y), k)
        /\ carry <= 2 * B - 2
        /\ ExactLimbs(out, carry, acc % R, FromFactor, m, u, j)

\* What the invariant says of the types, in the words of Limbs.
LEMMA MulTypes ==
    ASSUME MulInv
    PROVE  /\ x \in Uint /\ y \in Uint /\ m \in Uint /\ m % 2 = 1
           /\ x \in Nat /\ y \in Nat /\ m \in Nat /\ acc \in Nat /\ q \in Nat
           /\ k \in Word /\ k \in Nat /\ IsModNegInv(k, m)
           /\ out \in Uint /\ out \in Nat /\ carry \in Nat /\ u \in Word /\ u \in Nat
           /\ i \in 0..N /\ j \in 0..N /\ acc < 2 * R /\ q < R
           /\ meta_carry \in {0, 1} /\ acc = (acc % R) + meta_carry * R
           /\ acc % R \in Uint /\ acc % R \in Nat
<1>1. R \in Nat /\ R > 0 /\ B \in Nat /\ B > 0
  BY BaseFacts, SMT
<1>2. /\ x \in Uint /\ y \in Uint /\ m \in Uint /\ m % 2 = 1
      /\ k \in Word /\ IsModNegInv(k, m)
      /\ out \in Uint /\ carry \in WideWord /\ u \in Word
      /\ i \in 0..N /\ j \in 0..N /\ acc \in 0..(2 * R - 1) /\ q \in Uint
  BY MulOps DEF MulInv, Mul!TypeOK
<1>3. /\ x \in Nat /\ y \in Nat /\ m \in Nat /\ acc \in Nat /\ q \in Nat
      /\ k \in Nat /\ out \in Nat /\ carry \in Nat /\ u \in Nat
      /\ acc < 2 * R /\ q < R
  BY <1>1, <1>2, SMT DEF Uint, Word, WideWord
<1>4. meta_carry = acc \div R
  BY DEF MulInv
<1>5. /\ acc \div R \in Nat /\ acc % R \in Nat /\ acc % R < R
      /\ acc = R * (acc \div R) + (acc % R)
  <2>1. acc \in Int /\ acc >= 0
    BY <1>3, SMT
  <2> QED
    BY <1>1, <2>1, DivMod
<1> DEFINE h == acc \div R
           l == acc % R
<1>6. h \in Nat /\ l \in Nat /\ l < R /\ acc = R * h + l
  BY <1>5
<1> HIDE DEF h, l
<1>7. h < 2
  <2>1. R * h < R * 2
    <3>1. R * h \in Int
      BY <1>1, <1>6, SMT
    <3> QED
      BY <3>1, <1>1, <1>3, <1>6, SMT
  <2> QED
    BY <2>1, <1>1, <1>6, Cancel
<1>8. meta_carry = h /\ h \in {0, 1}
  BY <1>4, <1>6, <1>7, SMT DEF h
<1>9. acc = l + meta_carry * R
  BY <1>1, <1>6, <1>8, SMT
<1>10. l \in Uint
  BY <1>1, <1>6, SMT DEF Uint
<1> QED
  BY <1>2, <1>3, <1>6, <1>8, <1>9, <1>10 DEF l

\* Before the first row nothing is accumulated.
LEMMA MulInitInv == m \in Moduli /\ Mul!Init => MulInv
<1> SUFFICES ASSUME m \in Moduli, Mul!Init PROVE MulInv
  OBVIOUS
<1>1. R \in Nat /\ R > 0 /\ B \in Nat /\ B > 0 /\ N \in Nat /\ N > 0
  BY BaseFacts, SMT
<1>2. /\ x \in Uint /\ y \in Uint /\ m \in Uint /\ m % 2 = 1
      /\ k \in Word /\ IsModNegInv(k, m)
      /\ out = 0 /\ meta_carry = 0 /\ i = 0 /\ j = 0 /\ u = 0 /\ carry = 0
      /\ pc = "row" /\ acc = 0 /\ q = 0
  BY MulOps DEF Mul!Init
<1>3. 0 \in Uint /\ 0 \in Word /\ 0 \in WideWord /\ 0 \in 0..N
      /\ 0 \in 0..(2 * R - 1)
  <2>1. B * B \in Nat /\ B * B > 0
    BY <1>1, SMT
  <2> QED
    BY <2>1, <1>1, SMT DEF Uint, Word, WideWord
<1>4. Mul!TypeOK
  BY <1>2, <1>3, MulOps DEF Mul!TypeOK
<1>5. ExactRows(x, y, m, acc, q, i)
  <2>1. x \in Nat /\ y \in Nat /\ m \in Nat /\ m > 0
    BY <1>1, <1>2, SMT DEF Uint
  <2>2. x % W[0] = 0 /\ W[0] = 1
    BY <2>1, LowestLimb, WeightAssumption
  <2> QED
    BY <2>1, <2>2, <1>2, SMT DEF ExactRows
<1>6. 0 \div R = 0 /\ 0 % R = 0
  <2>1. 0 = R * 0 + 0 /\ 0 \in 0..(R - 1) /\ 0 \in Int
    BY <1>1, SMT
  <2> QED
    BY <2>1, <1>1, DivisionIs
<1> QED
  BY <1>1, <1>2, <1>4, <1>5, <1>6 DEF MulInv

\* The first limb of a row.
LEMMA MulStartInv == MulInv /\ Mul!StartRow => MulInv'
<1> SUFFICES ASSUME MulInv, Mul!StartRow PROVE MulInv'
  OBVIOUS
<1> DEFINE xi == Limb(x, i)
           s == xi * Limb(y, 0) + Limb(out, 0)
<1>1. R \in Nat /\ R > 0 /\ B \in Nat /\ B >= 2 /\ N \in Nat /\ N > 0
  BY BaseFacts, SMT
<1>2. /\ pc = "row" /\ i < N /\ out = acc % R
      /\ meta_carry = acc \div R /\ ExactRows(x, y, m, acc, q, i)
      /\ i # N
  <2>1. pc = "row" /\ i # N
    BY DEF MulInv, Mul!StartRow
  <2>2. i \in 0..N
    BY MulTypes
  <2> QED
    BY <2>1, <2>2, <1>1, SMT DEF MulInv
<1>3. /\ i \in 0..(2 * N) /\ 0 \in 0..(2 * N) /\ N \in 0..(2 * N) /\ 0 \in 0..N
      /\ 0 < N
  BY <1>1, MulTypes, SMT
<1>4. xi \in Word /\ Limb(y, 0) \in Word /\ Limb(out, 0) \in Word
      /\ Limb(m, 0) \in Word
  BY <1>3, MulTypes, LimbType
<1>5. Limb(out, 0) = Limb(acc, 0)
  BY <1>2, <1>3, MulTypes, LowOfLow DEF R
<1>6. Mul!Axy(0) = s
  BY MulOps DEF Mul!Axy, Mul!xi
<1>7. s \in Nat /\ s < B * B
  BY <1>1, <1>4, WideBounds, SMT DEF Word
<1>8. Mul!wide(s) = s
  <2>1. 0 \in Nat /\ 0 < B * B
    BY <1>1, SMT
  <2> HIDE DEF s
  <2> QED
    BY <2>1, <1>7, WideSum
<1>9. /\ u' = ((s % B) * k) % B
      /\ carry' = Mul!CarryOf(Mul!wide_overflowing_add(u' * Limb(m, 0), s))
      /\ j' = 1 /\ pc' = (IF N = 1 THEN "top" ELSE "limb")
      /\ UNCHANGED <<x, y, m, k, out, meta_carry, i, acc, q>>
  BY <1>6, <1>8, MulOps DEF Mul!StartRow, Mul!params, wrapping_mul
<1>10. /\ u' \in Word /\ (u' * Limb(m, 0) + s) % B = 0
       /\ u' = wrapping_mul(Lo(acc + xi * y), k)
  <2>1. xi \in Nat
    BY <1>1, <1>4, SMT DEF Word
  <2>2. s = LowestSum(acc, xi, y)
    BY <1>5 DEF LowestSum
  <2>3. acc \in Nat /\ y \in Nat /\ m \in Nat /\ k \in Nat /\ IsModNegInv(k, m)
    BY MulTypes
  <2>4. u' = ((s % B) * k) % B
    BY <1>9
  <2> HIDE DEF s, xi
  <2> QED
    BY <2>1, <2>2, <2>3, <2>4, RowStarts
<1> DEFINE um == u' * Limb(m, 0)
<1>11. /\ um \in Nat /\ um < B * B
       /\ (s + um) \div B \in Nat /\ (s + um) \div B <= 2 * B - 2
  <2>1. 0 \in Nat /\ 0 <= 2 * B - 2
    BY <1>1, SMT
  <2>2. um + 0 \in Nat /\ um + 0 < B * B /\ (s + (um + 0)) \div B \in Nat
        /\ (s + (um + 0)) \div B <= 2 * B - 2
    BY <2>1, <1>4, <1>10, WideBounds
  <2>3. um \in Int
    BY <1>1, <1>4, <1>10, SMT DEF Word
  <2>4. um + 0 = um
    BY <2>3, SMT
  <2> QED
    BY <2>2, <2>4
<1>12. carry' = (um + s) \div B
  <2> HIDE DEF s, um
  <2> QED
    BY <1>7, <1>9, <1>11, WideSum DEF um
<1> DEFINE c == (um + s) \div B
<1>13. c \in Nat /\ c <= 2 * B - 2 /\ B * c = um + s
  <2>1. s + um = um + s /\ um + s \in Nat
    <3> HIDE DEF s, um
    <3> QED
      BY <1>7, <1>11, SMT
  <2>2. (um + s) % B = 0
    BY <1>10
  <2> HIDE DEF s, um
  <2> QED
    BY <2>1, <2>2, <1>11, ClearedParts
<1>14. ExactLimbs(out, c, acc % R, xi * (y % W[1]), m, u', 1)
  <2>1. out % W[0] = 0 /\ W[0] = 1 /\ out % W[1] = Limb(out, 0)
        /\ y % W[1] = Limb(y, 0) /\ m % W[1] = Limb(m, 0)
    BY MulTypes, LowestLimb, WeightAssumption
  <2>2. 1 - 1 = 0 /\ B * (0 + c * 1) = B * c
    BY <1>1, <1>13, SMT
  <2>3. B * c = Limb(out, 0) + xi * Limb(y, 0) + u' * Limb(m, 0)
    <3> DEFINE sy == xi * Limb(y, 0)
               o0 == Limb(out, 0)
    <3>1. sy \in Int /\ o0 \in Int /\ um \in Int /\ s = sy + o0
      BY <1>1, <1>4, <1>11, SMT DEF Word
    <3>2. B * c = um + s
      BY <1>13
    <3> HIDE DEF sy, o0, um, s, c
    <3>3. B * c = o0 + sy + um
      BY <3>1, <3>2, SMT
    <3> QED
      BY <3>3 DEF sy, o0, um
  <2> HIDE DEF c
  <2> QED
    BY <2>1, <2>2, <2>3, <1>2 DEF ExactLimbs
<1> HIDE DEF c, um, s
<1>15. carry' = c /\ c \in WideWord
  <2>1. 2 * B - 2 < B * B
    <3>1. B * 2 <= B * B
      BY <1>1, Monotone, SMT
    <3> QED
      BY <3>1, <1>1, SMT
  <2>2. B * B \in Int
    BY <1>1, SMT
  <2>3. c \in WideWord
    BY <2>1, <2>2, <1>1, <1>13, SMT DEF WideWord
  <2> QED
    BY <2>3, <1>12 DEF c
<1>16. Mul!TypeOK'
  <2>1. 1 \in 0..N
    BY <1>1, SMT
  <2> QED
    BY <2>1, <1>9, <1>10, <1>15, MulOps DEF MulInv, Mul!TypeOK
<1>17. /\ 1 \in 1..N /\ (pc' = "top" <=> 1 = N) /\ pc' \in {"limb", "top"}
       /\ pc' \notin {"row", "done"}
  BY <1>1, <1>9, SMT
<1>18. FromFactor' = xi * (y % W[1])
  BY <1>9 DEF FromFactor
<1> QED
  BY <1>2, <1>9, <1>10, <1>13, <1>14, <1>15, <1>16, <1>17, <1>18 DEF MulInv

\* A limb in the middle of a row.
LEMMA MulLimbInv == MulInv /\ Mul!NextLimb => MulInv'
<1> SUFFICES ASSUME MulInv, Mul!NextLimb PROVE MulInv'
  OBVIOUS
<1> DEFINE xi  == Limb(x, i)
           axy == xi * Limb(y, j) + Limb(out, j)
           umc == u * Limb(m, j) + carry
           s   == axy + umc
           p   == s % B
           c   == s \div B
           e   == xi * (y % W[j])
           d   == xi * Limb(y, j)
<1>1. R \in Nat /\ R > 0 /\ B \in Nat /\ B >= 2 /\ N \in Nat /\ N > 0
  BY BaseFacts, SMT
<1>2. /\ pc = "limb" /\ j \in 1..N /\ j # N /\ carry <= 2 * B - 2
      /\ u = wrapping_mul(Lo(acc + xi * y), k)
      /\ ExactLimbs(out, carry, acc % R, e, m, u, j)
      /\ meta_carry = acc \div R /\ ExactRows(x, y, m, acc, q, i) /\ i # N
  BY DEF MulInv, Mul!NextLimb, FromFactor
<1>3. /\ j \in 1..(N - 1) /\ j \in 0..(2 * N) /\ j \in 0..(2 * N - 1)
      /\ j + 1 \in 1..N /\ j + 1 \in 0..N /\ j - 1 \in 0..(N - 1)
      /\ i \in 0..(2 * N)
  BY <1>1, <1>2, MulTypes, SMT
<1>4. xi \in Word /\ Limb(y, j) \in Word /\ Limb(out, j) \in Word
      /\ Limb(m, j) \in Word
  BY <1>3, MulTypes, LimbType
<1>5. xi \in Nat /\ d \in Nat /\ e \in Nat /\ y % W[j] \in Nat
  <2>1. xi \in Nat /\ Limb(y, j) \in Nat
    BY <1>1, <1>4, SMT DEF Word
  <2>2. W[j] \in Nat /\ W[j] > 0 /\ y \in Int
    BY <1>3, MulTypes, WeightFacts, SMT
  <2>3. y % W[j] \in Nat
    BY <2>2, DivMod
  <2> QED
    BY <2>1, <2>3, SMT
<1>6. /\ axy \in Nat /\ axy < B * B /\ umc \in Nat /\ umc < B * B
      /\ c \in Nat /\ c <= 2 * B - 2
  <2>1. u \in Word /\ carry \in Nat
    BY MulTypes
  <2> QED
    BY <1>2, <1>4, <2>1, WideBounds
<1>7. Mul!Axy(j) = axy
  BY MulOps DEF Mul!Axy, Mul!xi
<1>8. Mul!wide(axy) = axy /\ Mul!wide(umc) = umc
      /\ Mul!Lo(Mul!wide_overflowing_add(axy, umc)[1]) = p
      /\ Mul!CarryOf(Mul!wide_overflowing_add(axy, umc)) = c
  <2> HIDE DEF axy, umc
  <2> QED
    BY <1>6, WideSum
<1>9. /\ out' = SetLimb(out, j - 1, p) /\ carry' = c
      /\ j' = j + 1 /\ pc' = (IF j + 1 = N THEN "top" ELSE "limb")
      /\ UNCHANGED <<x, y, m, k, meta_carry, i, u, acc, q>>
  <2> HIDE DEF axy, p, c
  <2> QED
    BY <1>7, <1>8, MulOps DEF Mul!NextLimb, Mul!params
<1>10. p \in Word /\ p + B * c = d + Limb(out, j) + u * Limb(m, j) + carry
  <2>1. s \in Nat
    BY <1>6, SMT
  <2>2. p \in Word /\ p + B * c = s
    <3> HIDE DEF s
    <3> QED
      BY <2>1, SumParts
  <2> DEFINE ol == Limb(out, j)
             um == u * Limb(m, j)
  <2>3. ol \in Int /\ um \in Int /\ carry \in Int /\ d \in Int
    BY <1>1, <1>4, <1>5, MulTypes, SMT DEF Word
  <2>4. s = (d + ol) + (um + carry)
    OBVIOUS
  <2> HIDE DEF s, p, c, ol, um, d
  <2>5. p + B * c = d + ol + um + carry
    BY <2>2, <2>3, <2>4, SMT
  <2> QED
    BY <2>2, <2>5 DEF ol, um
<1>11. /\ SetLimb(out, j - 1, p) \in Uint
       /\ ExactLimbs(SetLimb(out, j - 1, p), c, acc % R, e + W[j] * d, m, u, j + 1)
  <2>1. out \in Uint /\ acc % R \in Nat /\ m \in Nat /\ u \in Nat /\ carry \in Nat
    BY MulTypes
  <2> HIDE DEF p, c, d, e
  <2> QED
    BY <1>2, <1>3, <1>5, <1>6, <1>10, <2>1, LimbOfRow
<1>12. e + W[j] * d = xi * (y % W[j + 1])
  <2>1. y % W[j + 1] = (y % W[j]) + W[j] * Limb(y, j)
    BY <1>3, MulTypes, LowLimbs
  <2> DEFINE yw == y % W[j]
             yl == Limb(y, j)
  <2>2. yw \in Nat /\ yl \in Nat /\ W[j] \in Nat
    BY <1>1, <1>3, <1>4, <1>5, WeightFacts, SMT DEF Word
  <2> HIDE DEF xi, yw, yl
  <2>3. xi * yw + W[j] * (xi * yl) = xi * (yw + W[j] * yl)
    BY <2>2, <1>5, SMT
  <2> QED
    BY <2>1, <2>3 DEF yw, yl
<1>13. FromFactor' = xi * (y % W[j + 1])
  BY <1>9 DEF FromFactor
<1> HIDE DEF c, p, e, d, s, axy, umc
<1>14. c \in WideWord
  <2>1. 2 * B - 2 < B * B
    <3>1. B * 2 <= B * B
      BY <1>1, Monotone, SMT
    <3> QED
      BY <3>1, <1>1, SMT
  <2>2. B * B \in Int
    BY <1>1, SMT
  <2> QED
    BY <2>1, <2>2, <1>1, <1>6, SMT DEF WideWord
<1>15. Mul!TypeOK'
  BY <1>3, <1>9, <1>11, <1>14, MulOps DEF MulInv, Mul!TypeOK
<1>16. /\ pc' = "top" <=> j + 1 = N
       /\ pc' \in {"limb", "top"} /\ pc' \notin {"row", "done"}
  BY <1>9, SMT
<1>17. ExactLimbs(out', carry', acc' % R, FromFactor', m', u', j')
  BY <1>9, <1>11, <1>12, <1>13
<1> QED
  BY <1>2, <1>3, <1>6, <1>9, <1>15, <1>16, <1>17 DEF MulInv

\* The top of a row: the limbs and the meta-carry are the next accumulator.
LEMMA MulTopRow ==
    ASSUME MulInv, Mul!Top
    PROVE  /\ i \in 0..(N - 1) /\ i' = i + 1
           /\ pc' = (IF i + 1 = N THEN "done" ELSE "row")
           /\ UNCHANGED <<x, y, m, k, j, u>>
           /\ q' = q + u * W[i] /\ out' \in Uint /\ acc' \in Nat
           /\ carry' = carry + meta_carry
           /\ out' = acc' % R /\ meta_carry' = acc' \div R
           /\ RowGives(x, y, m, acc, i, u, acc')
<1> DEFINE xi == Limb(x, i)
           c  == carry + meta_carry
           p  == c % B
           h  == c \div B
           w  == W[N - 1]
           lo == out % w
<1>1. R \in Nat /\ R > 0 /\ B \in Nat /\ B >= 2 /\ N \in Nat /\ N > 0
  BY BaseFacts, SMT
<1>2. /\ pc = "top" /\ j = N /\ carry <= 2 * B - 2 /\ i # N
      /\ ExactLimbs(out, carry, acc % R, xi * (y % R), m, u, N)
  BY DEF MulInv, Mul!Top, FromFactor, R
<1>3. /\ N - 1 \in 0..(N - 1) /\ (N - 1) + 1 = N /\ N - 1 \in 0..(2 * N)
      /\ N - 1 < 2 * N /\ i \in 0..(N - 1) /\ i \in 0..(2 * N)
  BY <1>1, <1>2, MulTypes, SMT
<1>4. c \in Nat /\ c < B * B
  <2>1. B * 2 <= B * B
    BY <1>1, Monotone, SMT
  <2>2. B * B \in Int
    BY <1>1, SMT
  <2> QED
    BY <2>1, <2>2, <1>1, <1>2, MulTypes, SMT
<1>5. Mul!wide(c) = c
  <2>1. 0 \in Nat /\ 0 < B * B
    BY <1>1, SMT
  <2> HIDE DEF c
  <2> QED
    BY <2>1, <1>4, WideSum
<1>6. /\ out' = SetLimb(out, N - 1, p) /\ meta_carry' = h /\ carry' = c
      /\ acc' = out' + h * R /\ q' = q + u * W[i] /\ i' = i + 1
      /\ pc' = (IF i + 1 = N THEN "done" ELSE "row")
      /\ UNCHANGED <<x, y, m, k, j, u>>
  BY <1>5, MulOps DEF Mul!Top, Mul!params
<1>7. p \in Word /\ h \in Nat /\ p + B * h = c
  <2> HIDE DEF c
  <2> QED
    BY <1>4, SumParts
<1>8. /\ out' \in Uint /\ out' % W[N] = lo + w * p
  <2>1. out \in Uint
    BY MulTypes
  <2> HIDE DEF p
  <2> QED
    BY <2>1, <1>3, <1>6, <1>7, SetLimbFacts
<1>9. out' = lo + w * p /\ out' \in Nat /\ out' < R
  <2>1. out' \in Nat /\ out' % W[N] = out'
    BY <1>8, LowIsAll
  <2> QED
    BY <2>1, <1>1, <1>8, SMT DEF Uint
<1>10. w \in Nat /\ R = B * w /\ w > 0
  <2>1. W[(N - 1) + 1] = B * W[N - 1] /\ W[N - 1] \in Nat /\ W[N - 1] > 0
    BY <1>3, WeightFacts
  <2> QED
    BY <2>1, <1>3 DEF R
<1>11. lo \in Nat
  BY <1>10, MulTypes, DivMod, SMT
<1>12. acc' = lo + w * c
  <2>1. acc' = (lo + w * p) + h * (B * w)
    BY <1>6, <1>9, <1>10
  <2>2. p + B * h = c
    BY <1>7
  <2> HIDE DEF c, p, h, lo, w
  <2>3. p \in Int /\ h \in Int
    BY <1>1, <1>7, SMT DEF Word
  <2>4. (lo + w * p) + h * (B * w) = lo + w * (p + B * h)
    BY <2>3, <1>1, <1>10, <1>11, SMT
  <2> QED
    BY <2>1, <2>2, <2>4
<1> HIDE DEF p, h
<1>13. acc' \in Nat /\ out' = acc' % R /\ h = acc' \div R
  <2>1. out' \in 0..(R - 1) /\ h \in Int
    BY <1>1, <1>7, <1>9, SMT
  <2>2. acc' = R * h + out' /\ acc' \in Int
    BY <1>1, <1>6, <1>7, <1>9, SMT
  <2>3. acc' % R = out' /\ acc' \div R = h
    BY <2>1, <2>2, <1>1, DivisionIs
  <2>4. acc' \in Nat
    <3> HIDE DEF lo, w, c
    <3> QED
      BY <1>4, <1>10, <1>11, <1>12, SMT
  <2> QED
    BY <2>3, <2>4
<1>14. RowGives(x, y, m, acc, i, u, acc')
  <2> DEFINE a  == acc % R
             xy == xi * y
             um == u * m
  <2>1. y % R = y /\ m % R = m /\ a % R = a /\ a \in Nat
        /\ m % W[N] = m /\ a % W[N] = a
    BY MulTypes, LowIsAll
  <2>2. B * (lo + carry * w) = a + xy + um
    BY <1>2, <2>1 DEF ExactLimbs
  <2>3. acc = a + meta_carry * R
    BY MulTypes
  <2>4. B * (lo + w * c) = B * (lo + carry * w) + meta_carry * (B * w)
    <3>1. carry \in Int /\ meta_carry \in Int
      BY MulTypes, SMT
    <3> HIDE DEF lo, w
    <3> QED
      BY <3>1, <1>1, <1>10, <1>11, SMT DEF c
  <2>5. a \in Int /\ xy \in Int /\ um \in Int /\ meta_carry * R \in Int
    <3>1. xi \in Word
      BY <1>3, MulTypes, LimbType
    <3>2. xi \in Nat
      BY <3>1, <1>1, SMT DEF Word
    <3> QED
      BY <3>2, <2>1, <1>1, MulTypes, SMT
  <2>6. B * acc' = (a + xy + um) + meta_carry * R
    BY <2>2, <2>4, <1>10, <1>12
  <2> HIDE DEF a, xy, um
  <2>7. B * acc' = acc + xy + um
    BY <2>3, <2>5, <2>6, SMT
  <2> QED
    BY <2>7 DEF RowGives, xy, um
<1> QED
  BY <1>3, <1>6, <1>8, <1>13, <1>14

LEMMA MulTopInv == MulInv /\ Mul!Top => MulInv'
<1> SUFFICES ASSUME MulInv, Mul!Top PROVE MulInv'
  OBVIOUS
<1>1. R \in Nat /\ R > 0 /\ B \in Nat /\ B >= 2 /\ N \in Nat /\ N > 0
  BY BaseFacts, SMT
<1>2. /\ i \in 0..(N - 1) /\ i' = i + 1
      /\ pc' = (IF i + 1 = N THEN "done" ELSE "row")
      /\ UNCHANGED <<x, y, m, k, j, u>>
      /\ q' = q + u * W[i] /\ out' \in Uint /\ acc' \in Nat
      /\ carry' = carry + meta_carry
      /\ out' = acc' % R /\ meta_carry' = acc' \div R
      /\ RowGives(x, y, m, acc, i, u, acc')
  BY MulTopRow
<1>3. i \in 0..(2 * N - 1) /\ i + 1 \in 0..N
  BY <1>1, <1>2, SMT
<1>4. q + u * W[i] \in Nat /\ ExactRows(x, y, m, acc', q + u * W[i], i + 1)
  <2>1. ExactRows(x, y, m, acc, q, i)
    BY DEF MulInv
  <2> QED
    BY <2>1, <1>2, <1>3, MulTypes, RowOfProduct
<1>5. acc' < 2 * R
  BY <1>1, <1>2, <1>4, MulTypes, SMT DEF ExactRows, Uint
<1>6. acc' \div R \in WideWord
  <2> DEFINE h == acc' \div R
             l == acc' % R
  <2>1. h \in Nat /\ l \in Nat /\ acc' = R * h + l
    <3>1. acc' \in Int /\ acc' >= 0
      BY <1>2, SMT
    <3> QED
      BY <3>1, <1>1, DivMod
  <2> HIDE DEF h, l
  <2>2. h < 2
    <3>1. R * h \in Int /\ R * h < R * 2
      BY <2>1, <1>1, <1>5, SMT
    <3> QED
      BY <3>1, <2>1, <1>1, Cancel
  <2>3. B * 2 <= B * B /\ B * B \in Int
    BY <1>1, Monotone, SMT
  <2> QED
    BY <2>1, <2>2, <2>3, <1>1, SMT DEF WideWord, h
<1>7. q + u * W[i] \in Uint
  <2>1. q + u * W[i] < W[i + 1] /\ W[i + 1] <= R
    <3>1. PICK z \in Nat : R = W[i + 1] * z
      BY <1>3, WeightDividesRadix
    <3>2. i + 1 \in 0..(2 * N)
      BY <1>1, <1>3, SMT
    <3>3. W[i + 1] \in Nat /\ z # 0
      BY <3>1, <3>2, <1>1, WeightFacts, SMT
    <3>4. W[i + 1] * 1 <= W[i + 1] * z
      BY <3>3, Monotone, SMT
    <3> QED
      BY <3>1, <3>3, <3>4, <1>4, SMT DEF ExactRows
  <2>2. i + 1 \in 0..(2 * N)
    BY <1>1, <1>3, SMT
  <2>3. W[i + 1] \in Nat
    BY <2>2, WeightFacts
  <2> HIDE DEF R
  <2> QED
    BY <2>1, <2>3, <1>1, <1>4, SMT DEF Uint
<1>8. carry + meta_carry \in WideWord
  <2>1. carry <= 2 * B - 2
    BY DEF MulInv, Mul!Top
  <2>2. B * 2 <= B * B /\ B * B \in Int
    BY <1>1, Monotone, SMT
  <2> QED
    BY <2>1, <2>2, <1>1, MulTypes, SMT DEF WideWord
<1>9. acc' \in 0..(2 * R - 1)
  BY <1>1, <1>2, <1>5, SMT
<1>10. Mul!TypeOK'
  BY <1>2, <1>3, <1>6, <1>7, <1>8, <1>9, MulOps DEF MulInv, Mul!TypeOK
<1>11. (pc' = "done" <=> i + 1 = N) /\ pc' \notin {"limb", "top"}
  BY <1>2
<1> QED
  BY <1>2, <1>4, <1>10, <1>11 DEF MulInv

\* The variables of a multiplication.
ofMul == <<x, y, m, k, out, meta_carry, i, j, u, carry, pc, acc, q>>

LEMMA MulNextInv == MulInv /\ (Mul!Next \/ UNCHANGED ofMul) => MulInv'
<1> SUFFICES ASSUME MulInv, Mul!Next \/ UNCHANGED ofMul PROVE MulInv'
  OBVIOUS
<1>1. CASE Mul!StartRow
  BY <1>1, MulStartInv
<1>2. CASE Mul!NextLimb
  BY <1>2, MulLimbInv
<1>3. CASE Mul!Top
  BY <1>3, MulTopInv
<1>4. CASE UNCHANGED ofMul
  BY <1>4 DEF MulInv, Mul!TypeOK, FromFactor, ofMul
<1>5. CASE Mul!Returned
  BY <1>4, <1>5 DEF Mul!Returned, Mul!vars, ofMul
<1> QED
  BY <1>1, <1>2, <1>3, <1>4, <1>5 DEF Mul!Next

\* What the invariant says of the wide sums.
LEMMA MulFits == MulInv => Mul!WideSumsFit
<1> SUFFICES ASSUME MulInv PROVE Mul!WideSumsFit
  OBVIOUS
<1>1. R \in Nat /\ R > 0 /\ B \in Nat /\ B >= 2 /\ N \in Nat /\ N > 0
      /\ i \in 0..(2 * N) /\ meta_carry \in {0, 1}
  BY BaseFacts, MulTypes, SMT
<1>2. ASSUME pc \in {"row", "limb"}
      PROVE  Mul!Axy(IF pc = "row" THEN 0 ELSE j) <= B * B - B
  <2> DEFINE l == IF pc = "row" THEN 0 ELSE j
  <2>1. l \in 0..(2 * N)
    <3>1. j \in 0..N /\ N \in Nat
      BY <1>1, MulTypes
    <3> QED
      BY <3>1, SMT
  <2> HIDE DEF l
  <2>2. Limb(x, i) \in Word /\ Limb(y, l) \in Word /\ Limb(out, l) \in Word
    BY <1>1, <2>1, MulTypes, LimbType
  <2>3. 0 \in Word /\ 0 \in Nat /\ 0 <= 2 * B - 2
    BY <1>1, SMT DEF Word
  <2>4. Limb(x, i) * Limb(y, l) + Limb(out, l) <= B * B - B
    BY <2>2, <2>3, WideBounds
  <2>5. Mul!Axy(l) = Limb(x, i) * Limb(y, l) + Limb(out, l)
    BY MulOps DEF Mul!Axy, Mul!xi
  <2> QED
    BY <2>4, <2>5 DEF l
<1>3. ASSUME pc = "limb" PROVE u * Limb(m, j) + carry < B * B
  <2>1. j \in 0..(2 * N) /\ carry <= 2 * B - 2
    BY <1>1, <1>3, SMT DEF MulInv
  <2>2. Limb(m, j) \in Word /\ u \in Word /\ carry \in Nat
    BY <2>1, MulTypes, LimbType
  <2>3. 0 \in Word
    BY <1>1, SMT DEF Word
  <2> QED
    BY <2>1, <2>2, <2>3, WideBounds
<1>4. ASSUME pc \in {"limb", "top"} PROVE carry <= 2 * B - 2
  BY <1>4 DEF MulInv
<1>5. ASSUME pc = "top" PROVE carry + meta_carry < B * B
  <2>1. carry <= 2 * B - 2 /\ carry \in Nat
    BY <1>4, <1>5, MulTypes
  <2>2. B * 2 <= B * B /\ B * B \in Int
    BY <1>1, Monotone, SMT
  <2> QED
    BY <2>1, <2>2, <1>1, SMT
<1>6. meta_carry <= 1
  BY <1>1, SMT
<1> QED
  BY <1>2, <1>3, <1>4, <1>5, <1>6, MulOps DEF Mul!WideSumsFit

\* And of the limbs in the middle of a row.
LEMMA MulPrefix == MulInv => Mul!RowPrefixExact
<1> SUFFICES ASSUME MulInv, pc \in {"limb", "top"}
             PROVE  /\ B * ((out % W[j - 1]) + carry * W[j - 1])
                         = (acc % W[j]) + Limb(x, i) * (y % W[j]) + u * (m % W[j])
                    /\ out \div W[j] = (acc % R) \div W[j]
                    /\ meta_carry = acc \div R
  BY MulOps DEF Mul!RowPrefixExact, Mul!xi
<1>1. ExactLimbs(out, carry, acc % R, FromFactor, m, u, j) /\ j \in 1..N
      /\ meta_carry = acc \div R
  BY DEF MulInv
<1>2. N \in 0..(2 * N) /\ j \in 0..N
  BY <1>1, BaseFacts, SMT
<1>3. (acc % R) % W[j] = acc % W[j]
  BY <1>2, MulTypes, LowOfLow DEF R
<1> QED
  BY <1>1, <1>3 DEF ExactLimbs, FromFactor

----------------------------------------------------------------------------
(* The product by one that leaves Montgomery form: Retrieve.               *)

LEMMA RetOps ==
    /\ Ret!B = B /\ Ret!R = R /\ Ret!Word = Word /\ Ret!Uint = Uint
    /\ \A v, l : Ret!Limb(v, l) = Limb(v, l)
    /\ \A v, l, w : Ret!SetLimb(v, l, w) = SetLimb(v, l, w)
    /\ \A v, w : Ret!wrapping_mul(v, w) = wrapping_mul(v, w)
    /\ \A v, w : Ret!wrapping_add(v, w) = (v + w) % B
    /\ \A v, w, a, c : Ret!carrying_mul_add(v, w, a, c) = carrying_mul_add(v, w, a, c)
    /\ \A v, w : Ret!IsModNegInv(v, w) = IsModNegInv(v, w)
    BY DEF Ret!B, B, Ret!R, R, Ret!Word, Word, Ret!Uint, Uint, Ret!Limb, Limb,
           Ret!SetLimb, SetLimb, Ret!wrapping_mul, wrapping_mul,
           Ret!wrapping_add, Ret!carrying_mul_add, carrying_mul_add,
           Ret!Lo, Lo, Ret!Hi, Hi, Ret!IsModNegInv, IsModNegInv

\* The inductive invariant of a retrieval, as the product of x and one.
RetInv ==
    /\ Ret!TypeOK
    /\ ExactRows(x, 1, m, acc, q, i)
    /\ pc = "done" <=> i = N
    /\ pc \in {"row", "done"} => out = acc
    /\ pc = "limb" =>
        /\ j \in 1..(N - 1)
        /\ u = wrapping_mul(Lo(acc + Limb(x, i) * 1), k)
        /\ B * (out % W[j]) = (acc % W[j]) + Limb(x, i) + u * (m % W[j])
        /\ out \div W[j] = acc \div W[j]

LEMMA RetTypes ==
    ASSUME RetInv
    PROVE  /\ x \in Uint /\ m \in Uint /\ m % 2 = 1
           /\ x \in Nat /\ m \in Nat /\ m > 0 /\ acc \in Nat /\ acc <= m
           /\ acc \in Uint /\ q \in Nat /\ q < R
           /\ k \in Word /\ k \in Nat /\ IsModNegInv(k, m)
           /\ out \in Uint /\ out \in Nat /\ u \in Word /\ u \in Nat
           /\ i \in 0..N /\ j \in 0..N
<1>1. R \in Nat /\ R > 0 /\ B \in Nat /\ B > 0
  BY BaseFacts, SMT
<1>2. /\ x \in Uint /\ m \in Uint /\ m % 2 = 1
      /\ k \in Word /\ IsModNegInv(k, m)
      /\ out \in Uint /\ u \in Word /\ i \in 0..N /\ j \in 0..N
      /\ acc \in Uint /\ q \in Uint
  BY RetOps DEF RetInv, Ret!TypeOK
<1>3. acc < 1 + m
  BY DEF RetInv, ExactRows
<1> QED
  BY <1>1, <1>2, <1>3, SMT DEF Uint, Word

LEMMA RetInitInv == m \in Moduli /\ Ret!Init => RetInv
<1> SUFFICES ASSUME m \in Moduli, Ret!Init PROVE RetInv
  OBVIOUS
<1>1. R \in Nat /\ R > 0 /\ B \in Nat /\ B > 0 /\ N \in Nat /\ N > 0
  BY BaseFacts, SMT
<1>2. /\ x \in Uint /\ m \in Uint /\ m % 2 = 1
      /\ k \in Word /\ IsModNegInv(k, m)
      /\ out = 0 /\ i = 0 /\ j = 0 /\ u = 0
      /\ pc = "row" /\ acc = 0 /\ q = 0
  BY RetOps DEF Ret!Init
<1>3. 0 \in Uint /\ 0 \in Word /\ 0 \in 0..N
  BY <1>1, SMT DEF Uint, Word
<1>4. Ret!TypeOK
  BY <1>2, <1>3, RetOps DEF Ret!TypeOK
<1>5. ExactRows(x, 1, m, acc, q, i)
  <2>1. x \in Nat /\ m \in Nat /\ m > 0
    BY <1>1, <1>2, SMT DEF Uint
  <2>2. x % W[0] = 0 /\ W[0] = 1
    BY <2>1, LowestLimb, WeightAssumption
  <2> QED
    BY <2>1, <2>2, <1>2, SMT DEF ExactRows
<1> QED
  BY <1>1, <1>2, <1>4, <1>5 DEF RetInv

\* When the last limb of a row is stored, the accumulator is that of the rows.
LEMMA RetRowEnds ==
    ASSUME RetInv, i \in 0..(N - 1), NEW nu \in Word, NEW no \in Uint,
           B * no = acc + Limb(x, i) + nu * m
    PROVE  /\ RowGives(x, 1, m, acc, i, nu, no)
           /\ q + nu * W[i] \in Uint
           /\ ExactRows(x, 1, m, no, q + nu * W[i], i + 1)
<1>1. R \in Nat /\ B \in Nat /\ B > 0 /\ N \in Nat /\ N > 0
      /\ i \in 0..(2 * N) /\ i \in 0..(2 * N - 1) /\ i + 1 \in 0..N
      /\ i + 1 \in 0..(2 * N) /\ no \in Nat
  BY BaseFacts, SMT DEF Uint
<1>2. Limb(x, i) \in Word
  BY <1>1, RetTypes, LimbType
<1>3. Limb(x, i) \in Int
  BY <1>1, <1>2, SMT DEF Word
<1>4. RowGives(x, 1, m, acc, i, nu, no)
  <2>1. Limb(x, i) * 1 = Limb(x, i)
    BY <1>3, SMT
  <2> QED
    BY <2>1 DEF RowGives
<1>5. q + nu * W[i] \in Nat /\ ExactRows(x, 1, m, no, q + nu * W[i], i + 1)
  <2>1. ExactRows(x, 1, m, acc, q, i) /\ 1 \in Nat
    BY DEF RetInv
  <2> QED
    BY <2>1, <1>1, <1>4, RetTypes, RowOfProduct
<1>6. W[i + 1] <= R
  <2>1. PICK z \in Nat : R = W[i + 1] * z
    BY <1>1, WeightDividesRadix
  <2>2. W[i + 1] \in Nat /\ z # 0
    BY <2>1, <1>1, BaseFacts, WeightFacts, SMT
  <2>3. W[i + 1] * 1 <= W[i + 1] * z
    BY <2>2, Monotone, SMT
  <2> QED
    BY <2>1, <2>2, <2>3, SMT
<1>7. q + nu * W[i] \in Uint
  <2>1. q + nu * W[i] < W[i + 1] /\ W[i + 1] \in Nat
    BY <1>1, <1>5, WeightFacts DEF ExactRows
  <2> HIDE DEF R
  <2> QED
    BY <2>1, <1>1, <1>5, <1>6, SMT DEF Uint
<1> QED
  BY <1>4, <1>5, <1>7

\* The first limb of a row.
LEMMA RetStart ==
    ASSUME RetInv, Ret!StartRow
    PROVE  /\ i \in 0..(N - 1) /\ j' = 1 /\ UNCHANGED <<x, m, k>>
           /\ u' = wrapping_mul(Lo(acc + Limb(x, i) * 1), k)
           /\ u' \in Word /\ out' \in Uint
           /\ B * (out' % W[1]) = (acc % W[1]) + Limb(x, i) + u' * (m % W[1])
           /\ out' \div W[1] = acc \div W[1]
           /\ IF N = 1 THEN Ret!EndOfRow(u', out')
                       ELSE pc' = "limb" /\ UNCHANGED <<acc, q, i>>
<1> DEFINE xi == Limb(x, i)
           s  == LowestSum(acc, xi, 1)
           p  == carrying_mul_add(u', Limb(m, 0), xi, Limb(out, 0))
<1>1. R \in Nat /\ B \in Nat /\ B >= 2 /\ N \in Nat /\ N > 0
  BY BaseFacts, SMT
<1>2. pc = "row" /\ i # N /\ out = acc
  BY DEF RetInv, Ret!StartRow
<1>3. /\ i \in 0..(N - 1) /\ i \in 0..(2 * N) /\ 0 \in 0..(2 * N)
      /\ 0 \in 0..(N - 1) /\ 0 + 1 = 1
  BY <1>1, <1>2, RetTypes, SMT
<1>4. xi \in Word /\ Limb(out, 0) \in Word /\ Limb(m, 0) \in Word
  BY <1>3, RetTypes, LimbType
<1>5. xi \in Nat /\ Limb(out, 0) \in Nat /\ Limb(m, 0) \in Nat
  BY <1>1, <1>4, SMT DEF Word
<1>6. /\ u' = wrapping_mul((Limb(out, 0) + xi) % B, k)
      /\ out' = SetLimb(out, 0, p[2]) /\ j' = 1
      /\ UNCHANGED <<x, m, k>>
      /\ IF N = 1 THEN Ret!EndOfRow(u', out')
                  ELSE pc' = "limb" /\ UNCHANGED <<acc, q, i>>
  BY RetOps DEF Ret!StartRow, Ret!params, Ret!xi
<1>7. s = Limb(out, 0) + xi
  <2>1. Limb(1, 0) = 1
    <3>1. 1 \in Nat /\ 1 = B * 0 + 1 /\ 1 \in 0..(B - 1) /\ 0 \in Int /\ 1 \in Int
      BY <1>1, SMT
    <3>2. 1 % B = 1
      BY <3>1, <1>1, DivisionIs
    <3> QED
      BY <3>1, <3>2, LowestLimb
  <2>2. xi * 1 = xi /\ xi + Limb(out, 0) = Limb(out, 0) + xi
    BY <1>5, SMT
  <2> QED
    BY <2>1, <2>2, <1>2 DEF LowestSum
<1>8. /\ u' \in Word /\ s \in Nat /\ (u' * Limb(m, 0) + s) % B = 0
      /\ u' = wrapping_mul(Lo(acc + xi * 1), k)
  <2>1. u' = ((s % B) * k) % B
    BY <1>6, <1>7 DEF wrapping_mul
  <2> DEFINE one == 1
  <2>2. acc \in Nat /\ m \in Nat /\ k \in Nat /\ IsModNegInv(k, m)
        /\ xi \in Nat /\ one \in Nat
    BY <1>5, RetTypes
  <2>3. s = LowestSum(acc, xi, one)
    OBVIOUS
  <2> HIDE DEF s, xi, one
  <2>4. /\ u' \in Word /\ s \in Nat /\ (u' * Limb(m, 0) + s) % B = 0
        /\ u' = wrapping_mul(Lo(acc + xi * one), k)
    BY <2>1, <2>2, <2>3, RowStarts, SMTT(30)
  <2> QED
    BY <2>4 DEF one
<1>9. /\ p[1] \in Word /\ p[2] \in Word
      /\ p[1] + B * p[2] = u' * Limb(m, 0) + xi + Limb(out, 0)
  <2> HIDE DEF xi
  <2> QED
    BY <1>4, <1>8, MulAddExact
<1> DEFINE um == u' * Limb(m, 0)
           c  == p[2]
           l  == p[1]
<1>10. um \in Nat
  BY <1>1, <1>5, <1>8, SMT DEF Word
<1>11. l = 0 /\ B * c = um + s
  <2>1. l \in 0..(B - 1) /\ c \in Int /\ l + B * c = um + s
    <3>1. um + xi + Limb(out, 0) = um + (Limb(out, 0) + xi)
      <4> HIDE DEF um
      <4> QED
        BY <1>5, <1>10, SMT
    <3>2. l \in 0..(B - 1) /\ c \in Int /\ l + B * c = um + xi + Limb(out, 0)
      <4> HIDE DEF p, xi
      <4> QED
        BY <1>1, <1>9, SMT DEF Word
    <3> QED
      BY <3>1, <3>2, <1>7
  <2> DEFINE v == um + s
  <2>2. v \in Int /\ v % B = 0
    <3>1. v \in Int
      <4> HIDE DEF um, s
      <4> QED
        BY <1>8, <1>10, SMT
    <3> QED
      BY <3>1, <1>8
  <2> HIDE DEF v, l, c
  <2>3. v = B * c + l
    BY <2>1, <1>1, SMT DEF v
  <2>4. v % B = l
    BY <2>1, <2>2, <2>3, <1>1, DivisionIs
  <2> QED
    BY <2>1, <2>2, <2>3, <2>4, <1>1, SMT DEF v
<1>12. /\ out' \in Uint /\ out' % W[1] = (out % W[0]) + W[0] * c
       /\ out' \div W[1] = out \div W[1]
  <2>1. out \in Uint /\ c \in Word
    BY <1>9, RetTypes
  <2>2. out' = SetLimb(out, 0, c)
    BY <1>6
  <2> HIDE DEF c
  <2>3. /\ SetLimb(out, 0, c) \in Uint
        /\ SetLimb(out, 0, c) % W[0 + 1] = (out % W[0]) + W[0] * c
        /\ SetLimb(out, 0, c) \div W[0 + 1] = out \div W[0 + 1]
    BY <2>1, <1>3, SetLimbFacts
  <2> QED
    BY <2>2, <2>3, <1>3
<1>13. out' % W[1] = c
  <2>1. out % W[0] = 0 /\ W[0] = 1
    BY RetTypes, LowestLimb, WeightAssumption
  <2>2. c \in Int
    BY <1>1, <1>9, SMT DEF Word
  <2> HIDE DEF c
  <2> QED
    BY <2>1, <2>2, <1>12, SMT
<1>14. B * (out' % W[1]) = (acc % W[1]) + xi + u' * (m % W[1])
  <2>1. acc % W[1] = Limb(out, 0) /\ m % W[1] = Limb(m, 0)
    BY <1>2, RetTypes, LowestLimb
  <2>2. B * c = Limb(out, 0) + xi + um
    <3> HIDE DEF um, c, s
    <3> QED
      BY <1>5, <1>7, <1>8, <1>10, <1>11, SMT
  <2> HIDE DEF c
  <2> QED
    BY <2>1, <2>2, <1>13
<1> QED
  BY <1>2, <1>3, <1>6, <1>8, <1>12, <1>14

\* A limb in the middle of a row: the parked carry is picked up, and the next
\* one parked a limb higher.
LEMMA RetLimb ==
    ASSUME RetInv, Ret!NextLimb
    PROVE  /\ i \in 0..(N - 1) /\ j \in 1..(N - 1) /\ j' = j + 1
           /\ UNCHANGED <<x, m, k, u>> /\ out' \in Uint
           /\ u = wrapping_mul(Lo(acc + Limb(x, i) * 1), k)
           /\ B * (out' % W[j + 1])
                = (acc % W[j + 1]) + Limb(x, i) + u * (m % W[j + 1])
           /\ out' \div W[j + 1] = acc \div W[j + 1]
           /\ IF j + 1 = N THEN Ret!EndOfRow(u, out')
                           ELSE UNCHANGED <<pc, acc, q, i>>
<1> DEFINE xi == Limb(x, i)
           c  == Limb(out, j - 1)
           r  == carrying_mul_add(u, Limb(m, j), Limb(out, j), c)
           p1 == r[1]
           p2 == r[2]
           o  == SetLimb(out, j - 1, p1)
<1>1. R \in Nat /\ B \in Nat /\ B >= 2 /\ N \in Nat /\ N > 0
  BY BaseFacts, SMT
<1>2. /\ pc = "limb" /\ i # N /\ j \in 1..(N - 1)
      /\ u = wrapping_mul(Lo(acc + xi * 1), k)
      /\ B * (out % W[j]) = (acc % W[j]) + xi + u * (m % W[j])
      /\ out \div W[j] = acc \div W[j]
  BY DEF RetInv, Ret!NextLimb
<1>3. /\ i \in 0..(N - 1) /\ i \in 0..(2 * N) /\ j \in 0..(2 * N)
      /\ j - 1 \in 0..(2 * N) /\ j - 1 \in 0..(2 * N - 1) /\ j - 1 \in 0..(N - 1)
      /\ j \in 0..(N - 1) /\ (j - 1) + 1 = j
  BY <1>1, <1>2, RetTypes, SMT
<1>4. xi \in Word /\ c \in Word /\ Limb(out, j) \in Word /\ Limb(m, j) \in Word
  BY <1>3, RetTypes, LimbType
<1>5. xi \in Nat /\ c \in Nat
  BY <1>1, <1>4, SMT DEF Word
<1>6. /\ out' = SetLimb(o, j, p2) /\ j' = j + 1 /\ UNCHANGED <<x, m, k, u>>
      /\ IF j + 1 = N THEN Ret!EndOfRow(u, out')
                      ELSE UNCHANGED <<pc, acc, q, i>>
  BY RetOps DEF Ret!NextLimb, Ret!params
<1>7. /\ p1 \in Word /\ p2 \in Word
      /\ p1 + B * p2 = u * Limb(m, j) + Limb(out, j) + c
  <2>1. u \in Word
    BY RetTypes
  <2> HIDE DEF c
  <2> QED
    BY <2>1, <1>4, MulAddExact
<1>8. p2 \in Nat /\ p1 + B * p2 = 0 + Limb(out, j) + u * Limb(m, j) + c
  <2> DEFINE um == u * Limb(m, j)
             ol == Limb(out, j)
  <2>1. um \in Int /\ ol \in Int /\ p2 \in Nat
    BY <1>1, <1>4, <1>7, RetTypes, SMT DEF Word
  <2>2. p1 + B * p2 = um + ol + c
    BY <1>7
  <2> HIDE DEF um, ol, p1, p2, c
  <2>3. p1 + B * p2 = 0 + ol + um + c
    BY <2>1, <2>2, <1>5, SMT
  <2> QED
    BY <2>1, <2>3 DEF um, ol
<1>9. ExactLimbs(out, c, acc, xi, m, u, j)
  <2>1. out % W[j] = (out % W[j - 1]) + W[j - 1] * c
    BY <1>3, RetTypes, LowLimbs
  <2>2. W[j - 1] \in Int
    BY <1>3, WeightFacts, SMT
  <2> HIDE DEF c
  <2>3. W[j - 1] * c = c * W[j - 1]
    BY <2>2, <1>5, SMT
  <2> QED
    BY <2>1, <2>3, <1>2 DEF ExactLimbs
<1>10. /\ o \in Uint /\ ExactLimbs(o, p2, acc, xi + W[j] * 0, m, u, j + 1)
  <2> DEFINE zero == 0
  <2>1. /\ out \in Uint /\ acc \in Nat /\ m \in Nat /\ u \in Nat
        /\ zero \in Nat
    BY RetTypes
  <2>2. p1 + B * p2 = zero + Limb(out, j) + u * Limb(m, j) + c
    BY <1>8
  <2> HIDE DEF p1, p2, c, xi, zero
  <2>3. /\ SetLimb(out, j - 1, p1) \in Uint
        /\ ExactLimbs(SetLimb(out, j - 1, p1), p2, acc,
                      xi + W[j] * zero, m, u, j + 1)
    <3>1. j \in 1..(N - 1) /\ p1 \in Word /\ p2 \in Nat
      BY <1>2, <1>7, <1>8
    <3> HIDE DEF r
    <3> QED
      BY <3>1, <2>1, <2>2, <1>5, <1>9, LimbOfRow
  <2> QED
    BY <2>3 DEF zero
<1> HIDE DEF o, p2
<1>11. /\ out' \in Uint
       /\ out' % W[j + 1] = (o % W[j]) + W[j] * p2
       /\ out' \div W[j + 1] = o \div W[j + 1]
  BY <1>3, <1>6, <1>7, <1>10, SetLimbFacts
<1>12. /\ B * ((o % W[j]) + p2 * W[j])
             = (acc % W[j + 1]) + xi + u * (m % W[j + 1])
       /\ o \div W[j + 1] = acc \div W[j + 1]
       /\ p2 * W[j] = W[j] * p2
  <2>1. W[j] \in Int
    BY <1>3, WeightFacts, SMT
  <2>2. xi + W[j] * 0 = xi /\ p2 * W[j] = W[j] * p2
    BY <2>1, <1>5, <1>8, SMT
  <2>3. (j + 1) - 1 = j
    BY <1>3, SMT
  <2> QED
    BY <2>2, <2>3, <1>10 DEF ExactLimbs
<1> QED
  BY <1>2, <1>3, <1>6, <1>11, <1>12

\* Whatever limb was stored, the invariant holds after it: in the middle of the
\* row, or at its end.
LEMMA RetStored ==
    ASSUME RetInv, i \in 0..(N - 1), j' \in 1..N, UNCHANGED <<x, m, k>>,
           u' \in Word, out' \in Uint,
           u' = wrapping_mul(Lo(acc + Limb(x, i) * 1), k),
           B * (out' % W[j']) = (acc % W[j']) + Limb(x, i) + u' * (m % W[j']),
           out' \div W[j'] = acc \div W[j'],
           IF j' = N THEN Ret!EndOfRow(u', out')
                     ELSE pc' = "limb" /\ UNCHANGED <<acc, q, i>>
    PROVE  /\ RetInv'
           /\ j' = N => RowGives(x, 1, m, acc, i, u', out') /\ acc' = out'
<1>1. R \in Nat /\ B \in Nat /\ B >= 2 /\ N \in Nat /\ N > 0
  BY BaseFacts, SMT
<1>2. CASE j' = N
  <2>1. /\ acc' = out' /\ q' = q + u' * W[i] /\ i' = i + 1
        /\ pc' = (IF i + 1 = N THEN "done" ELSE "row")
    BY <1>2 DEF Ret!EndOfRow
  <2>2. out' % W[N] = out' /\ acc % W[N] = acc /\ m % W[N] = m
    BY RetTypes, LowIsAll
  <2>3. B * out' = acc + Limb(x, i) + u' * m
    BY <2>2, <1>2
  <2>4. /\ RowGives(x, 1, m, acc, i, u', out')
        /\ q + u' * W[i] \in Uint
        /\ ExactRows(x, 1, m, out', q + u' * W[i], i + 1)
    BY <2>3, RetRowEnds
  <2>5. i + 1 \in 0..N /\ j' \in 0..N
    BY <1>1, SMT
  <2>6. Ret!TypeOK'
    BY <2>1, <2>4, <2>5, RetOps DEF RetInv, Ret!TypeOK
  <2> QED
    BY <2>1, <2>4, <2>6 DEF RetInv
<1>3. CASE j' # N
  <2>1. pc' = "limb" /\ UNCHANGED <<acc, q, i>>
    BY <1>3
  <2>2. j' \in 1..(N - 1) /\ j' \in 0..N /\ i # N
    BY <1>1, <1>3, SMT
  <2>3. Ret!TypeOK'
    BY <2>1, <2>2, RetOps DEF RetInv, Ret!TypeOK
  <2> QED
    BY <2>1, <2>2, <2>3, <1>3 DEF RetInv
<1> QED
  BY <1>2, <1>3

\* The variables of a retrieval.
ofRet == <<x, m, k, out, i, j, u, pc, acc, q>>

LEMMA RetNextInv == RetInv /\ (Ret!Next \/ UNCHANGED ofRet) => RetInv'
<1> SUFFICES ASSUME RetInv, Ret!Next \/ UNCHANGED ofRet PROVE RetInv'
  OBVIOUS
<1>1. N \in Nat /\ N > 0 /\ 1 \in 1..N
  BY BaseFacts, SMT
<1>2. CASE Ret!StartRow
  <2>1. 1 = N <=> N = 1
    OBVIOUS
  <2> QED
    BY <2>1, <1>1, <1>2, RetStart, RetStored
<1>3. CASE Ret!NextLimb
  <2>1. j + 1 \in 1..N
    BY <1>1, <1>3, RetLimb, SMT
  <2>2. u' \in Word /\ pc = "limb"
    BY <1>3, RetLimb, RetTypes DEF Ret!NextLimb
  <2> QED
    BY <2>1, <2>2, <1>3, RetLimb, RetStored
<1>4. CASE UNCHANGED ofRet
  BY <1>4 DEF RetInv, Ret!TypeOK, ofRet
<1>5. CASE Ret!Returned
  BY <1>4, <1>5 DEF Ret!Returned, Ret!vars, ofRet
<1> QED
  BY <1>2, <1>3, <1>4, <1>5 DEF Ret!Next

\* In the middle of a row the parked carry is exact.
LEMMA RetParked == RetInv => Ret!ParkedCarryExact
  BY RetOps DEF RetInv, Ret!ParkedCarryExact, Ret!xi

\* A retrieval needs no correction.
LEMMA RetResult == RetInv => Ret!NeedsNoCorrection
<1> SUFFICES ASSUME RetInv, pc = "done"
             PROVE  /\ (out * R) % m = x % m
                    /\ (x % m # 0 \/ x = 0) => out < m
                    /\ out <= m
  BY RetOps DEF Ret!NeedsNoCorrection
<1>1. R \in Nat /\ R > 0
  BY BaseFacts
<1>2. out = acc /\ i = N /\ x \in Nat /\ m \in Nat /\ m > 0 /\ acc \in Nat
      /\ q \in Nat /\ q < R /\ acc <= m
  BY RetTypes DEF RetInv
<1>3. x % W[N] = x
  BY RetTypes, LowIsAll
<1>4. acc * R = x + q * m
  <2>1. acc * W[N] = x * 1 + q * m
    BY <1>2, <1>3 DEF RetInv, ExactRows
  <2>2. x * 1 = x
    BY <1>2, SMT
  <2> QED
    BY <2>1, <2>2 DEF R
<1>5. (acc * R) % m = x % m
  <2> DEFINE v == acc * R
  <2>1. v \in Int /\ x \in Int /\ q \in Int /\ v = x + q * m
    BY <1>1, <1>2, <1>4, SMT
  <2> HIDE DEF v
  <2>2. v % m = x % m
    BY <2>1, <1>2, SameResidue
  <2> QED
    BY <2>2 DEF v
<1>6. ASSUME acc = m PROVE x % m = 0 /\ x # 0
  <2> DEFINE d == R - q
  <2>1. m * R = x + q * m
    BY <1>4, <1>6
  <2>2. x = m * d + 0 /\ x \in Int /\ d \in Int /\ 0 \in 0..(m - 1) /\ d > 0
    BY <2>1, <1>1, <1>2, SMT
  <2>3. m * d > 0
    BY <2>2, <1>2, SMT
  <2>4. x # 0
    <3> DEFINE z == m * d
    <3>1. x = z + 0 /\ z > 0 /\ z \in Int
      BY <2>2, <2>3, <1>2, SMT
    <3> HIDE DEF z
    <3> QED
      BY <3>1, SMT
  <2> HIDE DEF d
  <2>5. x % m = 0
    BY <2>2, <1>2, DivisionIs
  <2> QED
    BY <2>4, <2>5
<1> QED
  BY <1>2, <1>5, <1>6, SMT

----------------------------------------------------------------------------
(* The reduction of a double-width operand.                                *)

\* A weight within an integer is at most the radix.
LEMMA WeightBelowRadix ==
    ASSUME NEW l \in 0..N
    PROVE  W[l] <= R
<1>1. PICK z \in Nat : R = W[l] * z
  BY WeightDividesRadix
<1>2. W[l] \in Nat /\ R \in Nat /\ R > 0
  BY BaseFacts, WeightFacts, SMT
<1>3. z # 0
  BY <1>1, <1>2, SMT
<1>4. W[l] * 1 <= W[l] * z
  BY <1>2, <1>3, Monotone, SMT
<1> QED
  BY <1>1, <1>2, <1>4, SMT

\* The sum of the multiples stays below the weight of the row that follows.
LEMMA MultipleGrows ==
    ASSUME NEW l \in 0..(2 * N - 1), NEW v \in Nat, v < W[l], NEW w \in Word
    PROVE  v + w * W[l] \in Nat /\ v + w * W[l] < W[l + 1]
<1>1. /\ B \in Nat /\ B > 0 /\ l \in 0..(2 * N) /\ l < 2 * N
      /\ w \in Nat /\ w <= B - 1 /\ B - 1 \in Nat
  BY BaseFacts, SMT DEF Word
<1>2. W[l] \in Nat /\ W[l + 1] = B * W[l]
  BY <1>1, WeightFacts
<1>3. W[l] * w <= W[l] * (B - 1)
  BY <1>1, <1>2, Monotone, SMT
<1>4. W[l] * (B - 1) = B * W[l] - W[l] /\ W[l] * w = w * W[l]
      /\ w * W[l] \in Nat /\ B * W[l] \in Nat
  BY <1>1, <1>2, SMT
<1> QED
  BY <1>2, <1>3, <1>4, SMT

\* Replacing a limb by the low word of a sum moves the rest of the sum, with
\* the carry, into the integer.
LEMMA LimbAdds ==
    ASSUME NEW v \in Nat, NEW l \in 0..(2 * N - 1), NEW p1 \in Int, NEW p2 \in Int,
           NEW e \in Int, p1 + B * p2 = e + Limb(v, l)
    PROVE  SetLimb(v, l, p1) + p2 * W[l + 1] = v + e * W[l]
<1> DEFINE d == Limb(v, l)
           w == W[l]
<1>1. B \in Nat /\ l \in 0..(2 * N) /\ l < 2 * N /\ v \in Int
  BY BaseFacts, SMT
<1>2. w \in Int /\ d \in Int /\ W[l + 1] = B * w
  BY <1>1, WeightFacts, LimbType, SMT DEF Word
<1>3. SetLimb(v, l, p1) = v + (p1 - d) * w
  BY DEF SetLimb
<1> HIDE DEF d, w
<1>4. p2 * (B * w) = (B * p2) * w
  BY <1>1, <1>2, SMT
<1>5. (p1 - d) * w + (B * p2) * w = e * w
  <2>1. B * p2 = e + d - p1
    BY <1>1, <1>2, SMT DEF d
  <2>2. (p1 - d) * w + (e + d - p1) * w = e * w
    BY <1>2, SMT
  <2> QED
    BY <2>1, <2>2
<1>6. (p1 - d) * w \in Int /\ (B * p2) * w \in Int /\ e * w \in Int
  BY <1>1, <1>2, SMT
<1>7. (v + (p1 - d) * w) + (B * p2) * w = v + e * w
  <2> DEFINE a == (p1 - d) * w
             b == (B * p2) * w
             c == e * w
  <2>1. a \in Int /\ b \in Int /\ c \in Int /\ a + b = c
    BY <1>5, <1>6
  <2> HIDE DEF a, b, c
  <2>2. (v + a) + b = v + c
    BY <2>1, <1>1, SMT
  <2> QED
    BY <2>2 DEF a, b, c
<1> QED
  BY <1>2, <1>3, <1>4, <1>7 DEF w

\* The same in the upper half of a double-width integer.
LEMMA UpperLimbAdds ==
    ASSUME NEW v \in Nat, NEW l \in 0..(N - 1), NEW p1 \in Int, NEW p2 \in Int,
           NEW e \in Int, p1 + B * p2 = e + Limb(v, l), SetLimb(v, l, p1) \in Int
    PROVE  SetLimb(v, l, p1) * R + p2 * W[N + (l + 1)] = v * R + e * W[N + l]
<1> DEFINE z  == SetLimb(v, l, p1)
           w  == W[l]
           w1 == W[l + 1]
<1>1. /\ R \in Int /\ N \in Nat /\ N \in 0..(2 * N) /\ l \in 0..(2 * N - 1)
      /\ l \in 0..(2 * N) /\ l + 1 \in 0..(2 * N)
      /\ N + l <= 2 * N /\ N + (l + 1) <= 2 * N
  BY BaseFacts, SMT
<1>2. z + p2 * w1 = v + e * w
  BY <1>1, LimbAdds
<1>3. W[N + l] = R * w /\ W[N + (l + 1)] = R * w1 /\ w \in Nat /\ w1 \in Nat
  BY <1>1, WeightsMultiply, WeightFacts DEF R
<1>4. z \in Int /\ w \in Int /\ w1 \in Int
  BY <1>3, SMT
<1> HIDE DEF z, w, w1
<1>5. /\ (z + p2 * w1) * R = z * R + p2 * (R * w1)
      /\ (v + e * w) * R = v * R + e * (R * w)
  BY <1>1, <1>4, SMT
<1> QED
  BY <1>2, <1>3, <1>5 DEF z

\* What is multiplied at limb jj of row ii, and the carry that comes in.
RowFactors(n, v, c, ii, jj) ==
    n \in Nat /\ v \in Nat /\ c \in Nat /\ ii \in 0..(N - 1) /\ jj \in 0..(N - 1)

\* Adding the product of limb jj of the modulus and the row's multiple, at
\* limb ii + jj, completes one more limb of the product.
LEMMA RowGrows ==
    ASSUME NEW n, NEW v, NEW c, NEW ii, NEW jj, RowFactors(n, v, c, ii, jj)
    PROVE  /\ v * (n % W[jj]) * W[ii] \in Int
           /\ v * (n % W[jj + 1]) * W[ii] \in Int
           /\ c * W[ii + jj] \in Int /\ (v * Limb(n, jj) + c) * W[ii + jj] \in Int
           /\ v * (n % W[jj + 1]) * W[ii] + c * W[ii + jj]
                = v * (n % W[jj]) * W[ii] + (v * Limb(n, jj) + c) * W[ii + jj]
<1> DEFINE wi == W[ii]
           wj == W[jj]
           wl == W[ii + jj]
           nl == Limb(n, jj)
           nj == n % W[jj]
<1>1. /\ ii \in 0..(2 * N) /\ jj \in 0..(2 * N) /\ jj \in 0..(2 * N - 1)
      /\ ii + jj <= 2 * N /\ ii + jj \in 0..(2 * N)
      /\ B \in Nat /\ v \in Int /\ n \in Int /\ n \in Nat /\ c \in Int
  BY BaseFacts, SMT DEF RowFactors
<1>2. /\ wl = wi * wj /\ wi \in Nat /\ wj \in Nat /\ wl \in Nat /\ wj > 0
      /\ nl \in Word /\ n % W[jj + 1] = nj + wj * nl
  BY <1>1, WeightsMultiply, WeightFacts, LimbType, LowLimbs
<1>3. wi \in Int /\ wj \in Int /\ wl \in Int /\ nl \in Int
  <2> HIDE DEF nl, wi, wj, wl
  <2> QED
    BY <1>1, <1>2, SMT DEF Word
<1>4. nj \in Nat
  BY <1>1, <1>2, DivMod
<1> HIDE DEF wi, wj, wl, nl, nj
<1>5. v * nj \in Int /\ v * nl \in Int /\ nj \in Int /\ nj + wj * nl \in Int
  BY <1>1, <1>3, <1>4, SMT
<1>6. v * nj * wi \in Int /\ c * wl \in Int /\ v * (nj + wj * nl) * wi \in Int
      /\ (v * nl + c) * wl \in Int
  <2>1. v * (nj + wj * nl) \in Int /\ v * nl + c \in Int
    BY <1>1, <1>5, SMT
  <2> QED
    BY <2>1, <1>1, <1>3, <1>5, SMT
<1>7. v * (nj + wj * nl) * wi = v * nj * wi + (v * nl) * wl
  <2>1. v * (nj + wj * nl) = v * nj + v * (wj * nl)
    BY <1>1, <1>3, <1>5, SMT
  <2>2. (v * (wj * nl)) * wi = (v * nl) * (wi * wj)
    BY <1>1, <1>3, SMT
  <2>3. (v * nj + v * (wj * nl)) * wi = v * nj * wi + (v * (wj * nl)) * wi
    <3> DEFINE a == v * nj
               b == v * (wj * nl)
    <3>1. a \in Int /\ b \in Int
      BY <1>1, <1>3, <1>5, SMT
    <3> HIDE DEF a, b
    <3>2. (a + b) * wi = a * wi + b * wi
      BY <3>1, <1>3, SMT
    <3> QED
      BY <3>2 DEF a, b
  <2> QED
    BY <2>1, <2>2, <2>3, <1>2
<1>8. (v * nl + c) * wl = (v * nl) * wl + c * wl
  <2> DEFINE a == v * nl
  <2>1. a \in Int
    BY <1>5
  <2> HIDE DEF a
  <2>2. (a + c) * wl = a * wl + c * wl
    BY <2>1, <1>1, <1>3, SMT
  <2> QED
    BY <2>2 DEF a
<1>9. v * (nj + wj * nl) * wi + c * wl = v * nj * wi + (v * nl + c) * wl
  <2> DEFINE a == v * nj * wi
             b == (v * nl) * wl
             d == c * wl
  <2>1. a \in Int /\ b \in Int /\ d \in Int
    <3>1. (v * nl) * wl \in Int
      BY <1>3, <1>5, SMT
    <3> QED
      BY <3>1, <1>6
  <2> HIDE DEF a, b, d
  <2>2. (a + b) + d = a + (b + d)
    BY <2>1, SMT
  <2> QED
    BY <2>2, <1>7, <1>8 DEF a, b, d
<1> QED
  BY <1>2, <1>6, <1>9 DEF wi, wj, wl, nl, nj

\* The multiple that a word of the operand asks for clears it.
LEMMA WordStarts ==
    ASSUME NEW l \in Word, NEW m1 \in Nat, NEW k1 \in Nat, IsModNegInv(k1, m1),
           NEW u1, u1 = wrapping_mul(l, k1)
    PROVE  u1 \in Word /\ (u1 * Limb(m1, 0) + l) % B = 0
<1> DEFINE zero == 0
           s    == LowestSum(l, zero, zero)
<1>1. B \in Nat /\ B > 0 /\ l \in Nat /\ l \in 0..(B - 1) /\ zero \in Nat
      /\ l \in Int /\ 0 \in Int /\ l = B * 0 + l
  BY BaseFacts, SMT DEF Word
<1>2. l % B = l
  BY <1>1, DivisionIs
<1>3. s = l
  <2>1. Limb(l, 0) = l /\ Limb(zero, 0) \in Word
    BY <1>1, <1>2, LowestLimb
  <2>2. Limb(zero, 0) \in Int
    BY <2>1, <1>1, SMT DEF Word
  <2>3. 0 * Limb(zero, 0) + l = l
    BY <2>2, <1>1, SMT
  <2> QED
    BY <2>1, <2>3 DEF LowestSum
<1>4. u1 = ((s % B) * k1) % B
  BY <1>2, <1>3 DEF wrapping_mul
<1>5. s = LowestSum(l, zero, zero)
  OBVIOUS
<1> HIDE DEF zero, s
<1>6. u1 \in Word /\ (u1 * Limb(m1, 0) + s) % B = 0
  BY <1>1, <1>4, <1>5, RowStarts, SMTT(30)
<1> QED
  BY <1>3, <1>6

\* The operators of the reduction are the ones of this module.
LEMMA RedOps ==
    /\ Red!B = B /\ Red!R = R /\ Red!Word = Word /\ Red!Uint = Uint
    /\ \A v, l : Red!Limb(v, l) = Limb(v, l)
    /\ \A v, l, w : Red!SetLimb(v, l, w) = SetLimb(v, l, w)
    /\ \A v, w : Red!wrapping_mul(v, w) = wrapping_mul(v, w)
    /\ \A v, w, c : Red!carrying_add(v, w, c) = carrying_add(v, w, c)
    /\ \A v, w, a, c : Red!carrying_mul_add(v, w, a, c) = carrying_mul_add(v, w, a, c)
    /\ \A v, w : Red!IsModNegInv(v, w) = IsModNegInv(v, w)
    /\ \A v, c, w : Red!TrySubWithCarry(v, c, w) = TrySubWithCarry(v, c, w)
    BY DEF Red!B, B, Red!R, R, Red!Word, Word, Red!Uint, Uint, Red!Limb, Limb,
           Red!SetLimb, SetLimb, Red!wrapping_mul, wrapping_mul,
           Red!carrying_add, carrying_add,
           Red!carrying_mul_add, carrying_mul_add,
           Red!Lo, Lo, Red!Hi, Hi, Red!IsModNegInv, IsModNegInv,
           Red!TrySubWithCarry, TrySubWithCarry,
           Red!UintBorrowingSub, UintBorrowingSub, Red!BorrowBit, BorrowBit,
           Red!lsb_to_choice, lsb_to_choice, Red!is_zero, is_zero,
           Red!Select, Select, Red!borrowing_sub, borrowing_sub,
           Red!Mask, Mask, Red!WordMAX, WordMAX

\* Between rows: the limbs alive in the two halves, and the meta-carry.
RedWhole(lo, up, meta, ii, sum) ==
    (lo - (lo % W[ii])) + up * R + meta * W[N + ii] = sum

\* Within row ii, once the multiple has been added to jj limbs.
RedPartial(lo, up, c, meta, ii, jj, sum) ==
    (lo - (lo % W[ii + 1])) + up * R + c * W[ii + jj] + meta * W[N + ii] = sum

\* The inductive invariant of a reduction.
RedInv ==
    /\ Red!TypeOK
    /\ q < W[i]
    /\ pc \in {"correct", "done"} <=> i = N
    /\ pc \in {"row", "correct"} =>
           RedWhole(lower, upper, meta_carry, i, t + q * m)
    /\ pc \in {"lower", "upper", "top"} =>
           /\ j \in 1..N /\ pc = Red!LoopFor(j)
           /\ RedPartial(lower, upper, carry, meta_carry, i, j,
                         t + q * m + u * (m % W[j]) * W[i])
    /\ Red!ResultReduced

LEMMA RedTypes ==
    ASSUME RedInv
    PROVE  /\ t \in Nat /\ t < W[2 * N] /\ m \in Uint /\ m \in Nat /\ m > 0
           /\ k \in Word /\ k \in Nat /\ IsModNegInv(k, m)
           /\ lower \in Uint /\ lower \in Nat /\ upper \in Uint /\ upper \in Nat
           /\ q \in Nat /\ q < R /\ q < W[i]
           /\ meta_carry \in {0, 1} /\ meta_carry \in Nat
           /\ u \in Word /\ u \in Nat /\ carry \in Word /\ carry \in Nat
           /\ i \in 0..N /\ j \in 0..N
<1>1. R \in Nat /\ R > 0 /\ B \in Nat /\ B > 0 /\ 2 * N \in 0..(2 * N)
  BY BaseFacts, SMT
<1>2. W[2 * N] \in Nat
  BY <1>1, WeightFacts
<1>3. /\ t \in 0..(W[2 * N] - 1) /\ m \in Uint /\ m % 2 = 1
      /\ k \in Word /\ IsModNegInv(k, m)
      /\ lower \in Uint /\ upper \in Uint /\ q \in Uint /\ q < W[i]
      /\ meta_carry \in {0, 1} /\ u \in Word /\ carry \in Word
      /\ i \in 0..N /\ j \in 0..N
  BY RedOps DEF RedInv, Red!TypeOK
<1> QED
  BY <1>1, <1>2, <1>3, SMT DEF Uint, Word

LEMMA RedInitInv == m \in Moduli /\ Red!Init => RedInv
<1> SUFFICES ASSUME m \in Moduli, Red!Init PROVE RedInv
  OBVIOUS
<1>1. /\ R \in Nat /\ R > 0 /\ B \in Nat /\ B > 0 /\ N \in Nat /\ N > 0
      /\ 2 * N \in 0..(2 * N) /\ N \in 0..(2 * N) /\ N + N = 2 * N
      /\ N + N <= 2 * N /\ W[0] = 1 /\ 0 \in 0..N /\ N # 0
  BY BaseFacts, WeightAssumption, SMT
<1>2. /\ t \in 0..(W[2 * N] - 1) /\ m \in Uint /\ m % 2 = 1
      /\ k \in Word /\ IsModNegInv(k, m)
      /\ lower = t % R /\ upper = t \div R
      /\ meta_carry = 0 /\ i = 0 /\ j = 0 /\ u = 0 /\ carry = 0 /\ q = 0
      /\ pc = "row"
  BY RedOps DEF Red!Init
<1>3. W[2 * N] = R * R
  BY <1>1, WeightsMultiply DEF R
<1>4. W[N + 0] \in Int /\ W[2 * N] \in Nat
  BY <1>1, WeightFacts, SMT
<1>5. t \in Int /\ t >= 0 /\ t < R * R
  BY <1>2, <1>3, <1>4, SMT
<1>6. lower \in Nat /\ lower < R /\ upper \in Nat /\ t = R * upper + lower
  BY <1>1, <1>2, <1>5, DivMod
<1>7. upper < R
  <2>1. R * upper \in Int /\ R * R \in Int
    BY <1>1, <1>6, SMT
  <2>2. R * upper < R * R
    <3> DEFINE a == R * upper
               b == R * R
    <3>1. a \in Int /\ b \in Int /\ t = a + lower /\ t < b
      BY <2>1, <1>5, <1>6
    <3> HIDE DEF a, b
    <3>2. a < b
      BY <3>1, <1>5, <1>6, SMT
    <3> QED
      BY <3>2 DEF a, b
  <2> QED
    BY <2>2, <1>1, <1>6, Cancel, SMT
<1>8. lower \in Uint /\ upper \in Uint /\ 0 \in Uint /\ 0 \in Word /\ 0 \in 0..N
  BY <1>1, <1>6, <1>7, SMT DEF Uint, Word
<1>9. Red!TypeOK
  BY <1>2, <1>8, RedOps DEF Red!TypeOK
<1>10. RedWhole(lower, upper, meta_carry, i, t + q * m)
  <2>1. lower % W[0] = 0
    BY <1>6, LowestLimb
  <2>2. upper * R = R * upper /\ 0 * W[N + 0] = 0 /\ 0 * m = 0 /\ m \in Int
    BY <1>1, <1>2, <1>4, <1>6, SMT DEF Uint
  <2>3. (lower - 0) + R * upper + 0 = t + 0
    <3> DEFINE a == R * upper
    <3>1. a \in Int /\ t = a + lower
      BY <1>1, <1>6, SMT
    <3> HIDE DEF a
    <3>2. (lower - 0) + a + 0 = t + 0
      BY <3>1, <1>5, <1>6, SMT
    <3> QED
      BY <3>2 DEF a
  <2> QED
    BY <2>1, <2>2, <2>3, <1>2 DEF RedWhole
<1> QED
  BY <1>1, <1>2, <1>9, <1>10, RedOps DEF RedInv, Red!ResultReduced

\* The start of a row: limb i is cleared by adding the multiple, and dropped.
LEMMA RedStartInv == RedInv /\ Red!StartRow => RedInv'
<1> SUFFICES ASSUME RedInv, Red!StartRow PROVE RedInv'
  OBVIOUS
<1> DEFINE l  == Limb(lower, i)
           m0 == Limb(m, 0)
           p  == carrying_mul_add(u', m0, l, 0)
           c  == p[2]
           w  == W[i]
           dl == lower % W[i]
<1>1. /\ R \in Nat /\ B \in Nat /\ B >= 2 /\ N \in Nat /\ N > 0 /\ 1 \in 0..N
      /\ 0 \in 0..(2 * N)
  BY BaseFacts, SMT
<1>2. /\ u' = wrapping_mul(l, k) /\ carry' = c /\ j' = 1
      /\ pc' = Red!LoopFor(1)
      /\ UNCHANGED <<t, m, k, lower, upper, meta_carry, i, q>>
      /\ pc = "row"
  BY RedOps DEF Red!StartRow, Red!params
<1>3. i # N /\ RedWhole(lower, upper, meta_carry, i, t + q * m)
  BY <1>2 DEF RedInv
<1>4. /\ i \in 0..(N - 1) /\ i \in 0..(2 * N) /\ i \in 0..(2 * N - 1)
      /\ i < 2 * N
      /\ pc' \in {"lower", "upper", "top"} /\ 1 \in 1..N
  <2>1. i \in 0..N
    BY RedTypes
  <2>2. Red!LoopFor(1) \in {"lower", "upper", "top"}
    BY DEF Red!LoopFor
  <2> QED
    BY <2>1, <2>2, <1>1, <1>2, <1>3, SMT
<1>5. l \in Word /\ m0 \in Word
  BY <1>1, <1>4, RedTypes, LimbType
<1>6. u' \in Word /\ (u' * m0 + l) % B = 0
  <2> HIDE DEF l
  <2> QED
    BY <1>2, <1>5, RedTypes, WordStarts
<1>7. /\ p[1] \in Word /\ c \in Word
      /\ p[1] + B * c = u' * m0 + l + 0
  <2>1. 0 \in Word
    BY <1>1, SMT DEF Word
  <2> HIDE DEF l, m0
  <2> QED
    BY <2>1, <1>5, <1>6, MulAddExact
<1> DEFINE um == u' * m0
           v  == um + l
<1>8. /\ um \in Int /\ l \in Int /\ v \in Nat /\ v % B = 0
      /\ p[1] \in 0..(B - 1) /\ c \in Int /\ c \in Nat
  <2>1. /\ u' \in Nat /\ m0 \in Nat /\ l \in Nat /\ p[1] \in 0..(B - 1)
        /\ c \in Int /\ c \in Nat
    <3> HIDE DEF l, m0, p
    <3> QED
      BY <1>1, <1>5, <1>6, <1>7, SMT DEF Word
  <2>2. um \in Nat
    BY <2>1, SMT
  <2> HIDE DEF um, l
  <2> QED
    BY <2>1, <2>2, <1>6, SMT DEF um
<1>9. B * c = um + l
  <2>1. v \in Int /\ v = B * c + p[1]
    <3> HIDE DEF c, p, um, l
    <3> QED
      BY <1>1, <1>7, <1>8, SMT DEF um
  <2> HIDE DEF v, c
  <2>2. p[1] = v % B
    <3> DEFINE z == p[1]
    <3>1. v = B * c + z /\ z \in 0..(B - 1) /\ c \in Int /\ v \in Int
      BY <2>1, <1>8
    <3> HIDE DEF z
    <3>2. v % B = z
      BY <3>1, <1>1, DivisionIs
    <3> QED
      BY <3>2 DEF z
  <2>3. v = B * c
    <3> DEFINE z == p[1]
    <3>1. z = 0 /\ v = B * c + z
      BY <2>1, <2>2, <1>8
    <3>2. B * c \in Int
      BY <1>1, <1>8, SMT
    <3> HIDE DEF z
    <3> QED
      BY <3>1, <3>2, SMT
  <2> QED
    BY <2>3 DEF v
<1>10. /\ w \in Int /\ W[i + 1] = B * w /\ W[N + i] \in Int
       /\ dl \in Int /\ lower % W[i + 1] = dl + w * l
  <2>1. lower % W[i + 1] = dl + w * l
    BY <1>4, RedTypes, LowLimbs
  <2>2. N + i \in 0..(2 * N)
    BY <1>1, <1>4, SMT
  <2>3. w \in Nat /\ w > 0 /\ W[i + 1] = B * w /\ W[N + i] \in Nat
    BY <2>2, <1>4, WeightFacts
  <2>4. lower \in Int
    BY RedTypes, SMT
  <2>5. dl \in Nat
    BY <2>3, <2>4, DivMod
  <2> HIDE DEF dl, w, l
  <2> QED
    BY <2>1, <2>3, <2>5, SMT
<1>11. m % W[1] = m0
  BY RedTypes, LowestLimb
<1>12. RedPartial(lower, upper, c, meta_carry, i, 1,
                  t + q * m + u' * m0 * W[i])
  <2> DEFINE a == upper * R
             b == meta_carry * W[N + i]
             d == q * m
             e == u' * m0 * w
             f == w * l
             g == c * (B * w)
  <2>1. (lower - dl) + a + b = t + d
    BY <1>3 DEF RedWhole
  <2>2. g = e + f
    <3>1. c * (B * w) = (B * c) * w
      BY <1>1, <1>8, <1>10, SMT
    <3>2. (um + l) * w = um * w + w * l
      <4> HIDE DEF um, l, w
      <4> QED
        BY <1>8, <1>10, SMT
    <3> QED
      BY <3>1, <3>2, <1>9
  <2>3. /\ a \in Int /\ b \in Int /\ d \in Int /\ f \in Int /\ g \in Int
        /\ lower \in Int /\ t \in Int
    BY <1>1, <1>8, <1>10, RedTypes, SMT
  <2>4. e \in Int
    <3> HIDE DEF w
    <3>1. um * w \in Int
      BY <1>8, <1>10, SMT
    <3> QED
      BY <3>1
  <2> HIDE DEF a, b, d, e, f, g, dl
  <2>5. (lower - (dl + f)) + a + g + b = t + d + e
    BY <2>1, <2>2, <2>3, <2>4, <1>10, SMT
  <2> QED
    BY <2>5, <1>10 DEF RedPartial, a, b, d, e, f, g
<1>13. RedPartial(lower', upper', carry', meta_carry', i', j',
                  t' + q' * m' + u' * (m' % W[j']) * W[i'])
  BY <1>2, <1>11, <1>12
<1>14. Red!TypeOK'
  BY <1>1, <1>2, <1>4, <1>6, <1>7, RedOps DEF RedInv, Red!TypeOK
<1>15. pc' \notin {"row", "correct", "done"} /\ j' \in 1..N /\ q' < W[i']
  BY <1>1, <1>2, <1>4, RedTypes
<1>16. Red!LoopFor(j)' = Red!LoopFor(1)
  BY <1>2 DEF Red!LoopFor
<1> QED
  BY <1>2, <1>3, <1>13, <1>14, <1>15, <1>16, RedOps DEF RedInv, Red!ResultReduced

\* A limb of the lower half.
LEMMA RedLowerInv == RedInv /\ Red!LowerLimb => RedInv'
<1> SUFFICES ASSUME RedInv, Red!LowerLimb PROVE RedInv'
  OBVIOUS
<1> DEFINE l  == i + j
           ml == Limb(m, j)
           r  == carrying_mul_add(u, ml, Limb(lower, l), carry)
           p1 == r[1]
           p2 == r[2]
           e  == u * ml + carry
<1>1. R \in Nat /\ B \in Nat /\ B >= 2 /\ N \in Nat /\ N > 0
  BY BaseFacts, SMT
<1>2. /\ lower' = SetLimb(lower, l, p1) /\ carry' = p2 /\ j' = j + 1
      /\ pc' = Red!LoopFor(j + 1) /\ pc = "lower"
      /\ UNCHANGED <<t, m, k, upper, meta_carry, i, u, q>>
  BY RedOps DEF Red!LowerLimb, Red!params
<1>3. /\ i # N /\ j \in 1..N /\ j < N - i
      /\ RedPartial(lower, upper, carry, meta_carry, i, j,
                    t + q * m + u * (m % W[j]) * W[i])
  <2>1. i # N /\ j \in 1..N /\ Red!LoopFor(j) = "lower"
        /\ RedPartial(lower, upper, carry, meta_carry, i, j,
                      t + q * m + u * (m % W[j]) * W[i])
    BY <1>2 DEF RedInv
  <2> QED
    BY <2>1 DEF Red!LoopFor
<1>4. /\ i \in 0..(N - 1) /\ i \in 0..(2 * N) /\ j \in 0..(N - 1)
      /\ j \in 0..(2 * N) /\ j \in 0..(2 * N - 1) /\ j < 2 * N
      /\ l \in 0..(N - 1) /\ l \in 0..(2 * N - 1) /\ l \in 0..(2 * N)
      /\ i + 1 \in 0..l /\ l + 1 \in 0..(2 * N) /\ l < 2 * N
      /\ i + (j + 1) = l + 1 /\ j + 1 \in 1..N /\ j + 1 \in 0..N
      /\ N + i \in 0..(2 * N) /\ l <= 2 * N /\ i + 1 \in 0..(2 * N)
  <2>1. i \in 0..N
    BY RedTypes
  <2> QED
    BY <2>1, <1>1, <1>3, SMT
<1>5. ml \in Word /\ Limb(lower, l) \in Word
  BY <1>4, RedTypes, LimbType
<1>6. p1 \in Word /\ p2 \in Word /\ p1 + B * p2 = u * ml + Limb(lower, l) + carry
  <2> HIDE DEF l, ml
  <2> QED
    BY <1>5, RedTypes, MulAddExact
<1>7. /\ e \in Int /\ p1 \in Int /\ p2 \in Int /\ ml \in Int
      /\ p1 + B * p2 = e + Limb(lower, l)
  <2> DEFINE ll == Limb(lower, l)
             um == u * ml
  <2>1. ll \in Int /\ p1 \in Int /\ p2 \in Int /\ ml \in Int
    <3> HIDE DEF p1, p2, ml, l
    <3> QED
      BY <1>1, <1>5, <1>6, SMT DEF Word
  <2>2. um \in Int
    <3> HIDE DEF ml
    <3> QED
      BY <2>1, RedTypes, SMT
  <2>3. p1 + B * p2 = um + ll + carry
    BY <1>6
  <2> HIDE DEF ll, um, p1, p2
  <2>4. um + carry \in Int /\ p1 + B * p2 = (um + carry) + ll
    BY <2>1, <2>2, <2>3, RedTypes, SMT
  <2> QED
    BY <2>1, <2>4 DEF ll, um
<1>8. lower' + p2 * W[l + 1] = lower + e * W[l]
  <2> HIDE DEF e, p1, p2, l
  <2>1. SetLimb(lower, l, p1) + p2 * W[l + 1] = lower + e * W[l]
    BY <1>4, <1>7, RedTypes, LimbAdds
  <2> QED
    BY <2>1, <1>2
<1>9. lower' \in Uint /\ lower' % W[i + 1] = lower % W[i + 1]
  <2> HIDE DEF p1, l
  <2>1. SetLimb(lower, l, p1) \in Uint
    BY <1>4, <1>6, RedTypes, SetLimbFacts
  <2>2. SetLimb(lower, l, p1) % W[i + 1] = lower % W[i + 1]
    BY <1>4, <1>6, RedTypes, SetLimbKeepsBelow
  <2> QED
    BY <2>1, <2>2, <1>2
<1>10. W[l + 1] \in Int /\ W[N + i] \in Int /\ W[i + 1] \in Nat /\ W[i + 1] > 0
  <2>1. W[l + 1] \in Nat /\ W[N + i] \in Nat /\ W[i + 1] \in Nat /\ W[i + 1] > 0
    BY <1>4, WeightFacts
  <2> HIDE DEF l
  <2> QED
    BY <2>1, SMT
<1>11. RedPartial(lower', upper, p2, meta_carry, i, j + 1,
                  t + q * m + u * (m % W[j + 1]) * W[i])
  <2> DEFINE a  == upper * R
             b  == meta_carry * W[N + i]
             d  == q * m
             f  == u * (m % W[j]) * W[i]
             g  == u * (m % W[j + 1]) * W[i]
             c0 == carry * W[l]
             c1 == p2 * W[l + 1]
             dl == lower % W[i + 1]
             h  == e * W[l]
             nl == lower'
  <2>1. (lower - dl) + a + c0 + b = t + d + f
    BY <1>3 DEF RedPartial
  <2>2. f \in Int /\ g \in Int /\ c0 \in Int /\ h \in Int /\ g + c0 = f + h
    <3>1. RowFactors(m, u, carry, i, j)
      BY <1>4, RedTypes DEF RowFactors
    <3> QED
      BY <3>1, RowGrows
  <2>3. /\ a \in Int /\ b \in Int /\ d \in Int /\ c1 \in Int
        /\ lower \in Int /\ t \in Int
    <3> HIDE DEF l, p2
    <3> QED
      BY <1>1, <1>7, <1>10, RedTypes, SMT
  <2>4. dl \in Nat /\ nl \in Nat /\ nl + c1 = lower + h
    BY <1>8, <1>9, <1>10, <2>3, DivMod, LowIsAll
  <2> HIDE DEF a, b, d, f, g, h, c0, c1, dl, nl
  <2>5. (nl - dl) + a + c1 + b = ((lower - dl) + a + c0 + b) + (h - c0)
    BY <2>2, <2>3, <2>4, SMT
  <2>6. (t + d + f) + (h - c0) = t + d + g
    BY <2>2, <2>3, SMT
  <2>7. (nl - dl) + a + c1 + b = t + d + g
    BY <2>1, <2>5, <2>6
  <2> QED
    BY <2>7, <1>4, <1>9 DEF RedPartial, a, b, d, g, c1, dl, nl
<1>12. RedPartial(lower', upper', carry', meta_carry', i', j',
                  t' + q' * m' + u' * (m' % W[j']) * W[i'])
  <2> HIDE DEF p2
  <2> QED
    BY <1>2, <1>11
<1>13. /\ pc' \in {"lower", "upper", "top"}
       /\ Red!LoopFor(j)' = Red!LoopFor(j + 1)
  BY <1>2 DEF Red!LoopFor
<1>14. Red!TypeOK'
  <2> HIDE DEF p2
  <2> QED
    BY <1>1, <1>2, <1>4, <1>6, <1>9, <1>13, RedOps DEF RedInv, Red!TypeOK
<1>15. j' \in 1..N /\ q' < W[i'] /\ i' # N
  BY <1>2, <1>3, <1>4, RedTypes
<1> QED
  BY <1>2, <1>12, <1>13, <1>14, <1>15, RedOps DEF RedInv, Red!ResultReduced

\* A limb of the upper half.
LEMMA RedUpperInv == RedInv /\ Red!UpperLimb => RedInv'
<1> SUFFICES ASSUME RedInv, Red!UpperLimb PROVE RedInv'
  OBVIOUS
<1> DEFINE l  == i + j - N
           ml == Limb(m, j)
           r  == carrying_mul_add(u, ml, Limb(upper, l), carry)
           p1 == r[1]
           p2 == r[2]
           e  == u * ml + carry
<1>1. R \in Nat /\ B \in Nat /\ B >= 2 /\ N \in Nat /\ N > 0
  BY BaseFacts, SMT
<1>2. /\ upper' = SetLimb(upper, l, p1) /\ carry' = p2 /\ j' = j + 1
      /\ pc' = Red!LoopFor(j + 1) /\ pc = "upper"
      /\ UNCHANGED <<t, m, k, lower, meta_carry, i, u, q>>
  BY RedOps DEF Red!UpperLimb, Red!params
<1>3. /\ i # N /\ j \in 1..N /\ ~(j < N - i) /\ j < N
      /\ RedPartial(lower, upper, carry, meta_carry, i, j,
                    t + q * m + u * (m % W[j]) * W[i])
  <2>1. i # N /\ j \in 1..N /\ Red!LoopFor(j) = "upper"
        /\ RedPartial(lower, upper, carry, meta_carry, i, j,
                      t + q * m + u * (m % W[j]) * W[i])
    BY <1>2 DEF RedInv
  <2> QED
    BY <2>1 DEF Red!LoopFor
<1>4. /\ i \in 0..(N - 1) /\ j \in 0..(N - 1)
      /\ l \in 0..(N - 1) /\ l \in 0..(2 * N)
      /\ N + l = i + j /\ N + (l + 1) = i + (j + 1)
      /\ j + 1 \in 1..N /\ j + 1 \in 0..N
      /\ N + i \in 0..(2 * N) /\ i + 1 \in 0..(2 * N)
      /\ i + (j + 1) \in 0..(2 * N) /\ j \in 0..(2 * N)
  <2>1. i \in 0..N
    BY RedTypes
  <2> QED
    BY <2>1, <1>1, <1>3, SMT
<1>5. ml \in Word /\ Limb(upper, l) \in Word
  BY <1>4, RedTypes, LimbType
<1>6. p1 \in Word /\ p2 \in Word /\ p1 + B * p2 = u * ml + Limb(upper, l) + carry
  <2> HIDE DEF l, ml
  <2> QED
    BY <1>5, RedTypes, MulAddExact
<1>7. /\ e \in Int /\ p1 \in Int /\ p2 \in Int /\ ml \in Int
      /\ p1 + B * p2 = e + Limb(upper, l)
  <2> DEFINE ll == Limb(upper, l)
             um == u * ml
  <2>1. ll \in Int /\ p1 \in Int /\ p2 \in Int /\ ml \in Int
    <3> HIDE DEF p1, p2, ml, l
    <3> QED
      BY <1>1, <1>5, <1>6, SMT DEF Word
  <2>2. um \in Int
    <3> HIDE DEF ml
    <3> QED
      BY <2>1, RedTypes, SMT
  <2>3. p1 + B * p2 = um + ll + carry
    BY <1>6
  <2> HIDE DEF ll, um, p1, p2
  <2>4. um + carry \in Int /\ p1 + B * p2 = (um + carry) + ll
    BY <2>1, <2>2, <2>3, RedTypes, SMT
  <2> QED
    BY <2>1, <2>4 DEF ll, um
<1>8. upper' \in Uint
  <2> HIDE DEF p1, l
  <2>1. SetLimb(upper, l, p1) \in Uint
    BY <1>4, <1>6, RedTypes, SetLimbFacts
  <2> QED
    BY <2>1, <1>2
<1>9. upper' * R + p2 * W[i + (j + 1)] = upper * R + e * W[i + j]
  <2> HIDE DEF e, p1, p2, l
  <2>1. upper' \in Int
    BY <1>8, <1>1, SMT DEF Uint
  <2>2. SetLimb(upper, l, p1) * R + p2 * W[N + (l + 1)] = upper * R + e * W[N + l]
    BY <2>1, <1>2, <1>4, <1>7, RedTypes, UpperLimbAdds
  <2> QED
    BY <2>2, <1>2, <1>4
<1>10. /\ W[i + (j + 1)] \in Int /\ W[N + i] \in Int
       /\ W[i + 1] \in Nat /\ W[i + 1] > 0
  <2>1. /\ W[i + (j + 1)] \in Nat /\ W[N + i] \in Nat
        /\ W[i + 1] \in Nat /\ W[i + 1] > 0
    BY <1>4, WeightFacts
  <2> QED
    BY <2>1, SMT
<1>11. RedPartial(lower, upper', p2, meta_carry, i, j + 1,
                  t + q * m + u * (m % W[j + 1]) * W[i])
  <2> DEFINE a  == upper * R
             na == upper' * R
             b  == meta_carry * W[N + i]
             d  == q * m
             f  == u * (m % W[j]) * W[i]
             g  == u * (m % W[j + 1]) * W[i]
             c0 == carry * W[i + j]
             c1 == p2 * W[i + (j + 1)]
             dl == lower % W[i + 1]
             h  == e * W[i + j]
  <2>1. (lower - dl) + a + c0 + b = t + d + f
    BY <1>3 DEF RedPartial
  <2>2. f \in Int /\ g \in Int /\ c0 \in Int /\ h \in Int /\ g + c0 = f + h
    <3>1. RowFactors(m, u, carry, i, j)
      BY <1>4, RedTypes DEF RowFactors
    <3> QED
      BY <3>1, RowGrows
  <2>3. /\ a \in Int /\ b \in Int /\ d \in Int /\ c1 \in Int
        /\ lower \in Int /\ t \in Int
    <3> HIDE DEF l, p2
    <3> QED
      BY <1>1, <1>7, <1>10, RedTypes, SMT
  <2>4. dl \in Nat /\ na \in Int
    <3>1. upper' \in Int
      BY <1>8, <1>1, SMT DEF Uint
    <3>2. na \in Int
      BY <3>1, <1>1, SMT
    <3> QED
      BY <3>2, <1>10, <2>3, DivMod
  <2>5. na + c1 = a + h
    BY <1>9
  <2> HIDE DEF a, na, b, d, f, g, h, c0, c1, dl
  <2>6. (lower - dl) + na + c1 + b = ((lower - dl) + a + c0 + b) + (h - c0)
    BY <2>2, <2>3, <2>4, <2>5, SMT
  <2>7. (t + d + f) + (h - c0) = t + d + g
    BY <2>2, <2>3, SMT
  <2>8. (lower - dl) + na + c1 + b = t + d + g
    BY <2>1, <2>6, <2>7
  <2> QED
    BY <2>8 DEF RedPartial, na, b, d, g, c1, dl
<1>12. RedPartial(lower', upper', carry', meta_carry', i', j',
                  t' + q' * m' + u' * (m' % W[j']) * W[i'])
  <2> HIDE DEF p2
  <2> QED
    BY <1>2, <1>11
<1>13. /\ pc' \in {"lower", "upper", "top"}
       /\ Red!LoopFor(j)' = Red!LoopFor(j + 1)
  BY <1>2 DEF Red!LoopFor
<1>14. Red!TypeOK'
  <2> HIDE DEF p2
  <2> QED
    BY <1>1, <1>2, <1>4, <1>6, <1>8, <1>13, RedOps DEF RedInv, Red!TypeOK
<1>15. j' \in 1..N /\ q' < W[i'] /\ i' # N
  BY <1>2, <1>3, <1>4, RedTypes
<1> QED
  BY <1>2, <1>12, <1>13, <1>14, <1>15, RedOps DEF RedInv, Red!ResultReduced

\* The end of a row: the carry of the row and the meta-carry meet above it.
LEMMA RedTopInv == RedInv /\ Red!Top => RedInv'
<1> SUFFICES ASSUME RedInv, Red!Top PROVE RedInv'
  OBVIOUS
<1> DEFINE ul == Limb(upper, i)
           s  == carrying_add(ul, carry, meta_carry)
           s1 == s[1]
           s2 == s[2]
           e  == carry + meta_carry
           nq == q + u * W[i]
<1>1. R \in Nat /\ B \in Nat /\ B >= 2 /\ N \in Nat /\ N > 0
  BY BaseFacts, SMT
<1>2. /\ upper' = SetLimb(upper, i, s1) /\ meta_carry' = s2
      /\ q' = nq /\ i' = i + 1
      /\ pc' = (IF i + 1 = N THEN "correct" ELSE "row") /\ pc = "top"
      /\ UNCHANGED <<t, m, k, lower, j, u, carry>>
  BY RedOps DEF Red!Top, Red!params
<1>3. /\ i # N /\ j = N
      /\ RedPartial(lower, upper, carry, meta_carry, i, j,
                    t + q * m + u * (m % W[j]) * W[i])
  <2>1. i # N /\ j \in 1..N /\ Red!LoopFor(j) = "top"
        /\ RedPartial(lower, upper, carry, meta_carry, i, j,
                      t + q * m + u * (m % W[j]) * W[i])
    BY <1>2 DEF RedInv
  <2>2. ~(j < N)
    BY <2>1 DEF Red!LoopFor
  <2> QED
    BY <2>1, <2>2, <1>1, SMT
<1>4. /\ i \in 0..(N - 1) /\ i \in 0..(2 * N - 1) /\ i \in 0..(2 * N)
      /\ i + 1 \in 0..N /\ i + 1 \in 0..(2 * N)
      /\ N + i \in 0..(2 * N) /\ N + (i + 1) \in 0..(2 * N)
      /\ i + N = N + i /\ N + (i + 1) = i + (N + 1)
  <2>1. i \in 0..N
    BY RedTypes
  <2> QED
    BY <2>1, <1>1, <1>3, SMT
<1>5. ul \in Word
  BY <1>4, RedTypes, LimbType
<1>6. meta_carry \in Word /\ meta_carry <= 1
  BY <1>1, RedTypes, SMT DEF Word
<1>7. /\ s1 \in Word /\ s2 \in Word /\ s1 + B * s2 = ul + carry + meta_carry
      /\ s2 <= 1
  <2> HIDE DEF ul
  <2> QED
    BY <1>5, <1>6, RedTypes, CarryingAddExact
<1>8. s2 \in {0, 1} /\ s2 \in Int /\ s1 \in Int /\ e \in Int
  <2> HIDE DEF s2, s1
  <2> QED
    BY <1>1, <1>7, RedTypes, SMT DEF Word
<1>9. s1 + B * s2 = e + ul
  <2>1. ul \in Int
    <3> HIDE DEF ul
    <3> QED
      BY <1>1, <1>5, SMT DEF Word
  <2> HIDE DEF ul, s1, s2
  <2> QED
    BY <2>1, <1>7, RedTypes, SMT
<1>10. upper' \in Uint
  <2> HIDE DEF s1
  <2> QED
    BY <1>2, <1>4, <1>7, RedTypes, SetLimbFacts
<1>11. upper' * R + s2 * W[N + (i + 1)] = upper * R + e * W[N + i]
  <2> HIDE DEF e, s1, s2
  <2>1. SetLimb(upper, i, s1) \in Int
    BY <1>2, <1>10, <1>1, SMT DEF Uint
  <2> QED
    BY <2>1, <1>2, <1>4, <1>8, <1>9, RedTypes, UpperLimbAdds
<1>12. /\ W[N + i] \in Int /\ W[N + (i + 1)] \in Int /\ W[i] \in Int
       /\ W[i + 1] \in Nat /\ W[i + 1] > 0
  <2>1. /\ W[N + i] \in Nat /\ W[N + (i + 1)] \in Nat /\ W[i] \in Nat
        /\ W[i + 1] \in Nat /\ W[i + 1] > 0
    BY <1>4, WeightFacts
  <2> QED
    BY <2>1, SMT
<1>13. nq \in Uint /\ nq < W[i + 1]
  <2>1. nq \in Nat /\ nq < W[i + 1]
    BY <1>4, RedTypes, MultipleGrows
  <2>2. W[i + 1] <= R
    BY <1>4, WeightBelowRadix
  <2> HIDE DEF nq
  <2> QED
    BY <2>1, <2>2, <1>1, <1>12, SMT DEF Uint
<1>14. RedWhole(lower, upper', s2, i + 1, t + nq * m)
  <2> DEFINE a  == upper * R
             na == upper' * R
             b  == meta_carry * W[N + i]
             c  == carry * W[N + i]
             d  == q * m
             f  == u * m * W[i]
             g  == s2 * W[N + (i + 1)]
             dl == lower % W[i + 1]
  <2>1. (lower - dl) + a + c + b = t + d + f
    <3>1. m % W[N] = m
      BY RedTypes, LowIsAll
    <3> QED
      BY <3>1, <1>3, <1>4 DEF RedPartial
  <2>2. e * W[N + i] = c + b
    BY <1>12, RedTypes, SMT
  <2>3. nq * m = d + f
    <3>1. (q + u * W[i]) * m = q * m + (u * W[i]) * m
      <4> DEFINE v == u * W[i]
      <4>1. v \in Int
        BY <1>12, RedTypes, SMT
      <4> HIDE DEF v
      <4>2. (q + v) * m = q * m + v * m
        BY <4>1, RedTypes, SMT
      <4> QED
        BY <4>2 DEF v
    <3>2. (u * W[i]) * m = u * m * W[i]
      BY <1>12, RedTypes, SMT
    <3> QED
      BY <3>1, <3>2
  <2>4. /\ a \in Int /\ b \in Int /\ c \in Int /\ d \in Int /\ g \in Int
        /\ lower \in Int /\ t \in Int
    <3> HIDE DEF s2
    <3> QED
      BY <1>1, <1>8, <1>12, RedTypes, SMT
  <2>5. f \in Int
    <3>1. u * m \in Int
      BY RedTypes, SMT
    <3> QED
      BY <3>1, <1>12, SMT
  <2>6. dl \in Nat /\ na \in Int
    <3>1. upper' \in Int
      BY <1>10, <1>1, SMT DEF Uint
    <3>2. na \in Int
      BY <3>1, <1>1, SMT
    <3> QED
      BY <3>2, <1>12, <2>4, DivMod
  <2>7. na + g = a + (c + b)
    BY <1>11, <2>2
  <2> HIDE DEF a, na, b, c, d, f, g, dl
  <2>8. (lower - dl) + na + g = (lower - dl) + a + c + b
    BY <2>4, <2>6, <2>7, SMT
  <2>9. t + d + f = t + (d + f)
    BY <2>4, <2>5, SMT
  <2>10. (lower - dl) + na + g = t + (d + f)
    BY <2>1, <2>8, <2>9
  <2> QED
    BY <2>10, <2>3 DEF RedWhole, na, g, dl
<1>15. RedWhole(lower', upper', meta_carry', i', t' + q' * m')
  <2> HIDE DEF s2, nq
  <2> QED
    BY <1>2, <1>14
<1>16. Red!TypeOK'
  <2> HIDE DEF s2, nq
  <2> QED
    BY <1>2, <1>4, <1>8, <1>10, <1>13, RedOps DEF RedInv, Red!TypeOK
<1>17. q' < W[i'] /\ pc' \notin {"lower", "upper", "top"} /\ pc' # "done"
  <2> HIDE DEF nq
  <2> QED
    BY <1>2, <1>13
<1> QED
  BY <1>2, <1>15, <1>16, <1>17, RedOps DEF RedInv, Red!ResultReduced

\* When all rows are done the accumulator is exact and below R + m.
LEMMA RedAccumulator ==
    ASSUME RedInv, pc = "correct", NEW v, v = upper + meta_carry * R
    PROVE  /\ v \in Nat /\ v % R = upper /\ v \div R = meta_carry
           /\ v * R = t + q * m /\ v < R + m
           /\ t < m * R => v < 2 * m
<1>1. /\ R \in Nat /\ R > 0 /\ N \in Nat /\ N \in 0..(2 * N)
      /\ N + N <= 2 * N /\ N + N = 2 * N
  BY BaseFacts, SMT
<1>2. i = N /\ RedWhole(lower, upper, meta_carry, i, t + q * m)
  BY DEF RedInv
<1>3. upper \in 0..(R - 1) /\ upper \in Int /\ meta_carry \in Int /\ t \in Int
      /\ q \in Nat /\ m \in Nat /\ m > 0 /\ q < R
  BY <1>1, RedTypes, SMT DEF Uint
<1>4. v \in Nat /\ v \in Int /\ v = R * meta_carry + upper
  <2>1. meta_carry * R = R * meta_carry /\ meta_carry * R \in Nat
    BY <1>1, RedTypes, SMT
  <2> QED
    BY <2>1, <1>3, RedTypes, SMT
<1>5. v % R = upper /\ v \div R = meta_carry
  BY <1>1, <1>3, <1>4, DivisionIs
<1>6. W[N + N] = R * R
  BY <1>1, WeightsMultiply DEF R
<1>7. v * R = t + q * m
  <2> DEFINE a == upper * R
             b == meta_carry * (R * R)
             d == t + q * m
  <2>1. lower % W[N] = lower /\ lower \in Int
    BY RedTypes, LowIsAll, SMT
  <2>2. (lower - lower) + a + b = d
    BY <2>1, <1>2, <1>6 DEF RedWhole
  <2>3. a \in Int /\ b \in Int
    <3>1. R * R \in Int
      BY <1>1, SMT
    <3> QED
      BY <3>1, <1>1, <1>3, SMT
  <2>4. (upper + meta_carry * R) * R = a + b
    BY <1>1, <1>3, SMT
  <2> HIDE DEF a, b, d
  <2>5. a + b = d
    BY <2>1, <2>2, <2>3, SMT
  <2> QED
    BY <2>4, <2>5 DEF d
<1>8. t < R * R
  BY <1>1, <1>6, RedTypes
<1> DEFINE qm == q * m
           rr == R * R
           rm == R * m
<1>9. qm \in Int /\ rr \in Int /\ rm \in Int /\ qm <= rm - m
  <2>1. m * q <= m * (R - 1)
    BY <1>1, <1>3, Monotone, SMT
  <2>2. m * (R - 1) = R * m - m /\ m * q = q * m
    BY <1>1, <1>3, SMT
  <2> QED
    BY <2>1, <2>2, <1>1, <1>3, SMT
<1>10. v < R + m
  <2>1. v * R = t + qm /\ R * v = v * R /\ v * R \in Int
    BY <1>1, <1>4, <1>7, SMT
  <2>2. R * (R + m) = rr + rm
    BY <1>1, <1>3, SMT
  <2>3. R * v < R * (R + m)
    <3> DEFINE z == v * R
    <3>1. z = t + qm /\ R * v = z /\ z \in Int /\ t < rr
      BY <2>1, <1>8
    <3> HIDE DEF z, qm, rr, rm
    <3>2. z < rr + rm
      BY <3>1, <1>3, <1>9, SMT
    <3> QED
      BY <3>1, <3>2, <2>2
  <2> QED
    BY <2>3, <1>1, <1>3, <1>4, Cancel, SMT
<1>11. ASSUME t < m * R PROVE v < 2 * m
  <2>1. v * R = t + qm /\ R * v = v * R /\ v * R \in Int
    BY <1>1, <1>4, <1>7, SMT
  <2>2. R * (2 * m) = rm + rm /\ m * R = rm
    BY <1>1, <1>3, SMT
  <2>3. R * v < R * (2 * m)
    <3> DEFINE z == v * R
    <3>1. z = t + qm /\ R * v = z /\ z \in Int /\ t < rm
      BY <2>1, <2>2, <1>11
    <3> HIDE DEF z, qm, rr, rm
    <3>2. z < rm + rm
      BY <3>1, <1>3, <1>9, SMT
    <3> QED
      BY <3>1, <3>2, <2>2
  <2> QED
    BY <2>3, <1>1, <1>3, <1>4, Cancel, SMT
<1> QED
  BY <1>4, <1>5, <1>7, <1>10, <1>11

\* The final correction.
LEMMA RedCorrectInv == RedInv /\ Red!Correct => RedInv'
<1> SUFFICES ASSUME RedInv, Red!Correct PROVE RedInv'
  OBVIOUS
<1> DEFINE v == upper + meta_carry * R
<1>1. R \in Nat /\ R > 0
  BY BaseFacts
<1>2. /\ upper' = TrySubWithCarry(upper, meta_carry, m)[1]
      /\ pc = "correct" /\ pc' = "done"
      /\ UNCHANGED <<t, m, k, lower, meta_carry, i, j, u, carry, q>>
  BY RedOps DEF Red!Correct, Red!params
<1>3. /\ v \in Nat /\ v % R = upper /\ v \div R = meta_carry
      /\ v * R = t + q * m /\ v < R + m
      /\ t < m * R => v < 2 * m
  BY <1>2, RedAccumulator
<1>4. upper' = IF v < m THEN v ELSE v - m
  <2> HIDE DEF v
  <2>1. TrySubWithCarry(v % R, v \div R, m)[1] = IF v < m THEN v ELSE v - m
    BY <1>3, RedTypes, TrySubValue
  <2> QED
    BY <2>1, <1>2, <1>3
<1>5. m \in Nat /\ m > 0 /\ m < R /\ t \in Int /\ q \in Int /\ m \in Int
  BY <1>1, RedTypes, SMT DEF Uint
<1> HIDE DEF v
<1>6. upper' \in Uint /\ upper' \in Int /\ (t < m * R => upper' < m)
  BY <1>1, <1>3, <1>4, <1>5, SMT DEF Uint
<1>7. (upper' * R) % m = t % m
  <2> DEFINE z == upper' * R
             d == IF v < m THEN q ELSE q - R
  <2>1. z \in Int /\ d \in Int
    BY <1>1, <1>5, <1>6, SMT
  <2>2. z = t + d * m
    <3>1. CASE v < m
      BY <3>1, <1>3, <1>4
    <3>2. CASE ~(v < m)
      <4>1. (v - m) * R = v * R - m * R /\ (q - R) * m = q * m - m * R
        BY <1>1, <1>3, <1>5, SMT
      <4>2. (t + q * m) - m * R = t + (q * m - m * R)
        <5> DEFINE a == q * m
                   b == m * R
        <5>1. a \in Int /\ b \in Int
          BY <1>1, <1>5, SMT
        <5> HIDE DEF a, b
        <5>2. (t + a) - b = t + (a - b)
          BY <5>1, <1>5, SMT
        <5> QED
          BY <5>2 DEF a, b
      <4> QED
        BY <4>1, <4>2, <3>2, <1>3, <1>4
    <3> QED
      BY <3>1, <3>2
  <2> HIDE DEF z, d
  <2>3. z % m = t % m
    BY <2>1, <2>2, <1>5, SameResidue
  <2> QED
    BY <2>3 DEF z
<1>8. Red!TypeOK'
  BY <1>2, <1>6, RedOps DEF RedInv, Red!TypeOK
<1>9. i = N /\ q < W[i]
  BY <1>2, RedTypes DEF RedInv
<1> QED
  BY <1>2, <1>6, <1>7, <1>8, <1>9, RedOps DEF RedInv, Red!ResultReduced

\* The variables of a reduction.
ofRed == <<t, m, k, lower, upper, meta_carry, i, j, u, carry, pc, q>>

LEMMA RedNextInv == RedInv /\ (Red!Next \/ UNCHANGED ofRed) => RedInv'
<1> SUFFICES ASSUME RedInv, Red!Next \/ UNCHANGED ofRed PROVE RedInv'
  OBVIOUS
<1>1. CASE UNCHANGED ofRed
  <2>1. Red!LoopFor(j)' = Red!LoopFor(j)
    BY <1>1 DEF Red!LoopFor, ofRed
  <2>2. Red!TypeOK' /\ Red!ResultReduced'
    BY <1>1 DEF RedInv, Red!TypeOK, Red!ResultReduced, ofRed
  <2>3. UNCHANGED <<t, m, lower, upper, meta_carry, i, j, u, carry, pc, q>>
    BY <1>1 DEF ofRed
  <2> QED
    BY <2>1, <2>2, <2>3 DEF RedInv
<1>2. CASE Red!Returned
  BY <1>1, <1>2 DEF Red!Returned, Red!vars, ofRed
<1> QED
  BY <1>1, <1>2, RedStartInv, RedLowerInv, RedUpperInv, RedTopInv, RedCorrectInv
     DEF Red!Next

\* Rows and row prefixes are exact.
LEMMA RedExact == RedInv => Red!RowsExact /\ Red!RowPrefixExact
  BY RedOps DEF RedInv, RedWhole, RedPartial, Red!RowsExact, Red!Alive,
                Red!RowPrefixExact

----------------------------------------------------------------------------
(* Sums of products.                                                       *)

\* One step of the recursion that adds up the first len values of f.
Adding(f, len) ==
    [e \in Nat |-> [v \in Nat |-> v + (IF e \in 1..len THEN f[e] ELSE 0)]]

\* The values of f that are added up are natural numbers.
Summands(f, len) == \A e \in 1..len : f[e] \in Nat

\* The function that SumOfFirst is the last value of.
LEMMA SumExists ==
    ASSUME NEW len \in Nat, NEW f, Summands(f, len), NEW n \in 0..len
    PROVE  \E s : /\ IsRecursion(s, Nat, 0, n, Adding(f, len))
                  /\ Lin!SumOfFirst(n, f) = s[n]
<1> DEFINE s == CHOOSE s : s = [e \in 0..n |-> IF e = 0 THEN 0 ELSE s[e - 1] + f[e]]
<1>1. Closed(Adding(f, len), Nat)
  <2> SUFFICES ASSUME NEW e \in Nat, NEW v \in Nat
               PROVE  v + (IF e \in 1..len THEN f[e] ELSE 0) \in Nat
    BY DEF Closed, Adding
  <2>1. CASE e \in 1..len
    <3>1. f[e] \in Nat
      BY <2>1 DEF Summands
    <3> QED
      BY <3>1, <2>1, SMT
  <2>2. CASE e \notin 1..len
    BY <2>2, SMT
  <2> QED
    BY <2>1, <2>2
<1>2. n \in Nat
  BY SMT
<1>3. PICK g : IsRecursion(g, Nat, 0, n, Adding(f, len))
  BY <1>1, <1>2, RecursionExists
<1>4. ASSUME NEW e \in 1..n, NEW v \in Nat
      PROVE  Adding(f, len)[e][v] = v + f[e] /\ f[e] \in Nat
  <2>1. e \in Nat /\ e \in 1..len
    BY SMT
  <2> QED
    BY <2>1 DEF Adding, Summands
<1>5. g = [e \in 0..n |-> IF e = 0 THEN 0 ELSE g[e - 1] + f[e]]
  <2>1. g \in [0..n -> Nat] /\ g[0] = 0
        /\ \A e \in 1..n : g[e] = Adding(f, len)[e][g[e - 1]]
    BY <1>3 DEF IsRecursion
  <2>2. ASSUME NEW e \in 0..n
        PROVE  g[e] = IF e = 0 THEN 0 ELSE g[e - 1] + f[e]
    <3>1. CASE e = 0
      BY <2>1, <3>1
    <3>2. CASE e # 0
      <4>1. e \in 1..n /\ e - 1 \in 0..n
        BY <3>2, SMT
      <4> QED
        BY <2>1, <3>2, <4>1, <1>4
    <3> QED
      BY <3>1, <3>2
  <2> QED
    BY <2>1, <2>2
<1>6. s = [e \in 0..n |-> IF e = 0 THEN 0 ELSE s[e - 1] + f[e]]
  BY <1>5
<1>7. Lin!SumOfFirst(n, f) = s[n]
  BY DEF Lin!SumOfFirst
<1> HIDE DEF s
<1>8. s[0] = 0
  <2>1. 0 \in 0..n
    BY <1>2, SMT
  <2> QED
    BY <1>6, <2>1
<1>9. ASSUME NEW e \in 1..n PROVE s[e] = s[e - 1] + f[e]
  <2>1. e \in 0..n /\ e # 0
    BY SMT
  <2> QED
    BY <1>6, <2>1
<1>10. \A e \in 0..n : s[e] \in Nat
  <2>1. s[0] \in Nat
    BY <1>8
  <2>2. ASSUME NEW e \in 1..n, s[e - 1] \in Nat PROVE s[e] \in Nat
    <3>1. f[e] \in Nat
      BY <1>4
    <3> QED
      BY <3>1, <2>2, <1>9, SMT
  <2> QED
    BY <2>1, <2>2, <1>2, RecursionStaysIn
<1>11. s \in [0..n -> Nat]
  <2>1. s = [e \in 0..n |-> s[e]]
    BY <1>6
  <2> QED
    BY <2>1, <1>10
<1>12. \A e \in 1..n : s[e] = Adding(f, len)[e][s[e - 1]]
  <2> SUFFICES ASSUME NEW e \in 1..n PROVE s[e] = Adding(f, len)[e][s[e - 1]]
    OBVIOUS
  <2>1. e - 1 \in 0..n
    BY SMT
  <2> QED
    BY <1>4, <1>9, <1>10, <2>1
<1>13. IsRecursion(s, Nat, 0, n, Adding(f, len))
  BY <1>8, <1>11, <1>12 DEF IsRecursion
<1> QED
  BY <1>7, <1>13

\* A sum starts at zero, and one more value is added at a time.
LEMMA SumSteps ==
    ASSUME NEW len \in Nat, NEW f, Summands(f, len), NEW n \in 0..len
    PROVE  /\ Lin!SumOfFirst(n, f) \in Nat
           /\ Lin!SumOfFirst(0, f) = 0
           /\ n < len => Lin!SumOfFirst(n + 1, f) = Lin!SumOfFirst(n, f) + f[n + 1]
<1>1. n \in Nat /\ n \in 0..n /\ 0 \in 0..len /\ 0 \in 0..0
  BY SMT
<1>2. PICK s : /\ IsRecursion(s, Nat, 0, n, Adding(f, len))
               /\ Lin!SumOfFirst(n, f) = s[n]
  BY SumExists
<1>3. Lin!SumOfFirst(n, f) \in Nat
  BY <1>1, <1>2 DEF IsRecursion
<1>4. Lin!SumOfFirst(0, f) = 0
  BY <1>1, SumExists DEF IsRecursion
<1>5. ASSUME n < len
      PROVE  Lin!SumOfFirst(n + 1, f) = Lin!SumOfFirst(n, f) + f[n + 1]
  <2>1. /\ n + 1 \in 0..len /\ n + 1 \in Nat /\ n + 1 \in 1..(n + 1)
        /\ (n + 1) - 1 = n /\ n <= n /\ n <= n + 1 /\ n + 1 \in 1..len
        /\ n \in 0..(n + 1)
    BY <1>5, SMT
  <2>2. PICK g : /\ IsRecursion(g, Nat, 0, n + 1, Adding(f, len))
                 /\ Lin!SumOfFirst(n + 1, f) = g[n + 1]
    BY <2>1, SumExists
  <2>3. g[n] = s[n]
    BY <1>1, <1>2, <2>1, <2>2, RecursionUnique
  <2>4. g[n] \in Nat /\ g[n + 1] = Adding(f, len)[n + 1][g[n]]
    BY <2>1, <2>2 DEF IsRecursion
  <2>5. g[n + 1] = g[n] + f[n + 1]
    BY <2>1, <2>4 DEF Adding
  <2> QED
    BY <1>2, <2>2, <2>3, <2>5
<1> QED
  BY <1>3, <1>4, <1>5

\* h adds up f and w times g, value by value.
Combines(h, f, w, g, len) ==
    /\ Summands(f, len) /\ Summands(g, len) /\ Summands(h, len)
    /\ \A e \in 1..len : h[e] = f[e] + w * g[e]

\* Sums are linear.
LEMMA SumLinear ==
    ASSUME NEW len \in Nat, NEW f, NEW g, NEW h, NEW w \in Nat,
           Combines(h, f, w, g, len), NEW n \in 0..len
    PROVE  Lin!SumOfFirst(n, h) = Lin!SumOfFirst(n, f) + w * Lin!SumOfFirst(n, g)
<1> DEFINE F(e) == Lin!SumOfFirst(e, f)
           G(e) == Lin!SumOfFirst(e, g)
           H(e) == Lin!SumOfFirst(e, h)
           T    == {e \in Nat : e <= len => H(e) = F(e) + w * G(e)}
<1>0. /\ Summands(f, len) /\ Summands(g, len) /\ Summands(h, len)
      /\ \A e \in 1..len : h[e] = f[e] + w * g[e]
  BY DEF Combines
<1>1. \A e \in 0..len : F(e) \in Nat /\ G(e) \in Nat /\ H(e) \in Nat
  BY <1>0, SumSteps
<1>2. 0 \in T
  <2>1. 0 \in 0..len
    BY SMT
  <2>2. F(0) = 0 /\ G(0) = 0 /\ H(0) = 0
    BY <1>0, <2>1, SumSteps
  <2> QED
    BY <2>2, SMT
<1>3. ASSUME NEW e \in T PROVE e + 1 \in T
  <2> SUFFICES ASSUME e + 1 <= len PROVE H(e + 1) = F(e + 1) + w * G(e + 1)
    OBVIOUS
  <2>1. e \in 0..len /\ e < len /\ e + 1 \in 1..len /\ e <= len
    BY SMT
  <2>2. F(e + 1) = F(e) + f[e + 1]
    BY <1>0, <2>1, SumSteps
  <2>3. G(e + 1) = G(e) + g[e + 1]
    BY <1>0, <2>1, SumSteps
  <2>4. H(e + 1) = H(e) + h[e + 1]
    BY <1>0, <2>1, SumSteps
  <2>5. H(e) = F(e) + w * G(e) /\ h[e + 1] = f[e + 1] + w * g[e + 1]
    BY <1>0, <2>1
  <2> DEFINE a == F(e)
             b == G(e)
             c == f[e + 1]
             d == g[e + 1]
  <2>6. a \in Nat /\ b \in Nat /\ c \in Nat /\ d \in Nat
    BY <1>0, <1>1, <2>1 DEF Summands
  <2>7. H(e + 1) = (a + w * b) + (c + w * d)
    BY <2>4, <2>5
  <2> HIDE DEF a, b, c, d
  <2>8. (a + w * b) + (c + w * d) = (a + c) + w * (b + d)
    BY <2>6, SMT
  <2> QED
    BY <2>2, <2>3, <2>7, <2>8 DEF a, b, c, d
<1>4. T = Nat
  <2>1. T \in SUBSET Nat
    OBVIOUS
  <2> HIDE DEF T
  <2> QED
    BY <1>2, <1>3, <2>1, SetInduction
<1>5. n \in T /\ n <= len
  BY <1>4, SMT
<1> QED
  BY <1>5

\* A sum of values up to c is at most c for each of them.
LEMMA SumBounded ==
    ASSUME NEW len \in Nat, NEW f, Summands(f, len), NEW c \in Nat,
           \A e \in 1..len : f[e] <= c, NEW from \in 0..len, NEW d \in 0..(len - from)
    PROVE  /\ Lin!SumOfFirst(from + d, f) - Lin!SumOfFirst(from, f) >= 0
           /\ Lin!SumOfFirst(from + d, f) - Lin!SumOfFirst(from, f) <= d * c
<1> DEFINE F(e) == Lin!SumOfFirst(e, f)
           T    == {e \in Nat : from + e <= len => /\ F(from + e) - F(from) >= 0
                                                   /\ F(from + e) - F(from) <= e * c}
<1>1. \A e \in 0..len : F(e) \in Nat
  BY SumSteps
<1>2. 0 \in T
  <2>1. from + 0 = from /\ 0 * c = 0
    BY SMT
  <2>2. F(from) - F(from) = 0
    <3>1. F(from) \in Nat
      BY <1>1
    <3> HIDE DEF F
    <3> QED
      BY <3>1, SMT
  <2> QED
    BY <2>1, <2>2
<1>3. ASSUME NEW e \in T PROVE e + 1 \in T
  <2> SUFFICES ASSUME from + (e + 1) <= len
               PROVE  /\ F(from + (e + 1)) - F(from) >= 0
                      /\ F(from + (e + 1)) - F(from) <= (e + 1) * c
    OBVIOUS
  <2>1. /\ e \in Nat /\ from + e \in 0..len /\ from + e < len /\ from + e <= len
        /\ from + (e + 1) = (from + e) + 1 /\ (from + e) + 1 \in 1..len
    BY SMT
  <2>2. F((from + e) + 1) = F(from + e) + f[(from + e) + 1]
    BY <2>1, SumSteps
  <2> DEFINE a == F(from + e)
             b == F(from)
             z == f[(from + e) + 1]
             ec == e * c
  <2>3. a \in Nat /\ b \in Nat /\ z \in Nat /\ z <= c
    BY <1>1, <2>1 DEF Summands
  <2>4. a - b >= 0 /\ a - b <= ec
    BY <2>1
  <2>5. (e + 1) * c = ec + c /\ ec \in Nat
    BY <2>1, SMT
  <2> HIDE DEF a, b, z, ec
  <2>6. (a + z) - b >= 0 /\ (a + z) - b <= ec + c
    BY <2>3, <2>4, <2>5, SMT
  <2> QED
    BY <2>1, <2>2, <2>5, <2>6 DEF a, b, z
<1>4. T = Nat
  <2>1. T \in SUBSET Nat
    OBVIOUS
  <2> HIDE DEF T
  <2> QED
    BY <1>2, <1>3, <2>1, SetInduction
<1>5. d \in Nat /\ from + d <= len
  BY SMT
<1>6. d \in T
  BY <1>4, <1>5
<1> QED
  BY <1>5, <1>6

----------------------------------------------------------------------------
(* The size of a window.                                                   *)

\* The operators of the linear combination are the ones of this module.
LEMMA LinOps ==
    /\ Lin!B = B /\ Lin!R = R /\ Lin!Word = Word /\ Lin!Uint = Uint
    /\ \A v, l : Lin!Limb(v, l) = Limb(v, l)
    /\ \A v, w : Lin!wrapping_mul(v, w) = wrapping_mul(v, w)
    /\ \A v, w : Lin!wrapping_add(v, w) = (v + w) % B
    /\ \A v, w, c : Lin!carrying_add(v, w, c) = carrying_add(v, w, c)
    /\ \A v, w, a, c : Lin!UintMacByLimb(v, w, a, c)
                         = <<(v + w * a + c) % R, (v + w * a + c) \div R>>
    /\ \A v, w : Lin!IsModNegInv(v, w) = IsModNegInv(v, w)
    /\ \A v, c, w : Lin!TrySubWithCarry(v, c, w) = TrySubWithCarry(v, c, w)
    /\ \A v, w, n : Lin!AddMod(v, w, n)
                      = TrySubWithCarry((v + w + 0) % R, (v + w + 0) \div R, n)[1]
    /\ \A n : Lin!PowerOfTwo(n) = PowerOfTwo(n)
<1>1. /\ Lin!B = B /\ Lin!R = R /\ Lin!Word = Word /\ Lin!Uint = Uint
      /\ \A v, l : Lin!Limb(v, l) = Limb(v, l)
      /\ \A v, w : Lin!wrapping_mul(v, w) = wrapping_mul(v, w)
      /\ \A v, w : Lin!wrapping_add(v, w) = (v + w) % B
      /\ \A v, w, c : Lin!carrying_add(v, w, c) = carrying_add(v, w, c)
      /\ \A v, w, a, c : Lin!UintMacByLimb(v, w, a, c)
                           = <<(v + w * a + c) % R, (v + w * a + c) \div R>>
      /\ \A v, w : Lin!IsModNegInv(v, w) = IsModNegInv(v, w)
    BY DEF Lin!B, B, Lin!R, R, Lin!Word, Word, Lin!Uint, Uint, Lin!Limb, Limb,
           Lin!wrapping_mul, wrapping_mul, Lin!wrapping_add,
           Lin!carrying_add, carrying_add, Lin!UintMacByLimb,
           Lin!Lo, Lo, Lin!Hi, Hi, Lin!IsModNegInv, IsModNegInv
<1>2. \A v, c, w : Lin!TrySubWithCarry(v, c, w) = TrySubWithCarry(v, c, w)
    BY DEF Lin!B, B, Lin!R, R,
           Lin!TrySubWithCarry, TrySubWithCarry,
           Lin!UintBorrowingSub, UintBorrowingSub, Lin!BorrowBit, BorrowBit,
           Lin!lsb_to_choice, lsb_to_choice, Lin!is_zero, is_zero,
           Lin!Select, Select, Lin!borrowing_sub, borrowing_sub,
           Lin!Mask, Mask, Lin!WordMAX, WordMAX
<1>3. \A v, w, n : Lin!AddMod(v, w, n)
                     = TrySubWithCarry((v + w + 0) % R, (v + w + 0) \div R, n)[1]
    BY <1>1, <1>2 DEF Lin!AddMod, Lin!UintCarryingAdd
<1>4. \A n : Lin!PowerOfTwo(n) = PowerOfTwo(n)
    BY DEF Lin!PowerOfTwo, PowerOfTwo
<1> QED
    BY <1>1, <1>2, <1>3, <1>4

\* The radix is the power of two that its width says.
LEMMA RadixIsPower ==
    /\ BITS \in Nat /\ BITS > 0 /\ N * BITS \in Nat
    /\ R = PowerOfTwo(N * BITS)
<1>1. /\ BITS \in Nat /\ B = PowerOfTwo(BITS) /\ N \in Nat /\ B \in Nat /\ B >= 2
  BY BitsAssumption, BaseFacts, SMT
<1>2. BITS # 0
  <2>1. 0 \in Nat
    OBVIOUS
  <2>2. PowerOfTwo(0) = 1
    BY <2>1, PowerDoubles
  <2> QED
    BY <2>2, <1>1, SMT
<1> DEFINE T == {e \in Nat : e <= N => W[e] = PowerOfTwo(e * BITS)}
<1>3. 0 \in T
  <2>1. 0 * BITS = 0 /\ 0 \in Nat
    BY <1>1, SMT
  <2>2. PowerOfTwo(0) = 1
    BY <2>1, PowerDoubles
  <2> QED
    BY <2>1, <2>2, WeightAssumption
<1>4. ASSUME NEW e \in T PROVE e + 1 \in T
  <2> SUFFICES ASSUME e + 1 <= N PROVE W[e + 1] = PowerOfTwo((e + 1) * BITS)
    OBVIOUS
  <2>1. e \in Nat /\ e <= N /\ e \in 0..(2 * N) /\ e < 2 * N
    BY <1>1, SMT
  <2>2. W[e + 1] = B * W[e] /\ W[e] = PowerOfTwo(e * BITS) /\ W[e] \in Nat
    BY <2>1, WeightFacts
  <2>3. e * BITS \in Nat /\ (e + 1) * BITS = e * BITS + BITS
    BY <1>1, <2>1, SMT
  <2>4. PowerOfTwo(e * BITS + BITS) = PowerOfTwo(e * BITS) * PowerOfTwo(BITS)
    BY <1>1, <2>3, PowersMultiply
  <2>5. W[e] * B = B * W[e]
    BY <1>1, <2>2, SMT
  <2> QED
    BY <1>1, <2>2, <2>3, <2>4, <2>5
<1>5. T = Nat
  <2>1. T \in SUBSET Nat
    OBVIOUS
  <2> HIDE DEF T
  <2> QED
    BY <1>3, <1>4, <2>1, SetInduction
<1>6. N \in T /\ N <= N
  BY <1>1, <1>5, SMT
<1>7. N * BITS \in Nat
  BY <1>1, SMT
<1> QED
  BY <1>1, <1>2, <1>6, <1>7, SMT DEF R

\* A modulus has a number of leading zeros.
LEMMA LeadingZeros ==
    ASSUME NEW n \in Uint, n > 0
    PROVE  \E z \in 0..(N * BITS) : /\ n * PowerOfTwo(z) < R
                                    /\ 2 * (n * PowerOfTwo(z)) >= R
<1> DEFINE S == {z \in Nat : n * PowerOfTwo(z) < R}
<1>1. /\ n \in Nat /\ n < R /\ R \in Nat /\ R > 0 /\ N * BITS \in Nat
      /\ R = PowerOfTwo(N * BITS)
  BY BaseFacts, RadixIsPower, SMT DEF Uint
<1>2. ASSUME NEW z \in Nat, z >= N * BITS PROVE z \notin S
  <2> DEFINE p == PowerOfTwo(z)
  <2>1. R <= p /\ p \in Nat
    BY <1>1, <1>2, PowersGrow, PowerDoubles
  <2> HIDE DEF p
  <2>2. p * 1 <= p * n /\ p * n = n * p
    BY <1>1, <2>1, Monotone, SMT
  <2>3. ~(n * p < R)
    <3> DEFINE np == n * p
    <3>1. p <= np /\ np \in Int
      BY <1>1, <2>1, <2>2, SMT
    <3> HIDE DEF np
    <3>2. ~(np < R)
      BY <3>1, <1>1, <2>1, SMT
    <3> QED
      BY <3>2 DEF np
  <2> QED
    BY <2>3 DEF p
<1>3. 0 \in S
  <2>1. 0 \in Nat
    OBVIOUS
  <2>2. PowerOfTwo(0) = 1
    BY <2>1, PowerDoubles
  <2> QED
    BY <2>1, <2>2, <1>1, SMT
<1>4. \E z \in S : z + 1 \notin S
  <2>1. N * BITS \notin S
    BY <1>1, <1>2, SMT
  <2>2. S \in SUBSET Nat
    OBVIOUS
  <2> HIDE DEF S
  <2> QED
    BY <1>1, <1>3, <2>1, <2>2, SetInduction
<1>5. PICK z \in S : z + 1 \notin S
  BY <1>4
<1>6. z \in Nat /\ z + 1 \in Nat /\ n * PowerOfTwo(z) < R
  BY SMT
<1>7. z \in 0..(N * BITS)
  BY <1>1, <1>2, <1>6, SMT
<1>8. 2 * (n * PowerOfTwo(z)) >= R
  <2> DEFINE p == PowerOfTwo(z)
             p1 == PowerOfTwo(z + 1)
  <2>1. p \in Nat /\ p1 = 2 * p
    BY <1>6, PowerDoubles
  <2>2. ~(n * p1 < R)
    BY <1>5, <1>6
  <2> HIDE DEF p, p1
  <2>3. n * (2 * p) = 2 * (n * p) /\ n * p \in Int
    BY <1>1, <2>1, SMT
  <2>4. 2 * (n * p) >= R
    <3> DEFINE np == n * p
    <3>1. np \in Int /\ ~(2 * np < R)
      BY <2>1, <2>2, <2>3
    <3> HIDE DEF np
    <3>2. 2 * np >= R
      BY <3>1, <1>1, SMT
    <3> QED
      BY <3>2 DEF np
  <2> QED
    BY <2>4 DEF p
<1> QED
  BY <1>6, <1>7, <1>8

\* A window of max_accum pairs stays below the radix, as many times the
\* modulus as it has pairs.
LEMMA MaxAccum ==
    ASSUME NEW n \in Uint, n > 0
    PROVE  /\ Lin!max_accum(n) \in Nat /\ Lin!max_accum(n) >= 1
           /\ Lin!max_accum(n) * n <= R
<1> DEFINE lz == CHOOSE z \in 0..(N * BITS) : /\ n * Lin!PowerOfTwo(z) < Lin!R
                                              /\ 2 * (n * Lin!PowerOfTwo(z)) >= Lin!R
           z  == IF lz < BITS - 1 THEN lz ELSE BITS - 1
           p  == PowerOfTwo(z)
           pl == PowerOfTwo(lz)
<1>1. lz \in 0..(N * BITS) /\ n * PowerOfTwo(lz) < R
  <2>1. \E e \in 0..(N * BITS) : /\ n * Lin!PowerOfTwo(e) < Lin!R
                                 /\ 2 * (n * Lin!PowerOfTwo(e)) >= Lin!R
    BY LeadingZeros, LinOps
  <2>2. lz \in 0..(N * BITS) /\ n * Lin!PowerOfTwo(lz) < Lin!R
    BY <2>1
  <2> HIDE DEF lz
  <2> QED
    BY <2>2, LinOps
<1>2. Lin!max_accum(n) = p
  <2>1. Lin!max_accum(n) = Lin!PowerOfTwo(z)
    BY DEF Lin!max_accum, Lin!mod_leading_zeros
  <2> HIDE DEF z
  <2> QED
    BY <2>1, LinOps
<1> HIDE DEF lz
<1>3. lz \in Nat /\ z \in Nat /\ z <= lz
  BY <1>1, RadixIsPower, SMT
<1> HIDE DEF z
<1>4. p \in Nat /\ p >= 1 /\ pl \in Nat /\ p <= pl
  <2>1. p \in Nat /\ p > 0 /\ pl \in Nat
    BY <1>3, PowerDoubles
  <2>2. p <= pl
    BY <1>3, PowersGrow
  <2> HIDE DEF p, pl
  <2> QED
    BY <2>1, <2>2, SMT
<1>5. n * pl < R
  BY <1>1
<1> HIDE DEF p, pl
<1>6. n \in Nat /\ R \in Nat
  BY BaseFacts, SMT DEF Uint
<1>7. n * p <= n * pl /\ p * n = n * p /\ n * p \in Int /\ n * pl \in Int
  BY <1>4, <1>6, Monotone, SMT
<1>8. p * n <= R
  <2> DEFINE a == n * p
             b == n * pl
  <2>1. a \in Int /\ b \in Int /\ a <= b /\ b < R /\ p * n = a
    BY <1>5, <1>7
  <2> HIDE DEF a, b
  <2> QED
    BY <2>1, <1>6, SMT
<1> QED
  BY <1>2, <1>4, <1>8

----------------------------------------------------------------------------
(* A window of products.                                                   *)

SumTo(e, f) == Lin!SumOfFirst(e, f)

\* What the pairs of ps contribute, as in Lincomb.
LowProducts(ps, l) == [e \in 1..Len(ps) |-> (ps[e][1] % W[l]) * ps[e][2]]
RowProducts(ps, l) == [e \in 1..Len(ps) |-> Limb(ps[e][1], l) * ps[e][2]]
AllProducts(ps)    == [e \in 1..Len(ps) |-> ps[e][1] * ps[e][2]]

\* The pairs are pairs of residues.
PairsOf(ps, n) == n \in Uint /\ n > 0 /\ ps \in Seq((0..(n - 1)) \X (0..(n - 1)))

LEMMA PairTypes ==
    ASSUME NEW ps, NEW n, PairsOf(ps, n)
    PROVE  /\ Len(ps) \in Nat /\ n \in Nat /\ n > 0 /\ n < R
           /\ \A e \in 1..Len(ps) : /\ ps[e][1] \in Nat /\ ps[e][1] <= n - 1
                                    /\ ps[e][1] \in Uint
                                    /\ ps[e][2] \in Nat /\ ps[e][2] <= n - 1
                                    /\ ps[e][2] \in Uint
<1>1. n \in Nat /\ n > 0 /\ n < R /\ R \in Nat
  BY BaseFacts, SMT DEF PairsOf, Uint
<1>2. Len(ps) \in Nat
  BY DEF PairsOf
<1>3. ASSUME NEW e \in 1..Len(ps)
      PROVE  /\ ps[e][1] \in Nat /\ ps[e][1] <= n - 1 /\ ps[e][1] \in Uint
             /\ ps[e][2] \in Nat /\ ps[e][2] <= n - 1 /\ ps[e][2] \in Uint
  <2>1. ps[e] \in (0..(n - 1)) \X (0..(n - 1))
    BY DEF PairsOf
  <2>2. ps[e][1] \in 0..(n - 1) /\ ps[e][2] \in 0..(n - 1)
    BY <2>1
  <2> DEFINE a == ps[e][1]
             b == ps[e][2]
  <2>3. a \in 0..(n - 1) /\ b \in 0..(n - 1)
    BY <2>2
  <2> HIDE DEF a, b
  <2>4. a \in Nat /\ a <= n - 1 /\ a \in Uint /\ b \in Nat /\ b <= n - 1 /\ b \in Uint
    BY <2>3, <1>1, SMT DEF Uint
  <2> QED
    BY <2>4 DEF a, b
<1> QED
  BY <1>1, <1>2, <1>3

\* A product of two bounded factors.
LEMMA ProductBound ==
    ASSUME NEW a \in Nat, NEW b \in Nat, NEW c \in Nat, NEW d \in Nat,
           a <= c, b <= d
    PROVE  a * b \in Nat /\ a * b <= c * d
<1>1. a * b <= a * d
  BY Monotone, SMT
<1>2. d * a <= d * c /\ d * a = a * d /\ d * c = c * d
  BY Monotone, SMT
<1>3. a * b \in Nat /\ a * d \in Nat /\ c * d \in Nat
  BY SMT
<1> QED
  BY <1>1, <1>2, <1>3, SMT

\* The contributions are natural numbers, and bounded.
LEMMA ProductParts ==
    ASSUME NEW ps, NEW n, PairsOf(ps, n), NEW l \in 0..N
    PROVE  /\ Summands(LowProducts(ps, l), Len(ps))
           /\ Summands(RowProducts(ps, l), Len(ps))
           /\ Summands(AllProducts(ps), Len(ps))
           /\ \A e \in 1..Len(ps) : LowProducts(ps, l)[e] <= (W[l] - 1) * n
           /\ \A e \in 1..Len(ps) : RowProducts(ps, l)[e] <= (B - 1) * n
           /\ \A e \in 1..Len(ps) : AllProducts(ps)[e] <= (n - 1) * n
<1>1. /\ B \in Nat /\ B > 0 /\ l \in 0..(2 * N) /\ n \in Nat /\ n > 0
      /\ n - 1 \in Nat /\ B - 1 \in Nat /\ n <= n
  BY BaseFacts, PairTypes, SMT
<1>2. W[l] \in Nat /\ W[l] > 0
  BY <1>1, WeightFacts
<1>3. W[l] - 1 \in Nat
  BY <1>2, SMT
<1>4. ASSUME NEW e \in 1..Len(ps)
      PROVE  /\ LowProducts(ps, l)[e] \in Nat /\ LowProducts(ps, l)[e] <= (W[l] - 1) * n
             /\ RowProducts(ps, l)[e] \in Nat /\ RowProducts(ps, l)[e] <= (B - 1) * n
             /\ AllProducts(ps)[e] \in Nat /\ AllProducts(ps)[e] <= (n - 1) * n
  <2> DEFINE a == ps[e][1]
             b == ps[e][2]
             d == a % W[l]
             g == Limb(a, l)
  <2>1. a \in Nat /\ a <= n - 1 /\ b \in Nat /\ b <= n - 1
    BY PairTypes
  <2>2. b <= n /\ a \in Int
    <3> HIDE DEF a, b
    <3> QED
      BY <2>1, <1>1, SMT
  <2>3. d \in Nat /\ d <= W[l] - 1
    <3>1. d \in Nat /\ d < W[l]
      <4> HIDE DEF a
      <4> QED
        BY <2>2, <1>2, DivMod
    <3> HIDE DEF d
    <3> QED
      BY <3>1, <1>2, SMT
  <2>4. g \in Nat /\ g <= B - 1
    <3>1. g \in Word
      <4> HIDE DEF a
      <4> QED
        BY <2>1, <1>1, LimbType
    <3> HIDE DEF g
    <3> QED
      BY <3>1, <1>1, SMT DEF Word
  <2>5. /\ LowProducts(ps, l)[e] = d * b /\ RowProducts(ps, l)[e] = g * b
        /\ AllProducts(ps)[e] = a * b
    BY DEF LowProducts, RowProducts, AllProducts
  <2> HIDE DEF a, b, d, g
  <2>6. d * b \in Nat /\ d * b <= (W[l] - 1) * n
    BY <1>1, <1>3, <2>1, <2>2, <2>3, ProductBound
  <2>7. g * b \in Nat /\ g * b <= (B - 1) * n
    BY <1>1, <2>1, <2>2, <2>4, ProductBound
  <2>8. a * b \in Nat /\ a * b <= (n - 1) * n
    BY <1>1, <2>1, <2>2, ProductBound
  <2> QED
    BY <2>5, <2>6, <2>7, <2>8
<1> QED
  BY <1>4 DEF Summands

\* The low l + 1 limbs are the low l limbs and row l; the low N limbs are all
\* of a factor, and no limb is nothing.
LEMMA PartsAddUp ==
    ASSUME NEW ps, NEW n, PairsOf(ps, n)
    PROVE  /\ \A l \in 0..(N - 1) : \A e \in 1..Len(ps) :
                  LowProducts(ps, l + 1)[e]
                    = LowProducts(ps, l)[e] + W[l] * RowProducts(ps, l)[e]
           /\ LowProducts(ps, N) = AllProducts(ps)
           /\ \A e \in 1..Len(ps) : LowProducts(ps, 0)[e] <= 0
<1>0. N \in Nat /\ N > 0 /\ B \in Nat
  BY BaseFacts, SMT
<1>1. ASSUME NEW l \in 0..(N - 1), NEW e \in 1..Len(ps)
      PROVE  LowProducts(ps, l + 1)[e]
               = LowProducts(ps, l)[e] + W[l] * RowProducts(ps, l)[e]
  <2> DEFINE a == ps[e][1]
             b == ps[e][2]
             d == a % W[l]
             g == Limb(a, l)
             w == W[l]
  <2>1. l \in 0..(2 * N - 1) /\ l \in 0..(2 * N)
    BY <1>0, SMT
  <2>2. a \in Nat /\ b \in Nat
    BY PairTypes
  <2>3. a % W[l + 1] = d + w * g
    <3> HIDE DEF a
    <3> QED
      BY <2>1, <2>2, LowLimbs
  <2>4. w \in Nat /\ d \in Nat /\ g \in Int
    <3>1. W[l] \in Nat /\ W[l] > 0
      BY <2>1, WeightFacts
    <3> HIDE DEF a
    <3>2. a \in Int
      BY <2>2, SMT
    <3>3. d \in Nat /\ g \in Word
      BY <2>1, <2>2, <3>1, <3>2, DivMod, LimbType
    <3> HIDE DEF g, d
    <3> QED
      BY <3>1, <3>3, <1>0, SMT DEF Word
  <2>5. /\ LowProducts(ps, l + 1)[e] = (a % W[l + 1]) * b
        /\ LowProducts(ps, l)[e] = d * b /\ RowProducts(ps, l)[e] = g * b
    BY DEF LowProducts, RowProducts
  <2> HIDE DEF a, b, d, g, w
  <2>6. (d + w * g) * b = d * b + w * (g * b)
    <3>1. w * g \in Int /\ d \in Int /\ b \in Int
      BY <2>2, <2>4, SMT
    <3> DEFINE z == w * g
    <3>2. z \in Int
      BY <3>1
    <3> HIDE DEF z
    <3>3. (d + z) * b = d * b + z * b
      BY <3>1, <3>2, SMT
    <3>4. (w * g) * b = w * (g * b)
      BY <2>2, <2>4, SMT
    <3> QED
      BY <3>3, <3>4 DEF z
  <2> QED
    BY <2>3, <2>5, <2>6 DEF w
<1>2. LowProducts(ps, N) = AllProducts(ps)
  <2>1. ASSUME NEW e \in 1..Len(ps) PROVE ps[e][1] % W[N] = ps[e][1]
    <3>1. ps[e][1] \in Uint
      BY PairTypes
    <3> QED
      BY <3>1, LowIsAll
  <2> QED
    BY <2>1 DEF LowProducts, AllProducts
<1>3. ASSUME NEW e \in 1..Len(ps) PROVE LowProducts(ps, 0)[e] <= 0
  <2> DEFINE a == ps[e][1]
             b == ps[e][2]
  <2>1. a \in Nat /\ b \in Nat
    BY PairTypes
  <2>2. LowProducts(ps, 0)[e] = (a % W[0]) * b
    BY DEF LowProducts
  <2> HIDE DEF a, b
  <2>3. a % W[0] = 0
    BY <2>1, LowestLimb
  <2>4. 0 * b = 0
    BY <2>1, SMT
  <2> QED
    BY <2>2, <2>3, <2>4, SMT
<1> QED
  BY <1>1, <1>2, <1>3

\* A window of c pairs after the first f0, small enough for its modulus.
InWindow(ps, f0, c, n) ==
    /\ PairsOf(ps, n)
    /\ f0 \in 0..Len(ps) /\ c \in 0..(Len(ps) - f0) /\ c * n <= R

WindowSum(f, f0, c) == SumTo(f0 + c, f) - SumTo(f0, f)

\* The accumulator v before row l adds the pairs after the first d: what the
\* low l limbs of all pairs contribute, what limb l of d pairs does, and qq
\* times the modulus.
ExactWindow(ps, f0, c, l, d, v, qq, n) ==
    v * W[l] = WindowSum(LowProducts(ps, l), f0, c)
                 + W[l] * WindowSum(RowProducts(ps, l), f0, d) + qq * n

\* The sums of a window are bounded.
LEMMA WindowSums ==
    ASSUME NEW ps, NEW f0, NEW c, NEW n, InWindow(ps, f0, c, n),
           NEW l \in 0..N, NEW d \in 0..c
    PROVE  /\ WindowSum(LowProducts(ps, l), f0, d) \in Nat
           /\ WindowSum(LowProducts(ps, l), f0, d) <= d * ((W[l] - 1) * n)
           /\ WindowSum(RowProducts(ps, l), f0, d) \in Nat
           /\ WindowSum(RowProducts(ps, l), f0, d) <= d * ((B - 1) * n)
           /\ WindowSum(AllProducts(ps), f0, d) \in Nat
           /\ WindowSum(AllProducts(ps), f0, d) <= d * ((n - 1) * n)
<1> DEFINE len == Len(ps)
<1>1. /\ PairsOf(ps, n) /\ f0 \in 0..len /\ c \in 0..(len - f0)
      /\ len \in Nat /\ n \in Nat /\ n > 0
  BY PairTypes DEF InWindow
<1> HIDE DEF len
<1>2. d \in 0..(len - f0) /\ f0 + d \in 0..len /\ B \in Nat /\ B > 0
      /\ l \in 0..(2 * N)
  BY <1>1, BaseFacts, SMT
<1>3. W[l] \in Nat /\ W[l] > 0
  BY <1>2, WeightFacts
<1>4. (W[l] - 1) * n \in Nat /\ (B - 1) * n \in Nat /\ (n - 1) * n \in Nat
  <2>1. W[l] - 1 \in Nat /\ B - 1 \in Nat /\ n - 1 \in Nat
    BY <1>1, <1>2, <1>3, SMT
  <2> QED
    BY <2>1, <1>1, SMT
<1>5. /\ Summands(LowProducts(ps, l), len)
      /\ Summands(RowProducts(ps, l), len)
      /\ Summands(AllProducts(ps), len)
      /\ \A e \in 1..len : LowProducts(ps, l)[e] <= (W[l] - 1) * n
      /\ \A e \in 1..len : RowProducts(ps, l)[e] <= (B - 1) * n
      /\ \A e \in 1..len : AllProducts(ps)[e] <= (n - 1) * n
  BY <1>1, ProductParts DEF len
<1>6. ASSUME NEW f, NEW g \in Nat, Summands(f, len), \A e \in 1..len : f[e] <= g
      PROVE  WindowSum(f, f0, d) \in Nat /\ WindowSum(f, f0, d) <= d * g
  <2> DEFINE a == SumTo(f0 + d, f)
             b == SumTo(f0, f)
  <2>1. a - b >= 0 /\ a - b <= d * g
    BY <1>1, <1>2, <1>6, SumBounded DEF SumTo
  <2>2. a \in Nat /\ b \in Nat
    BY <1>1, <1>2, <1>6, SumSteps DEF SumTo
  <2>3. WindowSum(f, f0, d) = a - b
    BY DEF WindowSum
  <2> HIDE DEF a, b
  <2>4. a - b \in Nat
    BY <2>1, <2>2, SMT
  <2> QED
    BY <2>1, <2>3, <2>4
<1>7. /\ WindowSum(LowProducts(ps, l), f0, d) \in Nat
      /\ WindowSum(LowProducts(ps, l), f0, d) <= d * ((W[l] - 1) * n)
  BY <1>4, <1>5, <1>6
<1>8. /\ WindowSum(RowProducts(ps, l), f0, d) \in Nat
      /\ WindowSum(RowProducts(ps, l), f0, d) <= d * ((B - 1) * n)
  BY <1>4, <1>5, <1>6
<1>9. /\ WindowSum(AllProducts(ps), f0, d) \in Nat
      /\ WindowSum(AllProducts(ps), f0, d) <= d * ((n - 1) * n)
  BY <1>4, <1>5, <1>6
<1> QED
  BY <1>7, <1>8, <1>9

\* An empty window adds nothing.
LEMMA EmptyWindow ==
    ASSUME NEW ps, NEW n, PairsOf(ps, n), NEW f0 \in 0..Len(ps), NEW f,
           Summands(f, Len(ps))
    PROVE  WindowSum(f, f0, 0) = 0
<1> DEFINE b == SumTo(f0, f)
<1>1. Len(ps) \in Nat /\ f0 + 0 = f0
  BY PairTypes, SMT
<1>2. b \in Nat
  BY <1>1, SumSteps DEF SumTo
<1>3. WindowSum(f, f0, 0) = b - b
  BY <1>1 DEF WindowSum
<1> HIDE DEF b
<1> QED
  BY <1>2, <1>3, SMT

\* The empty accumulator starts a window.
LEMMA WindowStarts ==
    ASSUME NEW ps, NEW f0, NEW c, NEW n, InWindow(ps, f0, c, n)
    PROVE  ExactWindow(ps, f0, c, 0, 0, 0, 0, n)
<1>1. /\ PairsOf(ps, n) /\ f0 \in 0..Len(ps) /\ c \in 0..(Len(ps) - f0)
      /\ Len(ps) \in Nat /\ n \in Nat /\ n > 0 /\ N \in Nat /\ 0 \in 0..N
      /\ f0 + c \in 0..Len(ps)
  BY PairTypes, BaseFacts, SMT DEF InWindow
<1> DEFINE f == LowProducts(ps, 0)
           a == SumTo(f0 + c, f)
           b == SumTo(f0, f)
<1>2. Summands(f, Len(ps)) /\ Summands(RowProducts(ps, 0), Len(ps))
      /\ \A e \in 1..Len(ps) : f[e] <= 0
  BY <1>1, ProductParts, PartsAddUp
<1>3. WindowSum(f, f0, c) = 0
  <2> DEFINE zero == 0
  <2>1. zero \in Nat /\ \A e \in 1..Len(ps) : f[e] <= zero
    BY <1>2
  <2>2. WindowSum(f, f0, c) = a - b
    BY DEF WindowSum
  <2> HIDE DEF zero, f
  <2>3. a - b >= 0 /\ a - b <= c * zero
    BY <1>1, <1>2, <2>1, SumBounded DEF SumTo
  <2>4. a \in Nat /\ b \in Nat
    BY <1>1, <1>2, SumSteps DEF SumTo
  <2> HIDE DEF a, b
  <2>5. c * zero = 0
    BY <1>1, SMT DEF zero
  <2> QED
    BY <2>2, <2>3, <2>4, <2>5, SMT
<1>4. WindowSum(RowProducts(ps, 0), f0, 0) = 0
  BY <1>1, <1>2, EmptyWindow
<1>5. W[0] = 1 /\ 0 * 1 = 0 /\ 1 * 0 = 0 /\ 0 * n = 0 /\ 0 + 0 + 0 = 0
  BY <1>1, WeightAssumption, SMT
<1> QED
  BY <1>3, <1>4, <1>5 DEF ExactWindow

\* The product by one limb of the next pair is added.
LEMMA WindowAddsPair ==
    ASSUME NEW ps, NEW f0, NEW c, NEW n, InWindow(ps, f0, c, n),
           NEW l \in 0..N, NEW d \in 0..(c - 1), NEW v \in Nat, NEW qq \in Nat,
           ExactWindow(ps, f0, c, l, d, v, qq, n)
    PROVE  LET p == ps[f0 + (d + 1)] IN
           /\ Limb(p[1], l) * p[2] \in Nat
           /\ ExactWindow(ps, f0, c, l, d + 1, v + Limb(p[1], l) * p[2], qq, n)
<1> DEFINE f == RowProducts(ps, l)
           g == f[f0 + (d + 1)]
           s == WindowSum(LowProducts(ps, l), f0, c)
           r == WindowSum(f, f0, d)
           w == W[l]
           qn == qq * n
           p == ps[f0 + (d + 1)]
           a == SumTo(f0 + d, f)
           b == SumTo(f0, f)
<1>1. /\ PairsOf(ps, n) /\ f0 \in 0..Len(ps) /\ c \in 0..(Len(ps) - f0)
      /\ Len(ps) \in Nat /\ n \in Nat /\ n > 0
  BY PairTypes DEF InWindow
<1>2. /\ f0 + d \in 0..Len(ps) /\ f0 + d < Len(ps) /\ (f0 + d) + 1 = f0 + (d + 1)
      /\ f0 + (d + 1) \in 1..Len(ps) /\ d \in 0..c /\ c \in 0..c
      /\ l \in 0..(2 * N) /\ N \in Nat
  BY <1>1, BaseFacts, SMT
<1>3. Summands(f, Len(ps))
  BY <1>1, ProductParts
<1>4. g \in Nat /\ g = Limb(p[1], l) * p[2]
  BY <1>2, <1>3 DEF Summands, RowProducts
<1>5. WindowSum(f, f0, d + 1) = r + g
  <2>1. SumTo(f0 + (d + 1), f) = a + g /\ a \in Nat
    BY <1>1, <1>2, <1>3, SumSteps, SMTT(30) DEF SumTo
  <2>2. b \in Nat
    BY <1>1, <1>3, SumSteps DEF SumTo
  <2>3. WindowSum(f, f0, d + 1) = (a + g) - b /\ r = a - b
    BY <2>1 DEF WindowSum
  <2> HIDE DEF a, b, g, r
  <2> QED
    BY <2>1, <2>2, <2>3, <1>4, SMT
<1>6. s \in Nat /\ r \in Nat /\ w \in Nat /\ qn \in Nat
  <2>1. s \in Nat /\ r \in Nat
    BY <1>2, WindowSums
  <2>2. w \in Nat /\ qn \in Nat
    BY <1>1, <1>2, WeightFacts, SMT
  <2> QED
    BY <2>1, <2>2
<1>7. v * w = s + w * r + qn
  BY DEF ExactWindow
<1> HIDE DEF f, g, s, r, w, qn
<1>8. (v + g) * w = s + w * (r + g) + qn
  <2>1. (v + g) * w = v * w + g * w /\ w * (r + g) = w * r + w * g /\ g * w = w * g
    BY <1>4, <1>6, SMT
  <2> DEFINE wr == w * r
             wg == w * g
  <2>2. wr \in Int /\ wg \in Int
    BY <1>4, <1>6, SMT
  <2> HIDE DEF wr, wg
  <2>3. (s + wr + qn) + wg = s + (wr + wg) + qn
    BY <2>2, <1>6, SMT
  <2> QED
    BY <2>1, <2>3, <1>7 DEF wr, wg
<1> QED
  BY <1>4, <1>5, <1>8 DEF ExactWindow, f, s, w, qn

\* A row reduced.
LEMMA WindowReduces ==
    ASSUME NEW ps, NEW f0, NEW c, NEW n, InWindow(ps, f0, c, n),
           NEW l \in 0..(N - 1), NEW v \in Nat, NEW qq \in Nat,
           ExactWindow(ps, f0, c, l, c, v, qq, n),
           NEW h \in Nat, NEW z \in Nat, B * z = v + h * n
    PROVE  ExactWindow(ps, f0, c, l + 1, 0, z, qq + h * W[l], n)
<1> DEFINE fl == LowProducts(ps, l)
           fr == RowProducts(ps, l)
           fn == LowProducts(ps, l + 1)
           s == WindowSum(fl, f0, c)
           r == WindowSum(fr, f0, c)
           w == W[l]
<1>1. /\ PairsOf(ps, n) /\ f0 \in 0..Len(ps) /\ c \in 0..(Len(ps) - f0)
      /\ Len(ps) \in Nat /\ n \in Nat /\ n > 0
  BY PairTypes DEF InWindow
<1>2. /\ f0 + c \in 0..Len(ps) /\ c \in 0..c /\ l \in 0..N /\ l + 1 \in 0..N
      /\ l \in 0..(2 * N) /\ l < 2 * N /\ N \in Nat /\ B \in Nat
  BY <1>1, BaseFacts, SMT
<1>3. w \in Nat /\ W[l + 1] = B * w
  BY <1>2, WeightFacts
<1>4. /\ Summands(fl, Len(ps)) /\ Summands(fr, Len(ps)) /\ Summands(fn, Len(ps))
      /\ Summands(RowProducts(ps, l + 1), Len(ps))
      /\ \A e \in 1..Len(ps) : fn[e] = fl[e] + w * fr[e]
  BY <1>1, <1>2, ProductParts, PartsAddUp
<1>5. WindowSum(fn, f0, c) = s + w * r
  <2> DEFINE al == SumTo(f0 + c, fl)
             ar == SumTo(f0 + c, fr)
             bl == SumTo(f0, fl)
             br == SumTo(f0, fr)
  <2>0. Combines(fn, fl, w, fr, Len(ps))
    BY <1>4 DEF Combines
  <2> HIDE DEF fl, fr, fn, w
  <2>1. SumTo(f0 + c, fn) = al + w * ar
    BY <1>1, <1>2, <1>3, <2>0, SumLinear DEF SumTo
  <2>2. SumTo(f0, fn) = bl + w * br
    BY <1>1, <1>3, <2>0, SumLinear DEF SumTo
  <2>3. al \in Nat /\ ar \in Nat /\ bl \in Nat /\ br \in Nat
    BY <1>1, <1>2, <1>4, SumSteps DEF SumTo
  <2>4. s = al - bl /\ r = ar - br
        /\ WindowSum(fn, f0, c) = (al + w * ar) - (bl + w * br)
    BY <2>1, <2>2 DEF WindowSum
  <2> HIDE DEF al, ar, bl, br, s, r
  <2>5. (al + w * ar) - (bl + w * br) = (al - bl) + w * (ar - br)
    BY <2>3, <1>3, SMT
  <2> QED
    BY <2>4, <2>5
<1>6. WindowSum(RowProducts(ps, l + 1), f0, 0) = 0
  BY <1>1, <1>4, EmptyWindow
<1>7. s \in Nat /\ r \in Nat
  BY <1>2, WindowSums
<1>8. v * w = s + w * r + qq * n
  BY DEF ExactWindow
<1> HIDE DEF s, r, w
<1>9. z * (B * w) = (s + w * r) + (B * w) * 0 + (qq + h * w) * n
  <2>1. z * (B * w) = (B * z) * w
    BY <1>2, <1>3, SMT
  <2>2. (v + h * n) * w = v * w + (h * w) * n
    <3> DEFINE hn == h * n
    <3>1. hn \in Int
      BY <1>1, SMT
    <3> HIDE DEF hn
    <3>2. (v + hn) * w = v * w + hn * w
      BY <3>1, <1>3, SMT
    <3>3. (h * n) * w = (h * w) * n
      BY <1>1, <1>3, SMT
    <3> QED
      BY <3>2, <3>3 DEF hn
  <2>3. (qq + h * w) * n = qq * n + (h * w) * n
    <3> DEFINE hw == h * w
    <3>1. hw \in Int
      BY <1>3, SMT
    <3> HIDE DEF hw
    <3>2. (qq + hw) * n = qq * n + hw * n
      BY <3>1, <1>1, SMT
    <3> QED
      BY <3>2 DEF hw
  <2> DEFINE wr == w * r
             qn == qq * n
             hwn == (h * w) * n
             bw == B * w
  <2>4. wr \in Int /\ qn \in Int /\ hwn \in Int /\ bw \in Int
    <3>1. h * w \in Int
      BY <1>3, SMT
    <3> QED
      BY <3>1, <1>1, <1>2, <1>3, <1>7, SMT
  <2> HIDE DEF wr, qn, hwn, bw
  <2>5. (s + wr + qn) + hwn = (s + wr) + bw * 0 + (qn + hwn)
    BY <2>4, <1>7, SMT
  <2> QED
    BY <2>1, <2>2, <2>3, <2>5, <1>8 DEF wr, qn, hwn, bw
<1> QED
  BY <1>3, <1>5, <1>6, <1>9 DEF ExactWindow, w

\* As many as c times a product by n is as much of the product by R.
LEMMA WindowShare ==
    ASSUME NEW n \in Nat, NEW c \in Nat, c * n <= R, NEW a \in Nat, NEW s \in Nat,
           s <= c * (a * n)
    PROVE  s <= a * R
<1>1. R \in Nat
  BY BaseFacts
<1> DEFINE cn == c * n
<1>2. cn \in Nat /\ c * (a * n) = a * cn
  BY SMT
<1> HIDE DEF cn
<1>3. a * cn <= a * R
  <2>1. cn <= R
    BY DEF cn
  <2> QED
    BY <2>1, <1>1, <1>2, Monotone, SMT
<1>4. a * cn \in Int /\ a * R \in Int
  BY <1>1, <1>2, SMT
<1> QED
  BY <1>2, <1>3, <1>4, SMT

\* In the middle of a window, the accumulator needs one bit above the limb hi.
LEMMA WindowBound ==
    ASSUME NEW ps, NEW f0, NEW c, NEW n, InWindow(ps, f0, c, n),
           NEW l \in 0..N, NEW d \in 0..c, NEW v \in Nat, NEW qq \in Nat, qq < W[l],
           ExactWindow(ps, f0, c, l, d, v, qq, n)
    PROVE  v < B * R + n
<1> DEFINE s == WindowSum(LowProducts(ps, l), f0, c)
           r == WindowSum(RowProducts(ps, l), f0, d)
           w == W[l]
           br == B * R
<1>1. /\ PairsOf(ps, n) /\ c \in 0..(Len(ps) - f0) /\ f0 \in 0..Len(ps) /\ c * n <= R
      /\ Len(ps) \in Nat /\ n \in Nat /\ n > 0
  BY PairTypes DEF InWindow
<1>2. /\ c \in Nat /\ c \in 0..c /\ d \in Nat /\ d <= c /\ l \in 0..(2 * N)
      /\ B \in Nat /\ B > 0 /\ R \in Nat /\ R > 0 /\ B - 1 \in Nat
  BY <1>1, BaseFacts, SMT
<1>3. w \in Nat /\ w > 0 /\ w - 1 \in Nat
  BY <1>2, WeightFacts, SMT
<1>4. s \in Nat /\ s <= c * ((w - 1) * n)
  BY <1>2, WindowSums
<1>5. r \in Nat /\ r <= d * ((B - 1) * n)
  BY <1>2, WindowSums
<1>6. v * w = s + w * r + qq * n
  BY DEF ExactWindow
<1> HIDE DEF s, r, w
<1>7. s <= (w - 1) * R
  BY <1>1, <1>2, <1>3, <1>4, WindowShare
<1>8. d * n <= R
  <2>1. n * d <= n * c /\ n * d = d * n /\ n * c = c * n
    BY <1>1, <1>2, Monotone, SMT
  <2> DEFINE a == d * n
             b == c * n
  <2>2. a \in Int /\ b \in Int /\ a <= b /\ b <= R
    BY <2>1, <1>1, <1>2, SMT
  <2> HIDE DEF a, b
  <2>3. a <= R
    BY <2>2, <1>2, SMT
  <2> QED
    BY <2>3 DEF a
<1>9. r <= (B - 1) * R
  BY <1>1, <1>2, <1>5, <1>8, WindowShare
<1>10. w * r <= w * ((B - 1) * R) /\ w * r \in Int
  <2>1. (B - 1) * R \in Int /\ r \in Int /\ w * r \in Int
    BY <1>2, <1>3, <1>5, SMT
  <2> QED
    BY <2>1, <1>3, <1>9, Monotone
<1>11. n * qq <= n * (w - 1)
  <2>1. qq < w
    BY DEF w
  <2>2. qq \in Int /\ w - 1 \in Int /\ qq <= w - 1
    BY <2>1, <1>3, SMT
  <2> QED
    BY <2>2, <1>1, Monotone
<1> DEFINE wr == w * R
           wbr == w * br
           wn == w * n
<1>12. /\ (w - 1) * R = wr - R /\ w * ((B - 1) * R) = wbr - wr
       /\ n * (w - 1) = wn - n /\ qq * n = n * qq
  BY <1>1, <1>2, <1>3, SMT
<1>13. wr \in Int /\ wbr \in Int /\ wn \in Int /\ br \in Int /\ qq * n \in Int
       /\ w * (br + n) = wbr + wn /\ v * w = w * v
  <2>1. br \in Int
    BY <1>2, SMT
  <2> HIDE DEF br
  <2> QED
    BY <2>1, <1>1, <1>2, <1>3, SMT
<1>14. w * v < w * (br + n)
  <2> DEFINE a == w * r
             b == qq * n
             z == v * w
  <2>1. /\ a \in Int /\ b \in Int /\ z \in Int
        /\ z = s + a + b /\ s <= wr - R /\ a <= wbr - wr /\ b <= wn - n
    BY <1>3, <1>6, <1>7, <1>10, <1>11, <1>12, <1>13, SMT
  <2> HIDE DEF a, b, z, wr, wbr, wn
  <2>2. z < wbr + wn
    BY <2>1, <1>1, <1>2, <1>4, <1>13, SMT
  <2> QED
    BY <2>2, <1>13 DEF z
<1> HIDE DEF br
<1>15. v < br + n
  BY <1>14, <1>1, <1>3, <1>13, Cancel, SMT
<1> QED
  BY <1>15 DEF br

\* After the last row the accumulator is the Montgomery product sum, below
\* twice the modulus.
LEMMA WindowEnds ==
    ASSUME NEW ps, NEW f0, NEW c, NEW n, InWindow(ps, f0, c, n),
           NEW v \in Nat, NEW qq \in Nat, qq < W[N],
           ExactWindow(ps, f0, c, N, 0, v, qq, n)
    PROVE  /\ v * R = WindowSum(AllProducts(ps), f0, c) + qq * n
           /\ v < 2 * n
<1> DEFINE s == WindowSum(AllProducts(ps), f0, c)
<1>1. /\ PairsOf(ps, n) /\ c \in 0..(Len(ps) - f0) /\ f0 \in 0..Len(ps) /\ c * n <= R
      /\ Len(ps) \in Nat /\ n \in Nat /\ n > 0
  BY PairTypes DEF InWindow
<1>2. /\ c \in Nat /\ c \in 0..c /\ N \in 0..N /\ R \in Nat /\ R > 0
      /\ n - 1 \in Nat
  BY <1>1, BaseFacts, SMT
<1>3. s \in Nat /\ s <= c * ((n - 1) * n)
  BY <1>2, WindowSums
<1>4. WindowSum(RowProducts(ps, N), f0, 0) = 0
  <2>1. Summands(RowProducts(ps, N), Len(ps))
    BY <1>1, <1>2, ProductParts
  <2> QED
    BY <2>1, <1>1, EmptyWindow
<1>5. v * R = s + R * 0 + qq * n
  <2>1. LowProducts(ps, N) = AllProducts(ps)
    BY <1>1, PartsAddUp
  <2> QED
    BY <2>1, <1>4 DEF ExactWindow, R
<1> HIDE DEF s
<1>6. s <= (n - 1) * R
  BY <1>1, <1>2, <1>3, WindowShare
<1>7. n * qq <= n * (R - 1)
  <2>1. qq < R
    BY DEF R
  <2>2. qq \in Int /\ R - 1 \in Int /\ qq <= R - 1
    BY <2>1, <1>2, SMT
  <2> QED
    BY <2>2, <1>1, Monotone
<1> DEFINE nr == n * R
           b == qq * n
           z == v * R
<1>8. /\ (n - 1) * R = nr - R /\ n * (R - 1) = nr - n /\ n * qq = b
      /\ R * 0 = 0 /\ nr \in Int /\ b \in Int /\ z \in Int /\ R * v = z
      /\ R * (2 * n) = nr + nr
  BY <1>1, <1>2, SMT
<1>9. z = s + 0 + b /\ s <= nr - R /\ b <= nr - n
  BY <1>5, <1>6, <1>7, <1>8
<1> HIDE DEF nr, b, z
<1>10. z = s + b /\ z < nr + nr
  BY <1>1, <1>2, <1>3, <1>8, <1>9, SMT
<1>11. R * v < R * (2 * n)
  BY <1>8, <1>10
<1>12. v < 2 * n
  BY <1>11, <1>1, <1>2, Cancel, SMT
<1> QED
  BY <1>10, <1>12 DEF s, b, z

\* The accumulator in three parts, or in two at the end of a window, where hi
\* is dead.
LinAcc == IF pc = "correct" THEN out + meta_carry * R
          ELSE out + carry * R + meta_carry * (R * B)

\* The inductive invariant of a linear combination.
LinInv ==
    /\ PairsOf(products, m) /\ m % 2 = 1
    /\ k \in Word /\ IsModNegInv(k, m)
    /\ Lin!TypeOK
    /\ first = 1 => ret = 0
    /\ count = Lin!WindowFrom(first, products, m)
    /\ pc \in {"pair", "reduce"} => j # N
    /\ pc = "pair" => i # count
    /\ pc = "reduce" => i = count
    /\ pc = "correct" => j = N /\ i = 0
    /\ pc = "done" <=> count = 0
    /\ q < W[j]
    /\ pc # "done" => ExactWindow(products, first - 1, count, j, i, LinAcc, q, m)
    /\ ret < m
    /\ (ret * R) % m = SumTo(first - 1, AllProducts(products)) % m

\* The window ends at the last pair, or has max_accum of them.
LEMMA WindowFromFacts ==
    ASSUME NEW ps, NEW n, PairsOf(ps, n), NEW f \in 1..(Len(ps) + 1),
           NEW c, c = Lin!WindowFrom(f, ps, n)
    PROVE  /\ InWindow(ps, f - 1, c, n) /\ c \in 0..Lin!max_accum(n)
           /\ f + c \in 1..(Len(ps) + 1)
           /\ c = 0 <=> f = Len(ps) + 1
           /\ c = Len(ps) => c = 0 \/ f = 1
<1> DEFINE M == Lin!max_accum(n)
           len == Len(ps)
           rem == len + 1 - f
<1>1. /\ len \in Nat /\ n \in Nat /\ n > 0 /\ n \in Uint /\ R \in Nat
  BY PairTypes, BaseFacts DEF PairsOf
<1>2. M \in Nat /\ M >= 1 /\ M * n <= R
  BY <1>1, MaxAccum
<1>3. c = IF rem > M THEN M ELSE rem
  BY DEF Lin!WindowFrom
<1> HIDE DEF M, len
<1>4. /\ rem \in Nat /\ c \in Nat /\ c <= M /\ c <= rem
      /\ f - 1 \in 0..len /\ c \in 0..(len - (f - 1)) /\ c \in 0..M
      /\ f + c \in 1..(len + 1)
      /\ c = 0 <=> f = len + 1
      /\ c = len => c = 0 \/ f = 1
  BY <1>1, <1>2, <1>3, SMT DEF len
<1>5. c * n <= R
  <2>1. n * c <= n * M /\ n * c = c * n /\ n * M = M * n
    BY <1>1, <1>2, <1>4, Monotone, SMT
  <2> DEFINE a == c * n
             b == M * n
  <2>2. a \in Int /\ b \in Int /\ a <= b /\ b <= R
    BY <2>1, <1>1, <1>2, <1>4, SMT
  <2> HIDE DEF a, b
  <2>3. a <= R
    BY <2>2, <1>1, SMT
  <2> QED
    BY <2>3 DEF a
<1> QED
  BY <1>4, <1>5 DEF InWindow, M, len

LEMMA LinTypes ==
    ASSUME LinInv
    PROVE  /\ PairsOf(products, m) /\ Len(products) \in Nat
           /\ m \in Uint /\ m \in Nat /\ m > 0 /\ m < R
           /\ k \in Word /\ k \in Nat /\ IsModNegInv(k, m)
           /\ first \in 1..(Len(products) + 1) /\ first - 1 \in 0..Len(products)
           /\ count \in Nat /\ InWindow(products, first - 1, count, m)
           /\ count \in 0..Lin!max_accum(m)
           /\ out \in Uint /\ out \in Nat /\ out < R
           /\ carry \in Word /\ carry \in Nat
           /\ meta_carry \in Word /\ meta_carry \in Nat
           /\ j \in 0..N /\ i \in 0..count
           /\ ret \in Nat /\ ret < m /\ ret \in Uint
           /\ q \in Nat /\ q < W[j]
           /\ pc \in {"pair", "reduce", "correct", "done"}
           /\ LinAcc \in Nat
<1>1. R \in Nat /\ R > 0 /\ B \in Nat /\ B > 0
  BY BaseFacts, SMT
<1>2. /\ first \in 1..(Len(products) + 1)
      /\ count \in 0..Lin!max_accum(m)
      /\ out \in Uint /\ carry \in Word /\ meta_carry \in Word
      /\ j \in 0..N /\ i \in 0..count /\ ret \in Uint /\ q \in Nat /\ q < W[j]
      /\ pc \in {"pair", "reduce", "correct", "done"}
      /\ ret < m /\ PairsOf(products, m) /\ k \in Word /\ IsModNegInv(k, m)
      /\ count = Lin!WindowFrom(first, products, m)
  BY LinOps DEF LinInv, Lin!TypeOK
<1>3. Len(products) \in Nat /\ m \in Nat /\ m > 0 /\ m < R /\ m \in Uint
  BY <1>2, PairTypes DEF PairsOf
<1>4. InWindow(products, first - 1, count, m)
  BY <1>2, WindowFromFacts
<1>5. /\ out \in Nat /\ out < R /\ carry \in Nat /\ meta_carry \in Nat /\ k \in Nat
      /\ ret \in Nat
  BY <1>1, <1>2, SMT DEF Uint, Word
<1>6. first - 1 \in 0..Len(products) /\ count \in Nat
  <2>1. first - 1 \in 0..Len(products) /\ count \in 0..(Len(products) - (first - 1))
    BY <1>4 DEF InWindow
  <2> QED
    BY <2>1
<1>7. LinAcc \in Nat
  <2>1. meta_carry * R \in Nat /\ carry * R \in Nat /\ R * B \in Nat
    BY <1>1, <1>5, SMT
  <2>2. meta_carry * (R * B) \in Nat
    BY <2>1, <1>5, SMT
  <2> QED
    BY <2>1, <2>2, <1>5, SMT DEF LinAcc
<1> QED
  BY <1>2, <1>3, <1>4, <1>5, <1>6, <1>7

\* A cleared accumulator begins a window.
LEMMA FreshWindow ==
    ASSUME PairsOf(products, m), NEW f \in 1..(Len(products) + 1),
           NEW c, c = Lin!WindowFrom(f, products, m)
    PROVE  /\ InWindow(products, f - 1, c, m)
           /\ ExactWindow(products, f - 1, c, 0, 0, 0 + 0 * R + 0 * (R * B), 0, m)
           /\ 0 < W[0]
<1>1. R \in Nat /\ B \in Nat /\ 0 < 1
  BY BaseFacts
<1>2. R * B \in Int
  BY <1>1, SMT
<1>3. 0 + 0 * R + 0 * (R * B) = 0
  BY <1>1, <1>2, SMT
<1>4. InWindow(products, f - 1, c, m)
  BY WindowFromFacts
<1>5. ExactWindow(products, f - 1, c, 0, 0, 0, 0, m)
  BY <1>4, WindowStarts
<1> QED
  BY <1>1, <1>3, <1>4, <1>5, WeightAssumption

LEMMA LinInitInv == m \in Moduli /\ Lin!Init => LinInv
<1> SUFFICES ASSUME m \in Moduli, Lin!Init PROVE LinInv
  OBVIOUS
<1>1. R \in Nat /\ R > 0 /\ B \in Nat /\ B > 0 /\ N \in Nat /\ N > 0 /\ N # 0
  BY BaseFacts, SMT
<1>2. /\ k \in Word /\ IsModNegInv(k, m) /\ products \in Products(m)
      /\ first = 1 /\ count = Lin!WindowFrom(1, products, m)
      /\ out = 0 /\ carry = 0 /\ meta_carry = 0
      /\ j = 0 /\ i = 0 /\ ret = 0 /\ q = 0 /\ pc = "pair"
  BY LinOps DEF Lin!Init
<1>3. m \in Uint /\ m % 2 = 1
  BY ModuliAssumption
<1>4. m > 0 /\ m \in Nat
  BY <1>3, <1>1, SMT DEF Uint
<1>5. products \in Seq((0..(m - 1)) \X (0..(m - 1))) /\ products # <<>>
  BY <1>2, ProductsAssumption
<1>6. PairsOf(products, m)
  BY <1>3, <1>4, <1>5 DEF PairsOf
<1>7. Len(products) \in Nat /\ Len(products) # 0
  BY <1>5
<1>8. 1 \in 1..(Len(products) + 1) /\ 1 - 1 = 0 /\ 1 # Len(products) + 1
  BY <1>7, SMT
<1>9. /\ InWindow(products, first - 1, count, m)
      /\ ExactWindow(products, first - 1, count, 0, 0, 0 + 0 * R + 0 * (R * B), 0, m)
      /\ 0 < W[0]
      /\ count \in 0..Lin!max_accum(m) /\ count # 0
  BY <1>2, <1>6, <1>8, FreshWindow, WindowFromFacts
<1>10. 0 \in Uint /\ 0 \in Word /\ 0 \in 0..N /\ 0 \in Nat /\ 0 \in 0..count
  BY <1>1, <1>9, SMT DEF Uint, Word
<1>11. Lin!TypeOK
  BY <1>2, <1>8, <1>9, <1>10, LinOps DEF Lin!TypeOK
<1>12. (ret * R) % m = SumTo(first - 1, AllProducts(products)) % m
  <2>1. Summands(AllProducts(products), Len(products))
    BY <1>6, <1>10, ProductParts
  <2>2. 0 \in 0..Len(products)
    BY <1>7, SMT
  <2>3. SumTo(0, AllProducts(products)) = 0
    BY <2>1, <2>2, <1>7, SumSteps DEF SumTo
  <2>4. 0 * R = 0
    BY <1>1, SMT
  <2> QED
    BY <2>3, <2>4, <1>2, <1>8
<1>13. ExactWindow(products, first - 1, count, j, i, LinAcc, q, m)
  BY <1>2, <1>9 DEF LinAcc
<1> QED
  BY <1>1, <1>2, <1>3, <1>4, <1>6, <1>9, <1>11, <1>12, <1>13 DEF LinInv

\* A product of less than R and a limb is added to the three-part accumulator.
LEMMA AddsParts ==
    ASSUME NEW ul \in Uint, NEW hi \in Word, NEW hc \in Word, NEW b \in Uint,
           NEW a \in Word, NEW s, s = ul + b * a + 0,
           NEW h, h = carrying_add(hi, s \div R, 0),
           NEW v, v = ul + hi * R + hc * (R * B),
           v + a * b < 2 * (R * B)
    PROVE  /\ s \in Nat /\ s % R \in Uint /\ s \div R \in Word
           /\ s = R * (s \div R) + (s % R)
           /\ h[1] \in Word /\ h[2] \in Word /\ h[1] + B * h[2] = hi + s \div R
           /\ (hc + h[2]) % B = hc + h[2] /\ hc + h[2] \in {0, 1}
           /\ (s % R) + h[1] * R + (hc + h[2]) * (R * B) = v + a * b
<1> DEFINE e  == a * b
           rb == R * B
           s1 == s % R
           s2 == s \div R
           h1 == h[1]
           h2 == h[2]
<1>1. /\ R \in Nat /\ R > 0 /\ B \in Nat /\ B >= 2 /\ ul \in Nat /\ ul <= R - 1
      /\ hi \in Nat /\ hc \in Nat /\ b \in Nat /\ b <= R - 1 /\ a \in Nat
      /\ a <= B - 1 /\ R - 1 \in Nat /\ B - 1 \in Nat
      /\ 0 \in Word /\ 0 <= 1
  BY BaseFacts, SMT DEF Uint, Word
<1>2. e \in Nat /\ e <= rb - R - B + 1 /\ b * a = e /\ rb \in Nat
  <2>1. a * b \in Nat /\ a * b <= (B - 1) * (R - 1)
    BY <1>1, ProductBound
  <2>2. (B - 1) * (R - 1) = R * B - R - B + 1 /\ b * a = a * b /\ R * B \in Nat
    BY <1>1, SMT
  <2> QED
    BY <2>1, <2>2
<1>3. s = ul + e + 0
  BY <1>2
<1> HIDE DEF e
<1>4. s \in Nat /\ s \in Int /\ s >= 0 /\ s < rb
  BY <1>1, <1>2, <1>3, SMT
<1>5. s1 \in Nat /\ s1 < R /\ s2 \in Nat /\ s = R * s2 + s1
  BY <1>1, <1>4, DivMod
<1>6. s1 \in Uint /\ s2 \in Word
  <2> HIDE DEF s1, s2
  <2>1. s1 \in Uint
    BY <1>1, <1>5, SMT DEF Uint
  <2>2. R * s2 \in Int
    BY <1>1, <1>5, SMT
  <2>3. R * s2 < R * B
    <3> DEFINE z == R * s2
    <3>1. s = z + s1 /\ z \in Int
      BY <1>5, <2>2
    <3> HIDE DEF z, rb
    <3>2. z < rb
      BY <3>1, <1>2, <1>4, <1>5, SMT
    <3> QED
      BY <3>2 DEF z, rb
  <2>4. s2 < B
    BY <2>3, <1>1, <1>5, Cancel, SMT
  <2>5. s2 \in Word
    BY <2>4, <1>1, <1>5, SMT DEF Word
  <2> QED
    BY <2>1, <2>5
<1>7. h1 \in Word /\ h2 \in Word /\ h1 + B * h2 = hi + s2 + 0
  <2> DEFINE zero == 0
  <2>1. zero \in Word /\ s2 \in Word /\ h = carrying_add(hi, s2, zero)
    BY <1>1, <1>6
  <2> HIDE DEF s2, zero
  <2>2. h[1] \in Word /\ h[2] \in Word /\ h[1] + B * h[2] = hi + s2 + zero
    BY <2>1, CarryingAddExact
  <2> QED
    BY <2>2 DEF zero
<1>8. h1 \in Nat /\ h2 \in Nat
  <2> HIDE DEF h1, h2
  <2> QED
    BY <1>1, <1>7, SMT DEF Word
<1>9. s1 + h1 * R + (hc + h2) * rb = v + e
  <2> HIDE DEF s1, s2, h1, h2
  <2>1. h1 + B * h2 = hi + s2
    BY <1>1, <1>5, <1>7, SMT
  <2>2. (h1 + B * h2) * R = h1 * R + h2 * rb /\ (hi + s2) * R = hi * R + R * s2
    BY <1>1, <1>5, <1>8, SMT
  <2>3. (hc + h2) * rb = hc * rb + h2 * rb
    BY <1>1, <1>2, <1>8, SMT
  <2> DEFINE p == h1 * R
             g == h2 * rb
             w == hi * R
             x1 == R * s2
             y1 == hc * rb
  <2>4. p \in Int /\ g \in Int /\ w \in Int /\ x1 \in Int /\ y1 \in Int
    <3> HIDE DEF rb
    <3> QED
      BY <1>1, <1>2, <1>5, <1>8, SMT
  <2>5. p + g = w + x1 /\ s = x1 + s1 /\ s = ul + e + 0 /\ v = ul + w + y1
    BY <2>1, <2>2, <1>3, <1>5
  <2> HIDE DEF p, g, w, x1, y1
  <2>6. s1 + p + (y1 + g) = v + e
    BY <2>4, <2>5, <1>1, <1>2, <1>5, SMT
  <2> QED
    BY <2>3, <2>6 DEF p, g, y1
<1>10. hc + h2 <= 1 /\ hc + h2 \in Nat
  <2> DEFINE g == hc + h2
             f == s1 + h1 * R
  <2>1. g \in Nat
    <3> HIDE DEF h2
    <3> QED
      BY <1>1, <1>8, SMT
  <2>2. f \in Nat
    <3> HIDE DEF h1, s1
    <3> QED
      BY <1>1, <1>5, <1>8, SMT
  <2>3. f + g * rb < 2 * rb /\ rb * g = g * rb /\ rb * 2 = 2 * rb
    <3>1. f + g * rb < 2 * rb
      BY <1>9 DEF e
    <3> HIDE DEF f, g, rb
    <3> QED
      BY <3>1, <2>1, <1>2, SMT
  <2>4. rb * g < rb * 2
    <3> DEFINE z == g * rb
    <3>1. z \in Int /\ f + z < 2 * rb /\ rb * g = z
      BY <2>1, <2>3, <1>2, SMT
    <3> HIDE DEF z, f, g, rb
    <3>2. z < 2 * rb
      BY <3>1, <2>2, <1>2, SMT
    <3> QED
      BY <3>1, <3>2, <2>3
  <2> HIDE DEF f, g, rb
  <2>5. g < 2
    BY <2>1, <2>4, <1>2, Cancel, SMT
  <2>6. g <= 1
    BY <2>1, <2>5, SMT
  <2> QED
    BY <2>1, <2>6 DEF g
<1>11. (hc + h2) % B = hc + h2 /\ hc + h2 \in {0, 1}
  <2> DEFINE g == hc + h2
  <2>1. g \in Nat /\ g <= 1
    BY <1>10
  <2> HIDE DEF g
  <2>2. g = B * 0 + g /\ g \in 0..(B - 1) /\ g \in {0, 1} /\ g \in Int /\ 0 \in Int
    BY <2>1, <1>1, SMT
  <2>3. g % B = g
    BY <2>2, <1>1, DivisionIs
  <2> QED
    BY <2>2, <2>3 DEF g
<1>12. h1 + B * h2 = hi + s2
  <2> HIDE DEF h1, h2, s2
  <2> QED
    BY <1>1, <1>5, <1>7, SMT
<1> QED
  BY <1>4, <1>5, <1>6, <1>7, <1>9, <1>11, <1>12 DEF e

\* The next row of a pair.
LEMMA LinPairInv == LinInv /\ Lin!Pair => LinInv'
<1> SUFFICES ASSUME LinInv, Lin!Pair PROVE LinInv'
  OBVIOUS
<1> DEFINE p == products[first + i]
           a == Limb(p[1], j)
           b == p[2]
           s == out + b * a + 0
           h == carrying_add(carry, s \div R, 0)
           hc == meta_carry + h[2]
           f0 == first - 1
<1>1. R \in Nat /\ R > 0 /\ B \in Nat /\ B >= 2 /\ N \in Nat
  BY BaseFacts, SMT
<1>2. /\ out' = s % R /\ carry' = h[1] /\ meta_carry' = hc % B
      /\ i' = i + 1 /\ pc' = (IF i + 1 = count THEN "reduce" ELSE "pair")
      /\ UNCHANGED <<m, k, products, first, count, j, ret, q>> /\ pc = "pair"
  BY LinOps DEF Lin!Pair, Lin!params
<1>3. /\ i # count /\ j # N /\ count # 0
      /\ ExactWindow(products, f0, count, j, i, LinAcc, q, m)
  BY <1>2 DEF LinInv
<1>4. /\ i \in 0..(count - 1) /\ f0 + (i + 1) = first + i
      /\ f0 + (i + 1) \in 1..Len(products)
      /\ i + 1 \in 0..count /\ j \in 0..N /\ j \in 0..(2 * N)
      /\ i \in Nat
  <2>1. /\ i \in 0..count /\ count \in Nat /\ first \in 1..(Len(products) + 1)
        /\ Len(products) \in Nat /\ j \in 0..N
        /\ InWindow(products, first - 1, count, m)
    BY LinTypes
  <2>2. count \in 0..(Len(products) - (first - 1))
    BY <2>1 DEF InWindow
  <2> QED
    BY <2>1, <2>2, <1>1, <1>3, SMT
<1>5. p[1] \in Nat /\ b \in Uint
  BY <1>4, LinTypes, PairTypes
<1>6. a \in Word
  BY <1>4, <1>5, LimbType
<1>7. LinAcc = out + carry * R + meta_carry * (R * B) /\ LinAcc \in Nat
  BY <1>2, LinTypes DEF LinAcc
<1> DEFINE v == LinAcc
           nv == v + a * b
<1>8. /\ a * b \in Nat
      /\ ExactWindow(products, f0, count, j, i + 1, nv, q, m)
  <2>1. products[f0 + (i + 1)] = p
    BY <1>4
  <2>2. /\ InWindow(products, f0, count, m) /\ v \in Nat /\ q \in Nat
        /\ j \in 0..N /\ i \in 0..(count - 1)
        /\ ExactWindow(products, f0, count, j, i, v, q, m)
    BY <1>3, <1>4, LinTypes
  <2> HIDE DEF v, f0, p
  <2> QED
    BY <2>1, <2>2, WindowAddsPair
<1>9. nv \in Nat /\ nv < B * R + m
  <2>1. nv \in Nat
    <3> DEFINE e == a * b
    <3>1. e \in Nat /\ v \in Nat
      BY <1>7, <1>8
    <3> HIDE DEF e, v
    <3>2. v + e \in Nat
      BY <3>1, SMT
    <3> QED
      BY <3>2 DEF e
  <2>2. /\ InWindow(products, f0, count, m) /\ q \in Nat /\ q < W[j]
        /\ j \in 0..N /\ i + 1 \in 0..count
    BY <1>4, LinTypes
  <2> HIDE DEF nv, f0
  <2> QED
    BY <2>1, <2>2, <1>8, WindowBound
<1>10. nv < 2 * (R * B)
  <2> DEFINE rb == R * B
  <2>1. rb \in Nat /\ B * R = rb /\ R <= rb
    <3>1. R * 1 <= R * B /\ R * B \in Nat /\ B * R = R * B
      BY <1>1, Monotone, SMT
    <3> QED
      BY <3>1, <1>1, SMT
  <2>2. m < R /\ m \in Nat
    BY LinTypes
  <2> HIDE DEF rb, nv
  <2>3. nv < 2 * rb
    BY <2>1, <2>2, <1>1, <1>9, SMT
  <2> QED
    BY <2>3 DEF rb
<1>11. /\ s % R \in Uint /\ h[1] \in Word
       /\ hc % B = hc /\ hc \in {0, 1}
       /\ (s % R) + h[1] * R + hc * (R * B) = nv
  <2>1. out \in Uint /\ carry \in Word /\ meta_carry \in Word
    BY LinTypes
  <2>2. s = out + b * a + 0 /\ h = carrying_add(carry, s \div R, 0)
        /\ v = out + carry * R + meta_carry * (R * B) /\ v + a * b < 2 * (R * B)
    BY <1>7, <1>10
  <2> HIDE DEF s, h, v, a, b
  <2> QED
    BY <2>1, <2>2, <1>5, <1>6, AddsParts
<1>12. hc \in Word /\ meta_carry' = hc
  <2> HIDE DEF hc
  <2> QED
    BY <1>1, <1>2, <1>11, SMT DEF Word
<1>13. Lin!TypeOK'
  <2> HIDE DEF hc, s, h
  <2>1. /\ out' \in Uint /\ carry' \in Word /\ meta_carry' \in Word
        /\ i' \in 0..count' /\ pc' \in {"pair", "reduce", "correct", "done"}
        /\ UNCHANGED <<m, k, products, first, count, j, ret, q>>
    BY <1>2, <1>4, <1>11, <1>12
  <2> QED
    BY <2>1, LinOps DEF LinInv, Lin!TypeOK
<1>14. LinAcc' = nv
  <2>1. pc' # "correct"
    BY <1>2
  <2>2. LinAcc' = out' + carry' * R + meta_carry' * (R * B)
    BY <2>1 DEF LinAcc
  <2> HIDE DEF hc, s, h
  <2> QED
    BY <2>2, <1>2, <1>11, <1>12
<1>15. /\ pc' \in {"pair", "reduce"} /\ pc' # "done" /\ pc' # "correct"
       /\ pc' = "pair" => i' # count'
  BY <1>2
<1>16. pc' = "reduce" => i' = count'
  BY <1>2
<1> HIDE DEF nv
<1>17. ExactWindow(products', first' - 1, count', j', i', LinAcc', q', m')
  BY <1>2, <1>8, <1>14
<1>18. /\ UNCHANGED <<m, k, products, first, count, j, ret, q>>
       /\ pc' = "pair" => i' # count'
  BY <1>2
<1>19. count' = Lin!WindowFrom(first', products', m')
  BY <1>18 DEF LinInv
<1> QED
  BY <1>3, <1>13, <1>15, <1>16, <1>17, <1>18, <1>19 DEF LinInv

\* Dropping the cleared limb moves the parts of the accumulator down by one.
LEMMA DropsLimb ==
    ASSUME NEW s1 \in Nat, s1 < R, NEW s2 \in Nat, NEW z0 \in Nat,
           R * s2 + s1 = B * z0, NEW t1 \in Word, NEW g \in Nat,
           NEW o, o = (s1 \div B) + t1 * W[N - 1]
    PROVE  /\ o \in Uint
           /\ B * (o + g * R) = s1 + t1 * R + g * (R * B)
<1> DEFINE w == W[N - 1]
           y1 == z0 - w * s2
           y2 == s1 \div B
<1>1. /\ R \in Nat /\ R > 0 /\ B \in Nat /\ B > 0 /\ t1 \in Nat /\ t1 <= B - 1
      /\ N - 1 \in 0..(2 * N) /\ N - 1 < 2 * N /\ (N - 1) + 1 = N
  BY BaseFacts, SMT DEF Word
<1>2. w \in Nat /\ w > 0 /\ W[(N - 1) + 1] = B * w
  BY <1>1, WeightFacts
<1>3. R = B * w
  BY <1>1, <1>2 DEF R
<1> HIDE DEF w
<1>4. y1 \in Int /\ s1 = B * y1 + 0
  <2>1. w * s2 \in Int /\ R * s2 = B * (w * s2)
    BY <1>1, <1>2, <1>3, SMT
  <2> DEFINE ws == w * s2
  <2> HIDE DEF ws
  <2>2. B * (z0 - ws) = B * z0 - B * ws
    BY <2>1, <1>1, SMT DEF ws
  <2> DEFINE bz == B * z0
             bw == B * ws
  <2>3. bz \in Int /\ bw \in Int /\ bw + s1 = bz
    <3>1. ws \in Int /\ B * ws = R * s2
      BY <2>1 DEF ws
    <3>2. bw \in Int /\ bz \in Int
      BY <3>1, <1>1, SMT
    <3>3. bw + s1 = R * s2 + s1
      BY <3>1
    <3> QED
      BY <3>2, <3>3
  <2> HIDE DEF bz, bw
  <2>4. s1 = bz - bw
    BY <2>3, SMT
  <2> QED
    BY <2>1, <2>2, <2>4 DEF bz, bw, ws
<1> HIDE DEF y1
<1>5. y2 = y1
  <2>1. s1 \in Int /\ 0 \in 0..(B - 1)
    BY <1>1, SMT
  <2> QED
    BY <2>1, <1>1, <1>4, DivisionIs
<1>6. y1 < w /\ y1 >= 0
  <2>1. B * y1 = s1 /\ B * 0 = 0
    BY <1>1, <1>4, SMT
  <2>2. B * y1 < B * w
    BY <2>1, <1>3
  <2>3. B * (-1) < B * y1
    BY <2>1, <1>1, SMT
  <2>4. y1 < w
    BY <2>2, <1>1, <1>2, <1>4, Cancel
  <2>5. -1 < y1
    BY <2>3, <1>1, <1>4, Cancel, SMT
  <2> QED
    BY <2>4, <2>5, <1>4, SMT
<1>7. o = y1 + t1 * w
  BY <1>5 DEF w
<1>8. o \in Uint
  <2>1. w * t1 <= w * (B - 1) /\ w * t1 = t1 * w /\ w * (B - 1) = B * w - w
    BY <1>1, <1>2, Monotone, SMT
  <2> DEFINE tw == t1 * w
             bw == B * w
  <2>2. tw \in Nat /\ bw \in Nat /\ tw <= bw - w /\ R = bw /\ o = y1 + tw
    BY <2>1, <1>1, <1>2, <1>3, <1>7, SMT
  <2> HIDE DEF tw, bw
  <2> QED
    BY <2>2, <1>2, <1>4, <1>6, SMT DEF Uint
<1>9. B * (o + g * R) = s1 + t1 * R + g * (R * B)
  <2>1. t1 * w \in Int /\ B * (t1 * w) = t1 * R /\ g * R \in Int
        /\ B * (g * R) = g * (R * B) /\ B * y1 = s1
    BY <1>1, <1>2, <1>3, <1>4, SMT
  <2> DEFINE tw == t1 * w
             gr == g * R
  <2>2. tw \in Int /\ gr \in Int
    BY <2>1
  <2> HIDE DEF tw, gr
  <2>3. B * ((y1 + tw) + gr) = B * y1 + B * tw + B * gr
    BY <2>2, <1>1, <1>4, SMT
  <2> QED
    BY <2>1, <2>3, <1>7 DEF tw, gr
<1> QED
  BY <1>8, <1>9

\* The row ends.
LEMMA LinReduceInv == LinInv /\ Lin!Reduce => LinInv'
<1> SUFFICES ASSUME LinInv, Lin!Reduce PROVE LinInv'
  OBVIOUS
<1> DEFINE c == wrapping_mul(Limb(out, 0), k)
           s == out + m * c + 0
           h == carrying_add(carry, s \div R, 0)
           hc == meta_carry + h[2]
           f0 == first - 1
           o == ((s % R) \div B) + h[1] * W[N - 1]
           qn == q + c * W[j]
<1>1. R \in Nat /\ R > 0 /\ B \in Nat /\ B >= 2 /\ N \in Nat /\ N > 0
  BY BaseFacts, SMT
<1>2. /\ out' = o /\ q' = qn /\ j' = j + 1 /\ i' = 0
      /\ UNCHANGED <<m, k, products, first, count, ret>> /\ pc = "reduce"
      /\ IF j + 1 = N
           THEN carry' = carry /\ meta_carry' = hc % B /\ pc' = "correct"
           ELSE carry' = hc % B /\ meta_carry' = 0 /\ pc' = "pair"
  BY LinOps DEF Lin!Reduce, Lin!params
<1>3. /\ i = count /\ j # N /\ count # 0
      /\ ExactWindow(products, f0, count, j, i, LinAcc, q, m)
  BY <1>2 DEF LinInv
<1>4. /\ j \in 0..(N - 1) /\ j \in 0..N /\ j + 1 \in 0..N /\ j \in 0..(2 * N - 1)
      /\ count \in 0..count
  <2>1. j \in 0..N /\ count \in Nat
    BY LinTypes
  <2> QED
    BY <2>1, <1>1, <1>3, SMT
<1>5. LinAcc = out + carry * R + meta_carry * (R * B) /\ LinAcc \in Nat
  BY <1>2, LinTypes DEF LinAcc
<1> DEFINE v == LinAcc
<1>6. v < B * R + m
  <2>1. /\ InWindow(products, f0, count, m) /\ q \in Nat /\ q < W[j]
        /\ ExactWindow(products, f0, count, j, count, v, q, m) /\ v \in Nat
    BY <1>3, <1>5, LinTypes
  <2> HIDE DEF v, f0
  <2> QED
    BY <2>1, <1>4, WindowBound
<1>7. c \in Word /\ \E z \in Nat : out + c * m = B * z
  <2>1. out \in Nat /\ k \in Nat /\ m \in Nat /\ IsModNegInv(k, m)
    BY LinTypes
  <2>2. Limb(out, 0) = out % B
    BY <2>1, LowestLimb
  <2>3. c = ((out % B) * k) % B
    BY <2>2 DEF wrapping_mul, Lo
  <2> HIDE DEF c
  <2> QED
    BY <2>1, <2>3, ClearsLowLimb
<1>8. v + c * m < 2 * (R * B)
  <2> DEFINE rb == R * B
             cm == c * m
             bm == B * m
  <2>1. c \in Nat /\ c <= B - 1 /\ m \in Nat /\ m < R
    <3> HIDE DEF c
    <3>1. c \in Nat /\ c <= B - 1
      BY <1>1, <1>7, SMT DEF Word
    <3> QED
      BY <3>1, LinTypes
  <2>2. B - 1 \in Int /\ B - 1 >= 0
    BY <1>1, SMT
  <2>3. m * c <= m * (B - 1) /\ m * c = cm /\ m * (B - 1) = bm - m
    <3> HIDE DEF c
    <3> QED
      BY <2>1, <2>2, <1>1, Monotone, SMT
  <2>4. B * m <= B * R /\ B * R = rb /\ rb \in Nat /\ bm \in Nat /\ cm \in Nat
    <3> HIDE DEF c
    <3> QED
      BY <2>1, <1>1, Monotone, SMT
  <2>5. v < rb + m /\ cm <= bm - m /\ bm <= rb /\ v \in Nat
    BY <2>3, <2>4, <1>5, <1>6
  <2> HIDE DEF rb, cm, bm, v
  <2>6. v + cm < 2 * rb
    BY <2>1, <2>4, <2>5, SMT
  <2> QED
    BY <2>6 DEF rb, cm
<1>9. /\ s % R \in Uint /\ s = R * (s \div R) + (s % R) /\ s \div R \in Word
      /\ h[1] \in Word /\ hc % B = hc /\ hc \in {0, 1}
      /\ (s % R) + h[1] * R + hc * (R * B) = v + c * m
  <2>1. out \in Uint /\ carry \in Word /\ meta_carry \in Word /\ m \in Uint
    BY LinTypes
  <2>2. s = out + m * c + 0 /\ h = carrying_add(carry, s \div R, 0)
        /\ v = out + carry * R + meta_carry * (R * B) /\ v + c * m < 2 * (R * B)
    BY <1>5, <1>8
  <2> HIDE DEF s, h, v, c
  <2> QED
    BY <2>1, <2>2, <1>7, AddsParts
<1> DEFINE zn == o + hc * R
<1>10. o \in Uint /\ B * zn = v + c * m
  <2>1. PICK z \in Nat : out + c * m = B * z
    BY <1>7
  <2>2. s = B * z
    <3>1. c * m = m * c /\ out \in Nat /\ m * c \in Nat
      <4>1. c \in Nat /\ m \in Nat /\ out \in Nat
        BY <1>7, LinTypes DEF Word
      <4> HIDE DEF c
      <4> QED
        BY <4>1, SMT
    <3> DEFINE mc == m * c
    <3>2. out + mc = B * z /\ s = out + mc + 0 /\ mc \in Nat
      BY <3>1, <2>1
    <3> HIDE DEF mc, s
    <3> QED
      BY <3>1, <3>2, SMT
  <2> DEFINE s1 == s % R
             s2 == s \div R
             t1 == h[1]
  <2>3. /\ s1 \in Nat /\ s1 < R /\ s2 \in Nat /\ R * s2 + s1 = B * z
    <3>1. s1 \in Uint /\ s2 \in Word /\ R * s2 + s1 = B * z
      BY <1>9, <2>2
    <3> HIDE DEF s1, s2
    <3> QED
      BY <3>1, <1>1, SMT DEF Uint, Word
  <2>4. t1 \in Word /\ hc \in Nat /\ o = (s1 \div B) + t1 * W[N - 1]
    <3>1. hc \in Nat
      <4> HIDE DEF hc
      <4> QED
        BY <1>9, SMT
    <3> QED
      BY <3>1, <1>9
  <2>5. s1 + t1 * R + hc * (R * B) = v + c * m
    BY <1>9
  <2> HIDE DEF s1, s2, t1, hc, o
  <2>6. o \in Uint /\ B * (o + hc * R) = s1 + t1 * R + hc * (R * B)
    BY <2>3, <2>4, DropsLimb
  <2> QED
    BY <2>5, <2>6
<1>11. zn \in Nat /\ o \in Nat /\ hc \in Nat /\ hc \in Word
  <2> HIDE DEF o, hc
  <2>1. o \in Nat /\ hc \in Nat /\ hc \in Word
    BY <1>1, <1>9, <1>10, SMT DEF Uint, Word
  <2>2. hc * R \in Nat
    BY <2>1, <1>1, SMT
  <2> DEFINE g == hc * R
  <2>3. o + g \in Nat
    <3> HIDE DEF g
    <3> QED
      BY <2>1, <2>2, SMT DEF g
  <2> QED
    BY <2>1, <2>3
<1>12. ExactWindow(products, f0, count, j + 1, 0, zn, qn, m)
  <2>1. /\ InWindow(products, f0, count, m) /\ v \in Nat /\ q \in Nat
        /\ ExactWindow(products, f0, count, j, count, v, q, m)
    BY <1>3, <1>5, LinTypes
  <2>2. c \in Nat
    BY <1>7 DEF Word
  <2> HIDE DEF v, f0, c, zn
  <2> QED
    BY <2>1, <2>2, <1>4, <1>10, <1>11, WindowReduces
<1>13. qn \in Nat /\ qn < W[j + 1]
  <2>1. q \in Nat /\ q < W[j]
    BY LinTypes
  <2> HIDE DEF c
  <2> QED
    BY <2>1, <1>4, <1>7, MultipleGrows
<1>14. /\ out' \in Uint /\ carry' \in Word /\ meta_carry' \in Word
       /\ i' \in 0..count' /\ j' \in 0..N /\ q' \in Nat /\ q' < W[j']
       /\ pc' \in {"pair", "reduce", "correct", "done"}
       /\ UNCHANGED <<m, k, products, first, count, ret>>
  <2> HIDE DEF o, hc, qn
  <2>1. carry \in Word /\ 0 \in Word /\ count \in Nat
    BY <1>1, LinTypes, SMT DEF Word
  <2>2. 0 \in 0..count
    BY <2>1
  <2>3. carry' \in Word /\ meta_carry' \in Word
    BY <1>2, <1>9, <1>11, <2>1
  <2> QED
    BY <2>2, <2>3, <1>2, <1>4, <1>10, <1>13
<1>15. Lin!TypeOK'
  BY <1>14, LinOps DEF LinInv, Lin!TypeOK
<1>16. LinAcc' = zn
  <2> HIDE DEF o, hc
  <2>1. CASE j + 1 = N
    <3>1. pc' = "correct" /\ meta_carry' = hc /\ out' = o
      BY <2>1, <1>2, <1>9
    <3> QED
      BY <3>1 DEF LinAcc
  <2>2. CASE j + 1 # N
    <3>1. pc' # "correct" /\ carry' = hc /\ meta_carry' = 0 /\ out' = o
      BY <2>2, <1>2, <1>9
    <3>2. LinAcc' = o + hc * R + 0 * (R * B)
      BY <3>1 DEF LinAcc
    <3> DEFINE a == hc * R
               b == R * B
    <3>3. a \in Nat /\ b \in Nat
      BY <1>1, <1>11, SMT
    <3> HIDE DEF a, b
    <3>4. o + a + 0 * b = o + a
      BY <3>3, <1>11, SMT
    <3> QED
      BY <3>2, <3>4 DEF a, b
  <2> QED
    BY <2>1, <2>2
<1> HIDE DEF zn
<1>17. ExactWindow(products', first' - 1, count', j', i', LinAcc', q', m')
  BY <1>2, <1>12, <1>16
<1>18. /\ pc' = "pair" => j' # N /\ i' # count'
       /\ pc' = "correct" => j' = N /\ i' = 0
       /\ pc' \in {"pair", "correct"} /\ pc' # "done" /\ pc' # "reduce"
  <2>1. i' = 0 /\ count' = count /\ j' = j + 1
    BY <1>2
  <2>2. pc' = (IF j + 1 = N THEN "correct" ELSE "pair")
    BY <1>2
  <2> QED
    BY <2>1, <2>2, <1>3
<1>19. count' = Lin!WindowFrom(first', products', m')
  BY <1>14 DEF LinInv
<1> QED
  BY <1>3, <1>14, <1>15, <1>17, <1>18, <1>19 DEF LinInv

\* A window whose sum is s leaves v in the accumulator, after a for the sum t1
\* of the windows before it.
AddsWindow(n, a, t1, v, s, e) ==
    /\ n \in Nat /\ n > 0 /\ a \in Int /\ t1 \in Int /\ (a * R) % n = t1 % n
    /\ v \in Int /\ s \in Int /\ e \in Int /\ v * R = s + e * n

\* The residue of a sum of two windows.
LEMMA WindowsAdd ==
    ASSUME NEW n, NEW a, NEW t1, NEW v, NEW s, NEW e, AddsWindow(n, a, t1, v, s, e),
           NEW b, b = v % n, NEW c, c = (a + b) % n
    PROVE  (c * R) % n = (t1 + s) % n
<1>0. /\ n \in Nat /\ n > 0 /\ a \in Int /\ t1 \in Int /\ (a * R) % n = t1 % n
      /\ v \in Int /\ s \in Int /\ e \in Int /\ v * R = s + e * n
  BY DEF AddsWindow
<1>01. b \in Int
  BY <1>0, RemainderGap
<1>1. R \in Nat
  BY BaseFacts
<1>2. a + b \in Int /\ a * R \in Int
  BY <1>0, <1>01, <1>1, SMT
<1>3. PICK d1 \in Int : c = (a + b) + d1 * n
  BY <1>0, <1>01, <1>2, RemainderGap
<1>4. PICK d2 \in Int : b = v + d2 * n
  BY <1>0, <1>01, RemainderGap
<1>5. PICK d3 \in Int : a * R = t1 + d3 * n
  <2> DEFINE aR == a * R
  <2>1. aR \in Int /\ aR % n = t1 % n
    BY <1>0, <1>01, <1>2
  <2> HIDE DEF aR
  <2>2. \A a1, b1 \in Int : a1 % n = b1 % n => \E d3 \in Int : a1 = b1 + d3 * n
    BY <1>0, ResidueGap
  <2>3. \E d3 \in Int : aR = t1 + d3 * n
    BY <1>0, <2>1, <2>2, Zenon
  <2> QED
    BY <2>3 DEF aR
<1> DEFINE d == d3 + e + (d1 + d2) * R
<1>6. c * R = (t1 + s) + d * n
  <2>1. c = (a + v) + (d1 + d2) * n
    <3>1. (d1 + d2) * n = d1 * n + d2 * n
      BY <1>0, <1>01, SMT
    <3> DEFINE x1 == d1 * n
               x2 == d2 * n
    <3>2. x1 \in Int /\ x2 \in Int /\ c = (a + b) + x1 /\ b = v + x2
      BY <1>0, <1>01, <1>3, <1>4, SMT
    <3> HIDE DEF x1, x2
    <3>3. c = (a + v) + (x1 + x2)
      BY <1>0, <1>01, <3>2, SMT
    <3> QED
      BY <1>0, <1>01, <3>1, <3>3 DEF x1, x2
  <2> DEFINE g == d1 + d2
             aR == a * R
             vR == v * R
             gR == g * R
             gn == g * n
  <2>2. g \in Int
    BY <1>0, <1>01, SMT
  <2> HIDE DEF g
  <2>3. /\ aR \in Int /\ vR \in Int /\ gR \in Int /\ gn \in Int
        /\ ((a + v) + gn) * R = aR + vR + gn * R /\ gn * R = gR * n
    BY <1>0, <1>01, <2>2, <1>1, SMT
  <2>4. d * n = d3 * n + e * n + gR * n
    <3> HIDE DEF gR
    <3>1. ((d3 + e) + gR) * n = d3 * n + e * n + gR * n
      BY <1>0, <1>01, <2>3, SMT
    <3> QED
      BY <1>0, <1>01, <3>1 DEF g, gR
  <2> DEFINE dn == d3 * n
             en == e * n
             gRn == gR * n
  <2>5. dn \in Int /\ en \in Int /\ gRn \in Int
    BY <1>0, <1>01, <2>3, SMT
  <2>6. aR = t1 + dn /\ vR = s + en /\ c * R = aR + vR + gRn /\ d * n = dn + en + gRn
    <3>1. c * R = ((a + v) + gn) * R
      BY <1>0, <1>01, <2>1 DEF g, gn
    <3> QED
      BY <1>0, <1>01, <3>1, <2>3, <2>4, <1>5
  <2> HIDE DEF d, aR, vR, dn, en, gRn
  <2>7. c * R = (t1 + s) + (dn + en + gRn)
    BY <1>0, <1>01, <2>5, <2>6, SMT
  <2> QED
    BY <1>0, <1>01, <2>6, <2>7
<1>7. d \in Int /\ c * R \in Int /\ t1 + s \in Int
  <2>1. d \in Int
    BY <1>0, <1>01, <1>1, SMT
  <2>2. c \in Int
    BY <1>0, <1>01, <1>2, RemainderGap
  <2> QED
    BY <1>0, <1>01, <2>1, <2>2, <1>1, SMT
<1> HIDE DEF d
<1> DEFINE cR == c * R
           ts == t1 + s
<1>8. cR \in Int /\ ts \in Int /\ cR = ts + d * n
  BY <1>0, <1>01, <1>6, <1>7
<1> HIDE DEF cR, ts
<1>9. cR % n = ts % n
  <2>1. n \in Nat /\ n > 0 /\ cR \in Int /\ ts \in Int /\ d \in Int
    BY <1>0, <1>7, <1>8
  <2>2. cR = ts + d * n
    BY <1>8
  <2> QED
    BY <2>1, <2>2, SameResidue
<1> QED
  BY <1>0, <1>01, <1>9 DEF cR, ts

\* A finished window and its reduction.
LEMMA WindowReduced ==
    ASSUME LinInv, Lin!Correct
    PROVE  /\ ret' \in Nat /\ ret' < m /\ ret' \in Uint
           /\ (ret' * R) % m = SumTo(first - 1 + count, AllProducts(products)) % m
<1> DEFINE f0 == first - 1
           v == out + meta_carry * R
           buf == TrySubWithCarry(out, meta_carry, m)[1]
           S == WindowSum(AllProducts(products), f0, count)
           T == SumTo(f0, AllProducts(products))
<1>1. R \in Nat /\ R > 0 /\ N \in Nat /\ N > 0
  BY BaseFacts, SMT
<1>2. /\ pc = "correct" /\ UNCHANGED <<m, k, products>>
      /\ ret' = IF count = Len(products) THEN buf
                ELSE TrySubWithCarry((ret + buf + 0) % R, (ret + buf + 0) \div R, m)[1]
  BY LinOps DEF Lin!Correct, Lin!params
<1>3. /\ InWindow(products, f0, count, m) /\ PairsOf(products, m)
      /\ m \in Uint /\ m \in Nat /\ m > 0 /\ m < R /\ m \in Int
      /\ out \in Nat /\ out < R /\ out \in Uint /\ meta_carry \in Nat
      /\ q \in Nat /\ q < W[j] /\ ret \in Nat /\ ret < m /\ ret \in Uint
      /\ f0 \in 0..Len(products) /\ count \in Nat /\ LinAcc \in Nat
      /\ Len(products) \in Nat /\ first \in 1..(Len(products) + 1)
  BY LinTypes
<1>4. LinAcc = v /\ v \in Nat
  BY <1>2, <1>3 DEF LinAcc
<1>5. j = N /\ i = 0 /\ ExactWindow(products, f0, count, j, i, LinAcc, q, m)
      /\ (ret * R) % m = T % m /\ count # 0 /\ (first = 1 => ret = 0)
      /\ count = Lin!WindowFrom(first, products, m)
  BY <1>2 DEF LinInv
<1>6. v * R = S + q * m /\ v < 2 * m
  <2>1. ExactWindow(products, f0, count, N, 0, v, q, m) /\ q < W[N]
    BY <1>3, <1>4, <1>5
  <2> HIDE DEF v, f0, S
  <2>2. /\ v * R = WindowSum(AllProducts(products), f0, count) + q * m
        /\ v < 2 * m
    BY <2>1, <1>3, <1>4, WindowEnds
  <2> QED
    BY <2>2 DEF S
<1>7. v % R = out /\ v \div R = meta_carry
  <2>1. v = R * meta_carry + out /\ out \in 0..(R - 1) /\ v \in Int
    BY <1>1, <1>3, <1>4, SMT
  <2> HIDE DEF v
  <2> QED
    BY <2>1, <1>1, <1>3, DivisionIs
<1>8. buf = v % m
  <2>1. TrySubWithCarry(v % R, v \div R, m)[1] = v % m
    <3> HIDE DEF v
    <3> QED
      BY <1>3, <1>4, <1>6, TrySubReduces
  <2> QED
    BY <2>1, <1>7
<1>9. buf \in Nat /\ buf < m
  <2>1. v % m \in 0..(m - 1)
    <3> HIDE DEF v
    <3> QED
      BY <1>3, <1>4, ResidueOf
  <2> HIDE DEF buf, v
  <2> QED
    BY <2>1, <1>3, <1>8, SMT
<1> HIDE DEF buf, v
<1>10. ret' = (ret + buf) % m
  <2> DEFINE w == ret + buf + 0
  <2>1. w \in Nat /\ w < 2 * m /\ w = ret + buf
    BY <1>3, <1>9, SMT
  <2>2. TrySubWithCarry(w % R, w \div R, m)[1] = w % m
    <3> HIDE DEF w
    <3> QED
      BY <2>1, <1>3, TrySubReduces
  <2>3. CASE count # Len(products)
    BY <2>1, <2>2, <2>3, <1>2
  <2>4. CASE count = Len(products)
    <3>1. first = 1
      BY <2>4, <1>3, <1>5, WindowFromFacts
    <3>2. ret + buf = buf /\ buf \in 0..(m - 1)
      BY <3>1, <1>3, <1>5, <1>9, SMT
    <3>3. buf % m = buf
      BY <3>2, <1>3, ResidueItself
    <3> QED
      BY <3>2, <3>3, <2>4, <1>2
  <2> QED
    BY <2>3, <2>4
<1>11. ret' \in Nat /\ ret' < m /\ ret' \in Uint
  <2>1. ret + buf \in Int
    BY <1>3, <1>9, SMT
  <2>2. (ret + buf) % m \in 0..(m - 1)
    BY <2>1, <1>3, ResidueOf
  <2> QED
    BY <2>2, <1>1, <1>3, <1>10, SMT DEF Uint
<1>12. S \in Nat /\ T \in Nat /\ SumTo(f0 + count, AllProducts(products)) = T + S
  <2>1. 0 \in 0..N /\ count \in 0..count /\ count \in 0..(Len(products) - f0)
    BY <1>1, <1>3, SMT DEF InWindow
  <2>2. S \in Nat
    BY <2>1, <1>3, WindowSums
  <2>3. Summands(AllProducts(products), Len(products))
    BY <2>1, <1>3, ProductParts
  <2>4. f0 + count \in 0..Len(products)
    BY <2>1, <1>3, SMT
  <2> DEFINE Z == SumTo(f0 + count, AllProducts(products))
  <2>5. T \in Nat /\ Z \in Nat
    BY <2>3, <2>4, <1>3, SumSteps DEF SumTo
  <2>6. S = Z - T
    BY DEF WindowSum
  <2> HIDE DEF S, Z, T
  <2>7. Z = T + S
    BY <2>2, <2>5, <2>6, SMT
  <2> QED
    BY <2>2, <2>5, <2>7 DEF Z
<1>13. (ret' * R) % m = (T + S) % m
  <2> HIDE DEF S, T
  <2>1. AddsWindow(m, ret, T, v, S, q)
    BY <1>3, <1>4, <1>5, <1>6, <1>12 DEF AddsWindow
  <2> QED
    BY <2>1, <1>8, <1>10, WindowsAdd
<1> QED
  BY <1>11, <1>12, <1>13

\* A window ends and the next begins.
LEMMA LinCorrectInv == LinInv /\ Lin!Correct => LinInv'
<1> SUFFICES ASSUME LinInv, Lin!Correct PROVE LinInv'
  OBVIOUS
<1> DEFINE f == first + count
           c == Lin!WindowFrom(f, products, m)
<1>1. R \in Nat /\ R > 0 /\ B \in Nat /\ B > 0 /\ N \in Nat /\ N > 0 /\ N # 0
  BY BaseFacts, SMT
<1>2. /\ pc = "correct" /\ UNCHANGED <<m, k, products>>
      /\ out' = 0 /\ carry' = 0 /\ meta_carry' = 0 /\ j' = 0 /\ i' = 0 /\ q' = 0
      /\ first' = f /\ count' = c
      /\ pc' = IF count' = 0 THEN "done" ELSE "pair"
  BY DEF Lin!Correct, Lin!params
<1>3. /\ PairsOf(products, m) /\ first \in 1..(Len(products) + 1)
      /\ Len(products) \in Nat /\ count \in Nat
  BY LinTypes
<1>4. count # 0 /\ count = Lin!WindowFrom(first, products, m)
  BY <1>2 DEF LinInv
<1>5. f \in 1..(Len(products) + 1) /\ f - 1 = first - 1 + count /\ f # 1
  <2>1. f \in 1..(Len(products) + 1)
    BY <1>3, <1>4, WindowFromFacts
  <2> QED
    BY <2>1, <1>3, <1>4, SMT
<1> HIDE DEF f
<1>6. /\ InWindow(products, f - 1, c, m) /\ c \in 0..Lin!max_accum(m)
      /\ c = 0 <=> f = Len(products) + 1
      /\ ExactWindow(products, f - 1, c, 0, 0, 0 + 0 * R + 0 * (R * B), 0, m)
      /\ 0 < W[0] /\ c \in Nat
  BY <1>3, <1>5, FreshWindow, WindowFromFacts
<1> HIDE DEF c
<1>7. /\ ret' \in Nat /\ ret' < m /\ ret' \in Uint
      /\ (ret' * R) % m = SumTo(f - 1, AllProducts(products)) % m
  BY <1>5, WindowReduced
<1>8. 0 \in Uint /\ 0 \in Word /\ 0 \in 0..N /\ 0 \in Nat /\ 0 \in 0..c
  BY <1>1, <1>6, SMT DEF Uint, Word
<1>9. Lin!TypeOK'
  BY <1>2, <1>5, <1>6, <1>7, <1>8, LinOps DEF Lin!TypeOK
<1>10. ExactWindow(products', first' - 1, count', j', i', LinAcc', q', m')
  <2>1. pc' # "correct"
    BY <1>2
  <2>2. LinAcc' = 0 + 0 * R + 0 * (R * B)
    BY <2>1, <1>2 DEF LinAcc
  <2> QED
    BY <2>2, <1>2, <1>6
<1>11. /\ m' % 2 = 1 /\ k' \in Word /\ IsModNegInv(k', m')
       /\ PairsOf(products', m')
  BY <1>2, <1>3 DEF LinInv
<1>12. /\ pc' = "done" <=> count' = 0
       /\ pc' = "pair" => i' # count'
       /\ pc' \in {"pair", "done"} /\ pc' # "correct" /\ pc' # "reduce"
       /\ j' # N /\ first' # 1 /\ q' < W[j']
  BY <1>1, <1>2, <1>5, <1>6
<1>13. (ret' * R) % m' = SumTo(first' - 1, AllProducts(products')) % m' /\ ret' < m'
  BY <1>2, <1>7
<1>14. count' = Lin!WindowFrom(first', products', m')
  BY <1>2 DEF c
<1> QED
  BY <1>9, <1>10, <1>11, <1>12, <1>13, <1>14 DEF LinInv

ofLin == <<m, k, ofLincomb, out, carry, meta_carry, j, i, pc, q>>

LEMMA LinNextInv == LinInv /\ (Lin!Next \/ UNCHANGED ofLin) => LinInv'
<1>1. ASSUME LinInv, UNCHANGED ofLin PROVE LinInv'
  <2>1. LinAcc' = LinAcc
    BY <1>1 DEF ofLin, LinAcc
  <2> QED
    BY <1>1, <2>1 DEF ofLin, ofLincomb, LinInv, Lin!TypeOK
<1>2. ASSUME LinInv, Lin!Returned PROVE LinInv'
  <2>1. UNCHANGED ofLin
    BY <1>2 DEF Lin!Returned, Lin!vars, Lin!params, ofLin, ofLincomb
  <2> QED
    BY <2>1, <1>1, <1>2
<1> QED
  BY <1>1, <1>2, LinPairInv, LinReduceInv, LinCorrectInv DEF Lin!Next

\* A product's parts in Lincomb are those of this module.
LEMMA LinParts ==
    ASSUME LinInv
    PROVE  /\ Lin!LowPart = LowProducts(products, j)
           /\ Lin!RowPart = RowProducts(products, j)
           /\ Lin!Whole = AllProducts(products)
  BY LinOps DEF Lin!LowPart, Lin!RowPart, Lin!Whole, LowProducts, RowProducts,
     AllProducts

LEMMA LinWindow == LinInv => Lin!WindowExact
<1> SUFFICES ASSUME LinInv, pc # "done" PROVE Lin!WindowExact
  BY DEF Lin!WindowExact
<1> DEFINE f0 == first - 1
           v == IF pc = "correct" THEN out + meta_carry * R
                ELSE out + carry * R + meta_carry * R * B
           l == LowProducts(products, j)
           r == RowProducts(products, j)
<1>1. ExactWindow(products, f0, count, j, i, LinAcc, q, m)
  BY DEF LinInv
<1>2. v = LinAcc
  <2>1. meta_carry \in Nat /\ R \in Nat /\ B \in Nat
    BY LinTypes, BaseFacts
  <2>2. meta_carry * R * B = meta_carry * (R * B)
    BY <2>1, SMT
  <2> QED
    BY <2>2 DEF LinAcc
<1>3. v * W[j] = WindowSum(l, f0, count) + W[j] * WindowSum(r, f0, i) + q * m
  BY <1>1, <1>2 DEF ExactWindow
<1>4. /\ f0 + count = first + count - 1 /\ f0 + i = first + i - 1
  <2>1. first \in Int /\ count \in Int /\ i \in Int
    BY LinTypes
  <2> QED
    BY <2>1, SMT
<1>5. /\ Lin!SumOver(first, first + count - 1, l) = WindowSum(l, f0, count)
      /\ Lin!SumOver(first, first + i - 1, r) = WindowSum(r, f0, i)
  BY <1>4 DEF Lin!SumOver, WindowSum, SumTo
<1> HIDE DEF l, r
<1>6. v * W[j] = Lin!SumOver(first, first + count - 1, l)
                   + W[j] * Lin!SumOver(first, first + i - 1, r) + q * m
  BY <1>3, <1>5
<1>7. Lin!LowPart = l /\ Lin!RowPart = r
  BY LinParts DEF l, r
<1>8. Lin!R = R /\ Lin!B = B
  BY LinOps
<1> QED
  BY <1>6, <1>7, <1>8 DEF Lin!WindowExact

LEMMA LinResult == LinInv => Lin!LincombCorrect
<1> SUFFICES ASSUME LinInv PROVE Lin!LincombCorrect
  OBVIOUS
<1>1. ret < m /\ (ret * R) % m = SumTo(first - 1, AllProducts(products)) % m
  BY DEF LinInv
<1>2. ASSUME pc = "done"
      PROVE  (ret * R) % m = Lin!SumOver(1, Len(products), AllProducts(products)) % m
  <2>1. count = 0 /\ count = Lin!WindowFrom(first, products, m)
    BY <1>2 DEF LinInv
  <2>2. PairsOf(products, m) /\ first \in 1..(Len(products) + 1) /\ Len(products) \in Nat
        /\ N \in Nat
    BY LinTypes, BaseFacts
  <2>3. first - 1 = Len(products) /\ 1 - 1 = 0 /\ 0 \in 0..Len(products) /\ 0 \in 0..N
        /\ Len(products) \in 0..Len(products)
    BY <2>1, <2>2, WindowFromFacts, SMT
  <2>4. Summands(AllProducts(products), Len(products))
    BY <2>2, <2>3, ProductParts
  <2> DEFINE s == SumTo(Len(products), AllProducts(products))
             z == SumTo(0, AllProducts(products))
  <2>5. s \in Nat /\ z = 0
    BY <2>2, <2>3, <2>4, SumSteps DEF SumTo
  <2>6. Lin!SumOver(1, Len(products), AllProducts(products)) = s - z
    BY <2>3 DEF Lin!SumOver, SumTo
  <2>7. (ret * R) % m = s % m
    BY <1>1, <2>3
  <2> HIDE DEF s, z
  <2>8. s - z = s
    BY <2>5, SMT
  <2> QED
    BY <2>6, <2>7, <2>8
<1> QED
  BY <1>1, <1>2, LinParts, LinOps DEF Lin!LincombCorrect

----------------------------------------------------------------------------
(* The four routines.                                                      *)

\* The inductive invariant: that of the routine called.
Inv ==
    /\ routine \in {"multiply", "reduce", "retrieve", "lincomb"}
    /\ routine = "multiply" => MulInv
    /\ routine = "reduce"   => RedInv
    /\ routine = "retrieve" => RetInv /\ y = 1
    /\ routine = "lincomb"  => LinInv

LEMMA InitInv == Init => Inv
  BY MulInitInv, RedInitInv, RetInitInv, LinInitInv DEF Init, Inv

LEMMA NextInv == Inv /\ [Next]_vars => Inv'
<1> SUFFICES ASSUME Inv, [Next]_vars PROVE Inv'
  OBVIOUS
<1>1. CASE UNCHANGED vars
  <2>1. /\ UNCHANGED <<routine, y>> /\ UNCHANGED ofMul /\ UNCHANGED ofRed
        /\ UNCHANGED ofRet /\ UNCHANGED ofLin
    BY <1>1 DEF vars, ofMul, ofRed, ofRet, ofLin, ofLincomb
  <2> QED
    BY <2>1, MulNextInv, RedNextInv, RetNextInv, LinNextInv DEF Inv
<1>2. CASE routine = "multiply" /\ Next
  BY <1>2, MulNextInv DEF Inv, Next
<1>3. CASE routine = "reduce" /\ Next
  BY <1>3, RedNextInv DEF Inv, Next
<1>4. CASE routine = "retrieve" /\ Next
  BY <1>4, RetNextInv DEF Inv, Next
<1>5. CASE routine = "lincomb" /\ Next
  BY <1>5, LinNextInv DEF Inv, Next
<1> QED
  BY <1>1, <1>2, <1>3, <1>4, <1>5 DEF Inv

THEOREM Invariance == Spec => []Inv
  BY InitInv, NextInv, PTL DEF Spec

\* No word, wide word or carry of the four inner loops overflows the type that
\* mul.rs, reduction.rs and lincomb.rs keep it in, whatever the word base, the
\* number of limbs, the modulus and the operands.
THEOREM SumsFit == Spec => []WideSumsFit
<1>1. Inv => WideSumsFit
  BY MulFits DEF Inv, WideSumsFit, MulInv, RedInv, RetInv, LinInv
<1> QED
  BY <1>1, Invariance, PTL

\* No carry is lost in the middle of a row of the four inner loops.
THEOREM PrefixesExact == Spec => []RowPrefixExact
<1>1. Inv => RowPrefixExact
  BY MulPrefix, RedExact, RetParked, LinWindow DEF Inv, RowPrefixExact
<1> QED
  BY <1>1, Invariance, PTL

\* The corrections after the loops suffice: one for a reduction of an operand
\* below m * R, none for a retrieval, and one for each window of max_accum pairs
\* of a linear combination, however many windows it has.
THEOREM ResultsReduced == Spec => []ResultReduced
<1>1. Inv => ResultReduced
  BY RetResult, LinResult DEF Inv, ResultReduced, RedInv
<1> QED
  BY <1>1, Invariance, PTL

\* The rows of the specification refined.
rowVars == <<IF routine = "multiply" THEN "amm" ELSE "mul", x, y, m, k,
             IF Other THEN 0 ELSE acc, IF Other THEN 0 ELSE i, 0,
             IF pc = "done" /\ ~Other THEN "correct" ELSE "rows",
             IF Other THEN 0 ELSE q>>

\* The last limb of a row is a row of MontyRows.
LEMMA RowMaps ==
    ASSUME ~Other, UNCHANGED <<routine, x, y, m, k>>, pc # "done",
           i \in 0..(N - 1), i' = i + 1,
           pc' = IF i + 1 = N THEN "done" ELSE "row",
           NEW u1 \in Nat, u1 = wrapping_mul(Lo(acc + Limb(x, i) * y), k),
           x \in Nat, y \in Nat, m \in Nat, acc \in Nat, acc' \in Nat,
           RowGives(x, y, m, acc, i, u1, acc'), q' = q + u1 * W[i]
    PROVE  Rows!Row
<1> DEFINE s == acc + Limb(x, i) * y + u1 * m
           a == acc'
<1>1. B \in Nat /\ B > 0 /\ i < N /\ N \in Nat /\ i \in 0..(2 * N)
  BY BaseFacts, SMT
<1>2. s \in Int
  <2>1. Limb(x, i) \in Nat
    BY <1>1, LimbType DEF Word
  <2> DEFINE l == Limb(x, i)
  <2>2. l \in Nat
    BY <2>1
  <2> HIDE DEF l
  <2>3. l * y \in Int /\ u1 * m \in Int
    BY <2>2, SMT
  <2> DEFINE p == l * y
             r == u1 * m
  <2> HIDE DEF p, r
  <2>4. acc + p + r \in Int
    BY <2>3, SMT DEF p, r
  <2> QED
    BY <2>4 DEF p, r, l
<1>3. s = B * a + 0 /\ 0 \in 0..(B - 1) /\ a \in Int
  <2>1. B * a = s
    BY DEF RowGives
  <2>2. B * a + 0 = B * a
    <3>1. a \in Int
      OBVIOUS
    <3> HIDE DEF a
    <3> QED
      BY <3>1, <1>1, SMT
  <2> QED
    BY <2>1, <2>2, <1>1, SMT
<1>4. s \div B = a
  <2> HIDE DEF s, a
  <2> QED
    BY <1>1, <1>2, <1>3, DivisionIs
<1>5. Rows!RowMultiple(Limb(x, i)) = u1 /\ Rows!Limb(x, i) = Limb(x, i) /\ Rows!B = B
  BY DEF Rows!RowMultiple, Rows!wrapping_mul, wrapping_mul, Rows!Lo, Lo, Rows!B, B,
         Rows!Limb, Limb
<1>6. ~Other'
  BY DEF Other
<1>7. UNCHANGED Rows!params
  BY DEF Rows!params
<1> QED
  BY <1>1, <1>4, <1>5, <1>6, <1>7 DEF Rows!Row

LEMMA StepMaps == Inv /\ [Next]_vars => [Rows!Next]_rowVars
<1> SUFFICES ASSUME Inv, [Next]_vars PROVE Rows!Row \/ UNCHANGED rowVars
  BY DEF Rows!Next
<1>1. CASE UNCHANGED vars
  BY <1>1 DEF vars, rowVars, Other
<1>2. CASE routine = "multiply" /\ Next
  <2>1. MulInv /\ UNCHANGED routine /\ Mul!Next /\ ~Other
    BY <1>2 DEF Inv, Next, Other
  <2>2. CASE Mul!Top
    <3>1. pc = "top"
      BY <2>2 DEF Mul!Top
    <3>2. u = wrapping_mul(Lo(acc + Limb(x, i) * y), k)
      BY <2>1, <3>1 DEF MulInv
    <3> QED
      BY <2>1, <2>2, <3>1, <3>2, MulTypes, MulTopRow, RowMaps
  <2>3. CASE Mul!StartRow \/ Mul!NextLimb
    BY <2>1, <2>3 DEF Mul!StartRow, Mul!NextLimb, Mul!params, rowVars, Other
  <2>4. CASE Mul!Returned
    BY <2>1, <2>4 DEF Mul!Returned, Mul!vars, rowVars, Other
  <2> QED
    BY <2>1, <2>2, <2>3, <2>4 DEF Mul!Next
<1>3. CASE routine = "retrieve" /\ Next
  <2>1. RetInv /\ UNCHANGED <<routine, y>> /\ y = 1 /\ Ret!Next /\ ~Other
    BY <1>3 DEF Inv, Next, Other
  <2>2. ASSUME i \in 0..(N - 1), j' \in 1..N, UNCHANGED <<x, m, k>>, u' \in Word,
               out' \in Uint, pc # "done",
               u' = wrapping_mul(Lo(acc + Limb(x, i) * 1), k),
               B * (out' % W[j']) = (acc % W[j']) + Limb(x, i) + u' * (m % W[j']),
               out' \div W[j'] = acc \div W[j'],
               IF j' = N THEN Ret!EndOfRow(u', out')
                         ELSE pc' = "limb" /\ UNCHANGED <<acc, q, i>>
        PROVE  Rows!Row \/ UNCHANGED rowVars
    <3>1. CASE j' = N
      <4>1. RowGives(x, y, m, acc, i, u', acc') /\ acc' = out'
        BY <2>1, <2>2, <3>1, RetStored
      <4>2. /\ q' = q + u' * W[i] /\ i' = i + 1
            /\ pc' = IF i + 1 = N THEN "done" ELSE "row"
        BY <2>2, <3>1 DEF Ret!EndOfRow
      <4>3. /\ x \in Nat /\ y \in Nat /\ m \in Nat /\ acc \in Nat /\ acc' \in Nat
            /\ u' \in Nat
        BY <2>1, <2>2, <4>1, RetTypes DEF Uint, Word
      <4>4. u' = wrapping_mul(Lo(acc + Limb(x, i) * y), k)
        BY <2>1, <2>2
      <4>5. Rows!Row
        BY <2>1, <2>2, <4>1, <4>2, <4>3, <4>4, RowMaps
      <4> QED
        BY <4>5
    <3>2. CASE j' # N
      BY <2>1, <2>2, <3>2 DEF rowVars, Other
    <3> QED
      BY <3>1, <3>2
  <2>3. N \in Nat /\ N > 0 /\ 1 \in 1..N
    BY BaseFacts, SMT
  <2>4. CASE Ret!StartRow
    <3>1. 1 = N <=> N = 1
      OBVIOUS
    <3>2. pc # "done"
      BY <2>4 DEF Ret!StartRow
    <3> QED
      BY <2>1, <2>2, <2>3, <2>4, <3>1, <3>2, RetStart
  <2>5. CASE Ret!NextLimb
    <3>1. j + 1 \in 1..N
      BY <2>1, <2>3, <2>5, RetLimb, SMT
    <3>2. u' \in Word /\ pc = "limb" /\ pc # "done"
      BY <2>1, <2>5, RetLimb, RetTypes DEF Ret!NextLimb
    <3> QED
      BY <2>1, <2>2, <2>5, <3>1, <3>2, RetLimb
  <2>6. CASE Ret!Returned
    BY <2>1, <2>6 DEF Ret!Returned, Ret!vars, rowVars, Other
  <2> QED
    BY <2>1, <2>4, <2>5, <2>6 DEF Ret!Next
<1>4. CASE routine \in {"reduce", "lincomb"} /\ Next
  <2>1. Other /\ Other' /\ UNCHANGED <<routine, x, y>>
    BY <1>4 DEF Next, Other, ofProduct
  <2>2. UNCHANGED <<m, k>>
    <3>1. CASE routine = "reduce"
      BY <1>4, <3>1 DEF Next, Red!Next, Red!StartRow, Red!LowerLimb, Red!UpperLimb,
         Red!Top, Red!Correct, Red!Returned, Red!params, Red!vars
    <3>2. CASE routine = "lincomb"
      BY <1>4, <3>2 DEF Next, Lin!Next, Lin!Pair, Lin!Reduce, Lin!Correct,
         Lin!Returned, Lin!params, Lin!vars
    <3> QED
      BY <1>4, <3>1, <3>2
  <2> QED
    BY <2>1, <2>2 DEF rowVars
<1> QED
  BY <1>1, <1>2, <1>3, <1>4 DEF Inv

\* The inner loops of multiplication and retrieval implement the rows of
\* MontyRows: from one row to the next, the limb by limb computation is exactly
\* one exact division by the word base.
THEOREM Refinement == Spec => ImplementsRows
<1>1. Init => Rows!Init
  <2> SUFFICES ASSUME Init PROVE Rows!Init
    OBVIOUS
  <2>1. 0 \in Uint /\ 1 \in Uint
    <3>1. R \in Nat /\ R > 0 /\ W[1] = B /\ B >= 2 /\ B \in Nat /\ N \in Nat
          /\ 1 \in 0..N
      <4>1. 0 \in Nat
        OBVIOUS
      <4>2. W[1] = B
        BY <4>1, LowestLimb
      <4> QED
        BY <4>2, BaseFacts, SMT
    <3>2. W[1] <= R
      BY <3>1, WeightBelowRadix
    <3> QED
      BY <3>1, <3>2, SMT DEF Uint
  <2>2. m \in Uint /\ m % 2 = 1
    BY ModuliAssumption DEF Init
  <2>3. /\ Rows!Uint = Uint /\ Rows!Word = Word
        /\ \A v, w : Rows!IsModNegInv(v, w) = IsModNegInv(v, w)
    BY DEF Rows!Uint, Uint, Rows!R, R, Rows!Word, Word, Rows!B, B,
           Rows!IsModNegInv, IsModNegInv
  <2>4. CASE routine = "multiply"
    BY <2>3, <2>4, MulOps DEF Init, Mul!Init, Rows!Init, Other
  <2>5. CASE routine = "reduce"
    BY <2>1, <2>2, <2>3, <2>5, RedOps DEF Init, Red!Init, Rows!Init, Other
  <2>6. CASE routine = "retrieve"
    BY <2>1, <2>3, <2>6, RetOps DEF Init, Ret!Init, Rows!Init, Other
  <2>7. CASE routine = "lincomb"
    BY <2>1, <2>2, <2>3, <2>7, LinOps DEF Init, Lin!Init, Rows!Init, Other
  <2> QED
    BY <2>4, <2>5, <2>6, <2>7 DEF Init
<1>2. Inv /\ [Next]_vars => [Rows!Next]_Rows!vars
  BY StepMaps DEF rowVars, Rows!vars
<1> QED
  BY <1>1, <1>2, Invariance, PTL DEF Spec, ImplementsRows, Rows!Spec
=============================================================================
