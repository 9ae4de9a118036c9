----------------------------- MODULE ArithProofs -----------------------------
(***************************************************************************)
(* Proofs about three of the families of Arith, for every word size and    *)
(* operands of any numbers of limbs: what the routines of Schoolbook leave *)
(* in a buffer of any length; that the quotient estimates of Division meet *)
(* their assertions and its digits, from the high end and from the low     *)
(* one, are exact; and that the integers of Values fit their limbs and     *)
(* keep the promises of their wrappers.                                    *)
(***************************************************************************)
EXTENDS Arith, LimbsProofs

----------------------------------------------------------------------------
(* The operators of the instance of Schoolbook are those of Bits.          *)

\* Operator by operator.
LEMMA SchoolOps ==
    /\ School!B = B /\ School!WordMAX = WordMAX
    /\ \A v, k : School!Limb(v, k) = Limb(v, k)
    /\ \A v, k, w : School!SetLimb(v, k, w) = SetLimb(v, k, w)
    /\ \A a, b, c, d : School!carrying_mul_add(a, b, c, d) = carrying_mul_add(a, b, c, d)
    /\ \A a, b, c : School!carrying_add(a, b, c) = carrying_add(a, b, c)
    /\ \A a, b : School!overflowing_add(a, b) = overflowing_add(a, b)
    /\ \A a, b : School!wrapping_add(a, b) = wrapping_add(a, b)
    /\ \A a, b : School!Min2(a, b) = Min2(a, b)
    /\ \A a, b, on, r : School!CutRows(a, b, on, r) = CutRows(a, b, on, r)
    /\ \A a, r : School!CrossRows(a, r) = CrossRows(a, r)
    /\ \A a, f, r : School!DiagonalSquares(a, f, r) = DiagonalSquares(a, f, r)
    /\ \A a, an, b, on, o : School!CutProduct(a, an, b, on, o) = CutProduct(a, an, b, on, o)
    /\ \A a, an, on : School!CutSquare(a, an, on) = CutSquare(a, an, on)
    /\ \A s, on : School!Split(s, on) = Split(s, on)
<1>1. School!B = B
  BY DEF School!B, B
<1>2. School!WordMAX = WordMAX
  BY <1>1 DEF School!WordMAX, WordMAX
<1>3. \A v, k : School!Limb(v, k) = Limb(v, k)
  BY <1>1 DEF School!Limb, Limb
<1>4. \A v, k, w : School!SetLimb(v, k, w) = SetLimb(v, k, w)
  BY <1>3 DEF School!SetLimb, SetLimb
<1>5. \A a, b, c, d : School!carrying_mul_add(a, b, c, d) = carrying_mul_add(a, b, c, d)
  BY DEF School!carrying_mul_add, carrying_mul_add, School!Lo, Lo, School!Hi, Hi, School!B, B
<1>6. \A a, b, c : School!carrying_add(a, b, c) = carrying_add(a, b, c)
  BY DEF School!carrying_add, carrying_add, School!Lo, Lo, School!Hi, Hi, School!B, B
<1>7. \A a, b : School!overflowing_add(a, b) = overflowing_add(a, b)
  BY DEF School!overflowing_add, overflowing_add, School!B, B
<1>8. \A a, b : School!wrapping_add(a, b) = wrapping_add(a, b)
  BY DEF School!wrapping_add, wrapping_add, School!B, B
<1>9. \A a, b : School!Min2(a, b) = Min2(a, b)
  BY DEF School!Min2, Min2
<1>10. \A a, b, on, r : School!CutRows(a, b, on, r) = CutRows(a, b, on, r)
  BY DEF School!CutRows, CutRows, School!Limb, Limb, School!B, B
<1>11. \A a, r : School!CrossRows(a, r) = CrossRows(a, r)
  BY DEF School!CrossRows, CrossRows, School!Limb, Limb, School!B, B
<1>12. \A a, f, r : School!DiagonalSquares(a, f, r) = DiagonalSquares(a, f, r)
  BY DEF School!DiagonalSquares, DiagonalSquares, School!Limb, Limb, School!B, B
<1>13. \A a, an, b, on, o : School!CutProduct(a, an, b, on, o) = CutProduct(a, an, b, on, o)
  BY <1>10 DEF School!CutProduct, CutProduct
<1>14. \A a, an, on : School!CutSquare(a, an, on) = CutSquare(a, an, on)
  BY <1>9, <1>11, <1>12 DEF School!CutSquare, CutSquare
<1>15. \A s, on : School!Split(s, on) = Split(s, on)
  BY <1>1 DEF School!Split, Split
<1> QED
  BY <1>1, <1>2, <1>3, <1>4, <1>5, <1>6, <1>7, <1>8, <1>9, <1>10, <1>11, <1>12, <1>13,
     <1>14, <1>15

----------------------------------------------------------------------------
(* A row of a product, added to a buffer.                                  *)

\* MulAddRow adds xi times the len lowest limbs of y; the carry is a word, and
\* the limbs above are as they were.
LEMMA MulAddRowIs ==
    ASSUME NEW z \in Nat, NEW xi \in Word, NEW y \in Nat, NEW len \in Nat, NEW at \in Nat,
           at + len <= 2 * N
    PROVE  RowDone(z, xi, y, at, len,
                   School!MulAddRow(z, xi, y, len, at)[1], School!MulAddRow(z, xi, y, len, at)[2])
<1> DEFINE S == Nat \X Word
           Mul(j, p) == carrying_mul_add(xi, Limb(y, j - 1), Limb(p[1], at + j - 1), p[2])
           Made(j, p) == <<SetLimb(p[1], at + j - 1, Mul(j, p)[1]), Mul(j, p)[2]>>
           F == [j \in Nat |-> [p \in S |-> IF j \in 1..len THEN Made(j, p) ELSE <<0, 0>>]]
           row == CHOOSE row : row = [j \in 0..len |->
                    IF j = 0 THEN <<z, 0>>
                    ELSE LET p == row[j - 1]
                             m == carrying_mul_add(xi, Limb(y, j - 1),
                                                   Limb(p[1], at + j - 1), p[2])
                         IN  <<SetLimb(p[1], at + j - 1, m[1]), m[2]>>]
<1>1. N \in Nat /\ B \in Nat /\ B >= 2 /\ 0 \in Word
  BY BaseFacts, SMT DEF Word
<1>2. ASSUME NEW j \in 1..len, NEW p \in S PROVE Made(j, p) \in S
  <2>1. /\ j - 1 \in 0..(2 * N) /\ at + j - 1 \in 0..(2 * N - 1) /\ at + j - 1 \in 0..(2 * N)
    BY <1>1, SMT
  <2>2. p[1] \in Nat /\ p[2] \in Word
    OBVIOUS
  <2>3. Limb(y, j - 1) \in Word /\ Limb(p[1], at + j - 1) \in Word
    BY <2>1, <2>2, LimbType
  <2>4. Mul(j, p)[1] \in Word /\ Mul(j, p)[2] \in Word
    BY <2>2, <2>3, MulAddExact
  <2> HIDE DEF Mul
  <2>5. SetLimb(p[1], at + j - 1, Mul(j, p)[1]) \in Nat
    BY <2>1, <2>2, <2>4, StoreIs
  <2> QED
    BY <2>4, <2>5
<1>3. Closed(F, S)
  <2>1. ASSUME NEW j \in Nat, NEW p \in S PROVE F[j][p] \in S
    <3>1. F[j][p] = IF j \in 1..len THEN Made(j, p) ELSE <<0, 0>>
      OBVIOUS
    <3>2. <<0, 0>> \in S
      BY <1>1
    <3> HIDE DEF Made, F, S
    <3> QED
      BY <1>2, <3>1, <3>2
  <2> HIDE DEF F, S
  <2> QED
    BY <2>1 DEF Closed
<1>4. <<z, 0>> \in S
  BY <1>1
<1>5. PICK g : IsRecursion(g, S, <<z, 0>>, len, F)
  <2> HIDE DEF F, S
  <2> QED
    BY <1>3, <1>4, RecursionExists
<1>6. g \in [0..len -> S] /\ g[0] = <<z, 0>> /\ \A j \in 1..len : g[j] = F[j][g[j - 1]]
  <2> HIDE DEF F, S
  <2> QED
    BY <1>5 DEF IsRecursion
<1>7. ASSUME NEW j \in 1..len PROVE g[j] = Made(j, g[j - 1])
  <2>1. j - 1 \in 0..len /\ j \in Nat
    BY SMT
  <2>2. g[j - 1] \in S
    BY <1>6, <2>1
  <2> HIDE DEF Made
  <2> QED
    BY <1>6, <2>1, <2>2
<1>8. g = [j \in 0..len |->
             IF j = 0 THEN <<z, 0>>
             ELSE LET p == g[j - 1]
                      m == carrying_mul_add(xi, Limb(y, j - 1),
                                            Limb(p[1], at + j - 1), p[2])
                  IN  <<SetLimb(p[1], at + j - 1, m[1]), m[2]>>]
  <2>1. \A j \in 0..len : j = 0 \/ j \in 1..len
    BY SMT
  <2> HIDE DEF S
  <2> QED
    BY <1>6, <1>7, <2>1
<1>9. row = [j \in 0..len |->
             IF j = 0 THEN <<z, 0>>
             ELSE LET p == row[j - 1]
                      m == carrying_mul_add(xi, Limb(y, j - 1),
                                            Limb(p[1], at + j - 1), p[2])
                  IN  <<SetLimb(p[1], at + j - 1, m[1]), m[2]>>]
  BY <1>8
<1>10. School!MulAddRow(z, xi, y, len, at) = row[len]
  BY DEF School!MulAddRow, School!carrying_mul_add, carrying_mul_add, School!SetLimb, SetLimb,
         School!Limb, Limb, School!Lo, Lo, School!Hi, Hi, School!B, B
<1> HIDE DEF row
<1>11. row[0] = <<z, 0>>
  <2>1. 0 \in 0..len
    BY SMT
  <2> QED
    BY <1>9, <2>1
<1>12. ASSUME NEW j \in 1..len PROVE row[j] = Made(j, row[j - 1])
  <2>1. j \in 0..len /\ j # 0
    BY SMT
  <2> QED
    BY <1>9, <2>1
<1> DEFINE T == {j \in Nat : j <= len =>
                     RowDone(z, xi, y, at, j, row[j][1], row[j][2])}
<1>13. 0 \in T
  <2>1. at + 0 = at /\ at \in 0..(2 * N)
    BY <1>1, SMT
  <2>2. W[at] \in Nat /\ W[0] = 1
    BY <2>1, WeightFacts, WeightAssumption
  <2>3. y % 1 = 0
    BY SMT
  <2>4. z + 0 * W[at] = z + xi * 0 * W[at]
    BY <1>1, <2>2, SMT DEF Word
  <2> QED
    BY <1>1, <1>11, <2>1, <2>2, <2>3, <2>4 DEF RowDone
<1>14. ASSUME NEW j \in T PROVE j + 1 \in T
  <2> SUFFICES ASSUME j + 1 <= len
               PROVE  RowDone(z, xi, y, at, j + 1, row[j + 1][1], row[j + 1][2])
    BY SMT
  <2>1. /\ j \in Nat /\ j <= len /\ j + 1 \in 1..len /\ (j + 1) - 1 = j
        /\ at + (j + 1) - 1 = at + j /\ at + j < 2 * N
    BY <1>1, SMT
  <2>2. RowDone(z, xi, y, at, j, row[j][1], row[j][2])
    BY <2>1
  <2> DEFINE m == carrying_mul_add(xi, Limb(y, j), Limb(row[j][1], at + j), row[j][2])
  <2>3. row[j + 1] = <<SetLimb(row[j][1], at + j, m[1]), m[2]>>
    BY <1>12, <2>1
  <2>4. RowDone(z, xi, y, at, j + 1, SetLimb(row[j][1], at + j, m[1]), m[2])
    BY <2>1, <2>2, RowLimb
  <2> HIDE DEF m
  <2> QED
    BY <2>3, <2>4
<1>15. T = Nat
  <2>1. T \in SUBSET Nat
    OBVIOUS
  <2> HIDE DEF T
  <2> QED
    BY <1>13, <1>14, <2>1, SetInduction
<1>16. len \in T
  BY <1>15
<1> QED
  BY <1>10, <1>16

----------------------------------------------------------------------------
(* One row of each routine.                                                *)

\* A row of a buffer that is clear from the row's end on: the buffer and the
\* carry stored over the limb there are the sum.
LEMMA RowIntoClear ==
    ASSUME NEW z \in Nat, NEW xi \in Word, NEW y \in Nat, NEW len \in Nat, NEW at \in Nat,
           at + len < 2 * N, z < W[at + len],
           NEW r, r = School!MulAddRow(z, xi, y, len, at)
    PROVE  SetLimb(r[1], at + len, r[2]) = z + xi * (y % W[len]) * W[at]
<1> DEFINE w == W[at + len]
<1>1. at + len \in 0..(2 * N - 1) /\ at + len \in 0..(2 * N) /\ at + len <= 2 * N
  BY BaseFacts, SMT
<1>2. RowDone(z, xi, y, at, len, r[1], r[2])
  BY <1>1, MulAddRowIs
<1>3. /\ r[1] \in Nat /\ r[2] \in Word
      /\ r[1] + r[2] * w = z + xi * (y % W[len]) * W[at]
      /\ r[1] \div w = z \div w
  BY <1>2 DEF RowDone
<1>4. z \div w = 0
  BY <1>1, BelowWeight
<1>5. r[1] < w
  BY <1>1, <1>3, <1>4, BelowWeight
<1>6. SetLimb(r[1], at + len, r[2]) = r[1] + w * r[2]
  BY <1>1, <1>3, <1>5, StoreClear
<1>7. r[1] + w * r[2] = r[1] + r[2] * w
  <2>1. w \in Nat /\ r[2] \in Nat
    BY <1>1, <1>3, WeightFacts, BaseFacts, SMT DEF Word
  <2> QED
    BY <1>3, <2>1, SMT
<1> QED
  BY <1>3, <1>6, <1>7

\* A row whose end is the end of the buffer, or that begins above it: the buffer
\* keeps its length, and with the carry it holds the row cut off.
LEMMA RowAtEnd ==
    ASSUME NEW z \in Nat, NEW x \in Nat, NEW y \in Nat, NEW n \in Nat, NEW on \in 1..(2 * N),
           NEW k \in Nat, k < 2 * N, k + n <= 2 * N, z < W[on],
           NEW len, len = RowLength(n, on, k), k + len >= on,
           NEW r, r = School!MulAddRow(z, Limb(x, k), y, len, k)
    PROVE  /\ r[1] \in Nat /\ r[1] < W[on] /\ r[2] \in Word
           /\ RowLeaves(r, z, CutRow(x, y, on, k), on)
<1> DEFINE w == W[k + len]
           xi == Limb(x, k)
<1>1. /\ N \in Nat /\ len \in Nat /\ k + len <= 2 * N /\ k + len \in 0..(2 * N)
      /\ on \in Nat /\ on \in 0..(2 * N) /\ k \in 0..(2 * N)
      /\ (k < on => len = on - k /\ k + len = on) /\ (~(k < on) => len = 0 /\ k + len = k)
  BY BaseFacts, SMT DEF RowLength, Min2
<1>0. xi \in Word
  BY <1>1, LimbType
<1>2. RowDone(z, xi, y, k, len, r[1], r[2])
  <2> HIDE DEF xi
  <2>1. r = School!MulAddRow(z, xi, y, len, k)
    BY DEF xi
  <2> QED
    BY <1>0, <1>1, <2>1, MulAddRowIs
<1>3. /\ r[1] \in Nat /\ r[2] \in Word
      /\ r[1] + r[2] * w = z + xi * (y % W[len]) * W[k]
      /\ r[1] \div w = z \div w
  BY <1>2 DEF RowDone
<1>4. CASE k < on
  <2>1. len = on - k /\ k + len = on /\ ~(k + 1 > on)
    BY <1>1, <1>4, SMT
  <2>2. z \div w = 0
    BY <1>1, <2>1, BelowWeight
  <2>3. r[1] < w
    BY <1>1, <1>3, <2>2, BelowWeight
  <2> QED
    BY <1>3, <2>1, <2>3 DEF CutRow, RowLeaves
<1>5. CASE ~(k < on)
  <2>1. len = 0 /\ k + len = k /\ k + 1 > on /\ on \in 0..k
    BY <1>1, <1>5, SMT
  <2>2. W[on] <= W[k] /\ W[on] \in Nat /\ W[k] \in Nat
    BY <1>1, <2>1, WeightsGrow, WeightFacts
  <2>3. y % W[len] = 0
    <3>1. y % 1 = 0
      BY SMT
    <3> QED
      BY <2>1, <3>1, WeightAssumption
  <2> DEFINE a == r[1]
             c == r[2]
             u == W[k]
             v == W[on]
  <2>4. c \in Nat
    BY <1>3, BaseFacts, SMT DEF Word
  <2>5. a \in Nat /\ a + c * u = z + xi * 0 * u /\ u \in Nat /\ v \in Nat /\ v <= u /\ z < v
    BY <1>3, <2>1, <2>2, <2>3
  <2> HIDE DEF a, c, u, v, xi
  <2>6. xi * 0 * u = 0
    BY <1>0, <2>5, BaseFacts, SMT DEF Word
  <2>7. ~(c >= 1)
    <3>1. c >= 1 => c * u >= u
      BY <2>4, <2>5, SMT
    <3>2. c * u \in Nat
      BY <2>4, <2>5, SMT
    <3> QED
      BY <2>4, <2>5, <2>6, <3>1, <3>2, SMT
  <2>8. c = 0 /\ a = z /\ c * v = 0 /\ c * u = 0
    BY <2>4, <2>5, <2>6, <2>7, SMT
  <2>9. a < v /\ a + c * v = z + 0
    BY <2>5, <2>8, SMT
  <2> QED
    BY <1>3, <2>1, <2>9 DEF a, c, v, CutRow, RowLeaves
<1> QED
  BY <1>4, <1>5

\* mul_wide: another row, whose carry goes where the buffer is still zero.
LEMMA WideRow ==
    ASSUME NEW x \in Nat, NEW y \in Nat, NEW yn \in 1..N, y < W[yn], NEW k \in 0..(N - 1),
           NEW z, z = (x % W[k]) * y,
           NEW r, r = School!MulAddRow(z, Limb(x, k), y, yn, k)
    PROVE  SetLimb(r[1], k + yn, r[2]) = (x % W[k + 1]) * y
<1> DEFINE w == W[k]
           u == W[yn]
           lo == x % w
           l == Limb(x, k)
<1>1. /\ N \in Nat /\ k \in Nat /\ yn \in Nat /\ k + yn < 2 * N /\ k + yn <= 2 * N
      /\ k \in 0..(2 * N) /\ k \in 0..(2 * N - 1) /\ yn \in 0..(2 * N)
  BY BaseFacts, SMT
<1>2. w \in Nat /\ w > 0 /\ u \in Nat /\ u > 0 /\ W[k + yn] = w * u
  BY <1>1, WeightFacts, WeightsMultiply
<1>3. lo \in Nat /\ lo < w
  BY <1>2, NatDivMod
<1>4. l \in Word /\ l \in Nat
  <2>1. l \in Word
    BY <1>1, LimbType
  <2> QED
    BY <2>1, BaseFacts, SMT DEF Word
<1>5. z \in Nat /\ z < w * u
  <2>1. z = lo * y /\ y < u
    OBVIOUS
  <2> HIDE DEF lo, w, u
  <2>2. lo * y \in Nat /\ lo * y < w * u
    BY <1>2, <1>3, <2>1, ProductBelow
  <2> QED
    BY <2>1, <2>2
<1>6. SetLimb(r[1], k + yn, r[2]) = z + l * (y % u) * w
  <2>1. z < W[k + yn] /\ yn \in Nat /\ k \in Nat
    BY <1>1, <1>2, <1>5
  <2> HIDE DEF l
  <2>2. r = School!MulAddRow(z, l, y, yn, k)
    BY DEF l
  <2> QED
    BY <1>1, <1>4, <1>5, <2>1, <2>2, RowIntoClear
<1>7. y % u = y
  <2>1. y \in 0..(u - 1)
    BY <1>2, SMT
  <2> QED
    BY <1>2, <2>1, ResidueItself
<1>8. x % W[k + 1] = lo + w * l
  BY <1>1, LowLimbs
<1>9. (lo + w * l) * y = lo * y + l * y * w
  <2> HIDE DEF lo, w, l
  <2> QED
    BY <1>2, <1>3, <1>4, SMT
<1> QED
  BY <1>6, <1>7, <1>8, <1>9

\* wrapping_mul_add: a row that reaches the end of the buffer,
LEMMA WrappingRowAtEnd ==
    ASSUME NEW x \in Nat, NEW y \in Nat, NEW n \in 1..N, NEW on \in 1..N, NEW k \in 0..(N - 1),
           NEW z \in Nat, z < W[on], NEW c \in Word, NEW s \in Nat,
           Holds(z, c, PendingAt(n, on, k), s, on),
           NEW len, len = RowLength(n, on, k), k + len >= on,
           NEW r, r = School!MulAddRow(z, Limb(x, k), y, len, k)
    PROVE  /\ r[1] \in Nat /\ r[1] < W[on]
           /\ wrapping_add(c, r[2]) \in Word
           /\ PendingAt(n, on, k + 1) = on
           /\ Holds(r[1], wrapping_add(c, r[2]), on, s + CutRow(x, y, on, k), on)
<1> DEFINE v == W[on]
           M == W[on + 1]
           l == Limb(x, k)
           cut == CutRow(x, y, on, k)
           a == r[1]
           p == r[2]
           d == wrapping_add(c, p)
<1>1. /\ N \in Nat /\ B \in Nat /\ B >= 2 /\ n \in Nat /\ on \in Nat /\ k \in Nat
      /\ on \in 1..(2 * N) /\ on \in 0..(2 * N) /\ on < 2 * N /\ k < 2 * N /\ k + n <= 2 * N
      /\ k \in 0..(2 * N) /\ on + 1 \in 0..(2 * N)
  BY BaseFacts, SMT
<1>2. PendingAt(n, on, k) = on /\ PendingAt(n, on, k + 1) = on
  BY <1>1, SMT DEF PendingAt, RowLength, Min2
<1>3. v \in Nat /\ v > 0 /\ M = B * v /\ M \in Nat /\ M > 0
  BY <1>1, WeightFacts
<1>4. l \in Word
  BY <1>1, LimbType
<1>5. a \in Nat /\ a < v /\ p \in Word /\ a + p * v = z + cut
  <2>1. on \in 1..(2 * N) /\ n \in Nat /\ k \in Nat /\ N \in Nat
    BY <1>1
  <2>2. k < 2 * N
    BY <1>1
  <2>3. k + n <= 2 * N
    BY <1>1
  <2>4. r[1] \in Nat /\ r[1] < W[on] /\ r[2] \in Word /\ r[1] + r[2] * W[on] = z + cut
    <3> HIDE DEF cut
    <3>1. RowLeaves(r, z, CutRow(x, y, on, k), on)
      BY <2>1, <2>2, <2>3, RowAtEnd
    <3>2. r[1] \in Nat /\ r[1] < W[on] /\ r[2] \in Word
      BY <2>1, <2>2, <2>3, RowAtEnd
    <3> QED
      BY <3>1, <3>2 DEF cut, RowLeaves
  <2> QED
    BY <2>4
<1>6. cut \in Nat
  BY <1>1, CutRowType
<1>7. c \in Nat /\ p \in Nat /\ c + p \in Int
  BY <1>1, <1>5, SMT DEF Word
<1>8. d = (c + p) % B
  BY DEF wrapping_add
<1>9. d \in 0..(B - 1) /\ \E e \in Int : d = (c + p) + e * B
  <2> DEFINE t == c + p
  <2>1. t \in Int /\ B \in Nat /\ B > 0 /\ d = t % B
    BY <1>1, <1>7, <1>8
  <2> HIDE DEF d, t
  <2>2. d \in 0..(B - 1) /\ \E e \in Int : d = t + e * B
    BY <2>1, RemainderGap
  <2> QED
    BY <2>2 DEF t
<1>10. PICK e \in Int : d = (c + p) + e * B
  BY <1>9
<1>11. (z + c * v + cut) % M = (s + cut) % M
  <2>1. (z + c * v) % M = s % M
    BY <1>2 DEF Holds
  <2> DEFINE zc == z + c * v
  <2>2. zc \in Int /\ s \in Int /\ cut \in Int
    BY <1>3, <1>6, <1>7, SMT
  <2>3. zc % M = s % M
    BY <2>1
  <2>4. M \in Nat /\ M > 0
    BY <1>3
  <2> HIDE DEF zc, v, M, cut
  <2>5. (zc + cut) % M = (s + cut) % M
    BY <2>2, <2>3, <2>4, AddCongruent, ZenonT(30)
  <2> QED
    BY <2>5 DEF zc
<1> HIDE DEF v, M, l, cut, a, p, d
<1>12. a + d * v = (z + c * v + cut) + e * (B * v)
  <2>1. ((c + p) + e * B) * v = c * v + p * v + e * (B * v)
    BY <1>1, <1>3, <1>7, SMT
  <2> DEFINE pv == p * v
             cv == c * v
             eb == e * (B * v)
  <2>2. pv \in Int /\ cv \in Int /\ eb \in Int
    BY <1>1, <1>3, <1>7, SMT
  <2>3. a + pv = z + cut /\ d * v = cv + pv + eb
    BY <1>5, <1>10, <2>1
  <2> HIDE DEF pv, cv, eb
  <2>4. a + (cv + pv + eb) = (z + cv + cut) + eb
    BY <1>5, <1>6, <2>2, <2>3, SMT
  <2> QED
    BY <2>3, <2>4 DEF cv, eb
<1>13. (a + d * v) % M = (z + c * v + cut) % M
  <2>1. a + d * v \in Int /\ z + c * v + cut \in Int /\ Apart(a + d * v, z + c * v + cut, e, M)
    BY <1>1, <1>3, <1>5, <1>6, <1>7, <1>9, <1>12, SMT DEF Apart
  <2> QED
    BY <1>3, <2>1, ResidueApart
<1>14. Holds(a, d, on, s + cut, on)
  BY <1>11, <1>13 DEF Holds, v, M
<1> QED
  BY <1>2, <1>5, <1>9, <1>14 DEF a, p, d, v, cut, Word

\* and one that ends inside, where its carry and the pending one go into the
\* limb above and leave a carry of at most one.
LEMMA WrappingRowInside ==
    ASSUME NEW x \in Nat, NEW y \in Nat, NEW n \in 1..N, y < W[n], NEW on \in 1..N,
           NEW k \in 0..(N - 1),
           NEW z \in Nat, z < W[on], NEW c \in Nat, c <= 1, NEW s \in Nat,
           Holds(z, c, PendingAt(n, on, k), s, on),
           NEW len, len = RowLength(n, on, k), k + len < on,
           NEW r, r = School!MulAddRow(z, Limb(x, k), y, len, k),
           NEW top, top = carrying_add(Limb(r[1], k + len), r[2], c)
    PROVE  /\ SetLimb(r[1], k + len, top[1]) \in Nat
           /\ SetLimb(r[1], k + len, top[1]) < W[on]
           /\ top[2] \in {0, 1}
           /\ Holds(SetLimb(r[1], k + len, top[1]), top[2], PendingAt(n, on, k + 1),
                    s + CutRow(x, y, on, k), on)
<1> DEFINE at == k + n
           w == W[at]
           M == W[on + 1]
           l == Limb(x, k)
           cut == CutRow(x, y, on, k)
           a == r[1]
           p == r[2]
           al == Limb(a, at)
           t1 == top[1]
           t2 == top[2]
           st == SetLimb(a, at, t1)
<1>1. /\ N \in Nat /\ B \in Nat /\ B >= 2 /\ n \in Nat /\ on \in Nat /\ k \in Nat
      /\ len = n /\ k < on /\ at < on /\ ~(k + 1 > on)
  BY BaseFacts, SMT DEF RowLength, Min2
<1>2. /\ at \in 0..(2 * N) /\ at \in 0..(2 * N - 1) /\ at \in 0..on /\ at + 1 \in 0..on
      /\ at + 1 \in 0..(2 * N) /\ on \in 0..(2 * N) /\ on + 1 \in 0..(2 * N) /\ at <= 2 * N
      /\ k \in 0..(2 * N) /\ (k + 1) + n = at + 1 /\ at < 2 * N
  BY <1>1, SMT
<1>3. PendingAt(n, on, k) = at /\ PendingAt(n, on, k + 1) = at + 1
  BY <1>1, SMT DEF PendingAt, Min2
<1>4. w \in Nat /\ w > 0 /\ W[at + 1] = B * w /\ M \in Nat /\ M > 0
  BY <1>2, WeightFacts
<1>5. l \in Word
  BY <1>2, LimbType
<1>6. /\ a \in Nat /\ p \in Word
      /\ a + p * w = z + l * (y % W[n]) * W[k]
      /\ a \div w = z \div w
  <2>1. r = School!MulAddRow(z, l, y, n, k)
    BY <1>1
  <2> HIDE DEF l
  <2>2. RowDone(z, l, y, k, n, a, p)
    BY <1>1, <1>2, <1>5, <2>1, MulAddRowIs
  <2> QED
    BY <2>2 DEF RowDone
<1>7. cut = l * (y % W[n]) * W[k] /\ cut \in Nat
  <2>1. y % W[n] = y /\ y % W[on - k] = y
    <3>1. n \in 0..(2 * N) /\ on - k \in 0..(2 * N) /\ n \in 0..(on - k)
      BY <1>1, SMT
    <3>2. W[n] \in Nat /\ W[n] > 0 /\ W[on - k] \in Nat /\ W[on - k] > 0 /\ W[n] <= W[on - k]
      BY <3>1, WeightFacts, WeightsGrow
    <3> DEFINE u == W[n]
               v == W[on - k]
    <3>3. y \in 0..(u - 1) /\ y \in 0..(v - 1)
      <4>1. u \in Nat /\ v \in Nat /\ u <= v /\ y < u
        BY <3>2
      <4> HIDE DEF u, v
      <4> QED
        BY <4>1, SMT
    <3> QED
      BY <3>2, <3>3, ResidueItself
  <2>2. on \in 0..(2 * N) /\ k \in 0..(2 * N)
    BY <1>2
  <2> QED
    BY <1>1, <2>1, <2>2, CutRowType DEF CutRow
<1>8. al \in Word
  BY <1>2, <1>6, LimbType
<1>9. t1 \in Word /\ t2 \in {0, 1} /\ t1 + B * t2 = al + p + c
  <2>1. top = carrying_add(al, p, c)
    BY <1>1
  <2>2. c \in Word /\ al \in Word /\ p \in Word
    BY <1>1, <1>6, <1>8, SMT DEF Word
  <2>5. c <= 1
    BY SMT
  <2> HIDE DEF al, p, t1, t2
  <2>3. top[1] \in Word /\ top[2] \in Word /\ top[1] + B * top[2] = al + p + c /\ top[2] <= 1
    BY <2>1, <2>2, <2>5, CarryingAddExact
  <2>4. t1 \in Word /\ t2 \in Word /\ t1 + B * t2 = al + p + c /\ t2 <= 1
    BY <2>3 DEF t1, t2
  <2> QED
    BY <1>1, <2>4, SMT DEF Word
<1>10. /\ st \in Nat /\ st + w * al = a + w * t1
       /\ st \div W[at + 1] = a \div W[at + 1]
  <2> HIDE DEF at, t1, a
  <2> QED
    BY <1>2, <1>6, <1>9, StoreIs
<1>11. st < W[on]
  <2>1. a < W[on]
    <3> HIDE DEF at, a
    <3> QED
      BY <1>2, <1>6, SameAbove
  <2> HIDE DEF at, a, st
  <2> QED
    BY <1>2, <1>6, <1>10, <2>1, SameAbove
<1>12. c \in Nat /\ p \in Nat /\ al \in Nat /\ t1 \in Nat /\ t2 \in Nat
  BY <1>1, <1>6, <1>8, <1>9, SMT DEF Word
<1>13. (z + c * w + cut) % M = (s + cut) % M
  <2>1. (z + c * w) % M = s % M
    BY <1>3 DEF Holds
  <2> DEFINE zc == z + c * w
  <2>2. zc \in Int /\ s \in Int /\ cut \in Int
    BY <1>4, <1>7, <1>12, SMT
  <2>3. zc % M = s % M
    BY <2>1
  <2>4. M \in Nat /\ M > 0
    BY <1>4
  <2> HIDE DEF zc, w, M, cut
  <2>5. (zc + cut) % M = (s + cut) % M
    BY <2>2, <2>3, <2>4, AddCongruent, ZenonT(30)
  <2> QED
    BY <2>5 DEF zc
<1> HIDE DEF w, M, l, cut, a, p, al, t1, t2, st, at
<1>14. st + t2 * (B * w) = z + c * w + cut
  <2>1. w * (t1 + B * t2) = w * (al + p + c)
    BY <1>9
  <2>2. w * (t1 + B * t2) = w * t1 + t2 * (B * w)
        /\ w * (al + p + c) = w * al + p * w + c * w
    BY <1>1, <1>4, <1>12, SMT
  <2> DEFINE e1 == w * t1
             e2 == t2 * (B * w)
             e3 == w * al
             e4 == p * w
             e5 == c * w
  <2>3. e1 \in Nat /\ e2 \in Nat /\ e3 \in Nat /\ e4 \in Nat /\ e5 \in Nat
    BY <1>1, <1>4, <1>12, SMT
  <2>4. e1 + e2 = e3 + e4 + e5 /\ st + e3 = a + e1 /\ a + e4 = z + cut
    BY <1>6, <1>7, <1>10, <2>1, <2>2 DEF l
  <2>5. st \in Nat /\ a \in Nat /\ cut \in Nat /\ z \in Nat
    BY <1>6, <1>7, <1>10
  <2> HIDE DEF e1, e2, e3, e4, e5
  <2>6. st + e2 = z + e5 + cut
    BY <2>3, <2>4, <2>5, SMT
  <2> QED
    BY <2>6 DEF e2, e5
<1>15. Holds(st, t2, at + 1, s + cut, on)
  BY <1>4, <1>13, <1>14 DEF Holds, M
<1> QED
  BY <1>1, <1>3, <1>9, <1>10, <1>11, <1>15 DEF at, a, t1, t2, st, cut

\* The squares: a row below the diagonal that ends inside the buffer,
LEMMA SquareRowInside ==
    ASSUME NEW x \in Nat, NEW k \in 1..(N - 1), NEW z, z = CrossRows(x, k),
           NEW r, r = School!MulAddRow(z, Limb(x, k), x, k, k)
    PROVE  SetLimb(r[1], k + k, r[2]) = CrossRows(x, k + 1)
<1> DEFINE l == Limb(x, k)
<1>1. /\ N \in Nat /\ k \in Nat /\ k + k < 2 * N /\ k \in 0..(2 * N) /\ k \in 0..(2 * N - 1)
      /\ k + k \in 0..(2 * N) /\ 2 * k - 1 \in 0..(k + k) /\ 2 * k - 1 \in 0..(2 * N)
      /\ k \in 1..N
  BY BaseFacts, SMT
<1>2. z \in Nat /\ z < W[k + k]
  <2>1. z \in Nat
    BY <1>1, CrossRowsSteps
  <2>2. z < W[2 * k - 1]
    BY <1>1, CrossBelow
  <2>3. W[2 * k - 1] <= W[k + k] /\ W[2 * k - 1] \in Nat /\ W[k + k] \in Nat
    BY <1>1, WeightsGrow, WeightFacts
  <2> DEFINE a == W[2 * k - 1]
             b == W[k + k]
  <2>4. z < a /\ a <= b /\ a \in Nat /\ b \in Nat
    BY <2>2, <2>3
  <2> HIDE DEF a, b
  <2>5. z < b
    BY <2>1, <2>4, SMT
  <2> QED
    BY <2>1, <2>5 DEF b
<1>3. l \in Word
  BY <1>1, LimbType
<1>4. SetLimb(r[1], k + k, r[2]) = z + l * (x % W[k]) * W[k]
  <2>1. r = School!MulAddRow(z, l, x, k, k)
    OBVIOUS
  <2>2. z \in Nat /\ l \in Word /\ k \in Nat
    BY <1>1, <1>2, <1>3
  <2>3. k + k < 2 * N
    BY <1>1
  <2>4. z < W[k + k]
    BY <1>2
  <2> HIDE DEF l
  <2> QED
    BY <2>1, <2>2, <2>3, <2>4, RowIntoClear
<1>5. CrossRows(x, k + 1) = CrossRows(x, k) + CrossRow(x, k)
  BY <1>1, CrossRowsSteps
<1> QED
  BY <1>4, <1>5 DEF CrossRow

\* and one that the end of the buffer cuts off.
LEMMA SquareRowAtEnd ==
    ASSUME NEW x \in Nat, NEW k \in 1..(N - 1), NEW on \in 1..(2 * N),
           NEW z, z = CrossRows(x, k) % W[on],
           NEW len, len = RowLength(k, on, k), k + len >= on,
           NEW r, r = School!MulAddRow(z, Limb(x, k), x, len, k)
    PROVE  r[1] = CrossRows(x, k + 1) % W[on]
<1> DEFINE v == W[on]
           c == CrossRows(x, k)
           l == Limb(x, k)
           w == W[k]
           e == CrossRow(x, k)
           cut == CutRow(x, x, on, k)
           a == r[1]
           p == r[2]
<1>1. /\ N \in Nat /\ B \in Nat /\ B >= 2 /\ k \in Nat /\ on \in Nat /\ on \in 0..(2 * N)
      /\ k < 2 * N /\ k + k <= 2 * N /\ k \in 0..(2 * N) /\ k \in 0..(2 * N - 1)
      /\ k <= 2 * N
  BY BaseFacts, SMT
<1>2. v \in Nat /\ v > 0 /\ w \in Nat /\ w > 0
  BY <1>1, WeightFacts
<1>3. c \in Nat /\ e \in Nat /\ cut \in Nat /\ CrossRows(x, k + 1) = c + e
  BY <1>1, CrossRowsSteps, CrossRowType, CutRowType
<1>4. l \in Nat
  <2>1. l \in Word
    BY <1>1, LimbType
  <2> QED
    BY <1>1, <2>1, SMT DEF Word
<1>5. z \in Nat /\ z < v
  BY <1>2, <1>3, NatDivMod
<1>6. a \in Nat /\ a < v /\ p \in Word /\ a + p * v = z + cut
  <2>1. on \in 1..(2 * N) /\ z \in Nat /\ k \in Nat /\ N \in Nat
    BY <1>1, <1>5
  <2>2. k < 2 * N
    BY <1>1
  <2>3. k + k <= 2 * N
    BY <1>1
  <2>4. z < W[on]
    BY <1>5
  <2> HIDE DEF a, p, cut, v
  <2>5. RowLeaves(r, z, CutRow(x, x, on, k), on)
    BY <2>1, <2>2, <2>3, <2>4, RowAtEnd
  <2>6. r[1] \in Nat /\ r[1] < W[on] /\ r[2] \in Word
    BY <2>1, <2>2, <2>3, <2>4, RowAtEnd
  <2> QED
    BY <2>5, <2>6 DEF RowLeaves, a, p, cut, v
<1>7. Congruent(e, cut, v)
  <2> DEFINE y == x % w
  <2>1. y \in Nat
    BY <1>2, NatDivMod
  <2>2. e = l * y * w
    BY DEF CrossRow
  <2>3. CASE k < on
    <3>1. k <= on /\ ~(k + 1 > on) /\ on - k \in 0..k
      BY <1>1, <2>3, SMT DEF RowLength, Min2
    <3>2. y % W[on - k] = x % W[on - k]
      BY <1>1, <3>1, LowOfLow
    <3>3. cut = l * (y % W[on - k]) * w
      BY <3>1, <3>2 DEF CutRow
    <3>4. Congruent(l * y * w, l * (y % W[on - k]) * w, v)
      <4>1. k <= on
        BY <3>1
      <4> HIDE DEF y, l
      <4> QED
        BY <1>1, <1>4, <2>1, <4>1, CutCongruent
    <3> QED
      BY <2>2, <3>3, <3>4
  <2>4. CASE ~(k < on)
    <3>1. k >= on /\ k + 1 > on
      BY <1>1, <2>4, SMT
    <3>2. cut = 0
      BY <3>1 DEF CutRow
    <3>3. Congruent(l * y * w, 0, v)
      <4>1. k >= on
        BY <3>1
      <4> HIDE DEF y, l
      <4> QED
        BY <1>1, <1>4, <2>1, <4>1, CutCongruent
    <3> QED
      BY <2>2, <3>2, <3>3
  <2> QED
    BY <2>3, <2>4
<1>8. p \in Nat
  BY <1>1, <1>6, SMT DEF Word
<1>9. c \in Int /\ z = c % v
  BY <1>3
<1> HIDE DEF v, c, e, cut, a, p
<1>10. PICK f \in Int : z = c + f * v
  BY <1>2, <1>9, RemainderGap
<1>11. PICK g \in Int : e = cut + g * v
  BY <1>7 DEF Congruent, Apart
<1>12. a = (c + e) + (f - g - p) * v /\ f - g - p \in Int
  <2> DEFINE pv == p * v
             fv == f * v
             gv == g * v
  <2>1. pv \in Int /\ fv \in Int /\ gv \in Int /\ (f - g - p) * v = fv - gv - pv
        /\ f - g - p \in Int
    BY <1>2, <1>8, SMT
  <2>2. a + pv = z + cut /\ z = c + fv /\ e = cut + gv
    BY <1>6, <1>10, <1>11
  <2> HIDE DEF pv, fv, gv
  <2>3. a = (c + e) + (fv - gv - pv)
    BY <1>3, <1>5, <1>6, <2>1, <2>2, SMT
  <2> QED
    BY <2>1, <2>3
<1>13. a % v = (c + e) % v
  <2>1. Apart(a, c + e, f - g - p, v) /\ a \in Int /\ c + e \in Int /\ f - g - p \in Int
    BY <1>3, <1>6, <1>12, SMT DEF Apart
  <2> QED
    BY <1>2, <2>1, ResidueApart
<1>14. a % v = a
  <2>1. a \in 0..(v - 1)
    BY <1>2, <1>6, SMT
  <2> QED
    BY <1>2, <2>1, ResidueItself
<1> QED
  BY <1>3, <1>13, <1>14 DEF a, v, c, e

----------------------------------------------------------------------------
(* The inductive invariant.                                                *)

\* The arguments of a call, as its routine is handed them.
CallOK ==
    /\ call.routine \in {"mul_wide", "wrapping_mul_add", "square_wide", "wrapping_square"}
    /\ call.xn \in 1..N /\ call.yn \in 1..N
    /\ call.x \in Nat /\ call.x < W[call.xn]
    /\ call.y \in Nat /\ call.y < W[call.yn]
    /\ call.out \in Nat
    /\ call.routine = "mul_wide" => call.on = call.xn + call.yn /\ call.out = 0
    /\ call.routine = "wrapping_mul_add" =>
         call.on \in 1..N /\ call.on <= call.xn + call.yn /\ call.out < W[call.on]
    /\ School!IsSquare => call.yn = call.xn /\ call.on \in 1..(2 * call.xn) /\ call.out = 0
    /\ call.routine = "square_wide" => call.on = 2 * call.xn

\* mul_wide: the buffer is the product of the rows done.
MulWideInv ==
    call.routine = "mul_wide" =>
    /\ pc \in {"rows", "done"} /\ i \in 0..call.xn
    /\ aux = 0
    /\ out = (call.x % W[i]) * call.y
    /\ pc = "done" => i = call.xn /\ res = <<out, aux>>

\* wrapping_mul_add: the buffer and the carry are congruent, one limb above the
\* buffer, to the rows done; inside the buffer the carry is a bit.
WrappingMulInv ==
    call.routine = "wrapping_mul_add" =>
    /\ pc \in {"rows", "done"} /\ i \in 0..call.xn
    /\ aux \in Word
    /\ out \in Nat /\ out < W[call.on]
    /\ PendingAt(call.yn, call.on, i) < call.on => aux <= 1
    /\ Holds(out, aux, PendingAt(call.yn, call.on, i),
             call.out + CutRows(call.x, call.y, call.on, i), call.on)
    /\ pc = "done" => i = call.xn /\ res = <<out, aux>>

\* square_wide: the rows below the diagonal, then the squares on it.
SquareWideInv ==
    call.routine = "square_wide" =>
    /\ pc \in {"rows", "diagonal", "done"} /\ flag = 0
    /\ pc = "rows" => i \in 1..call.xn /\ aux = 0 /\ out = CrossRows(call.x, i)
    /\ pc # "rows" =>
         /\ i \in 0..call.xn /\ aux \in Nat /\ aux <= 1 /\ out \in Nat
         /\ out + aux * W[2 * i]
              = 2 * CrossRows(call.x, call.xn) + DiagonalSquares(call.x, 0, i)
    /\ pc = "done" => i = call.xn /\ res = <<out, wrapping_add(aux, flag)>>

\* wrapping_square: the rows below the diagonal, then the limbs doubled and
\* given the squares; what is stored, pending and left adds up to the same.
WrappingSquareInv ==
    call.routine = "wrapping_square" =>
    /\ pc \in {"rows", "diagonal", "done"}
    /\ pc = "rows" => /\ i \in 1..call.xn /\ aux = 0 /\ flag = 0
                      /\ out = CrossRows(call.x, i) % W[call.on]
    /\ pc # "rows" =>
         /\ i \in 0..call.on /\ aux \in Word /\ flag \in Nat /\ flag <= 1
         /\ out \in Nat /\ out < W[call.on]
         /\ LimbsSquared(call.x, call.xn, out, aux + flag, i)
              = 2 * (CrossRows(call.x, call.xn) % W[call.on])
                  + DiagonalSquares(call.x, 0, call.xn)
    /\ pc = "done" => i = call.on /\ res = <<out, wrapping_add(aux, flag)>>

\* Schoolbook's invariant: the arguments, and what each routine has written so far.
IInv == CallOK /\ MulWideInv /\ WrappingMulInv /\ SquareWideInv /\ WrappingSquareInv

----------------------------------------------------------------------------
(* The initial states.                                                     *)

\* A call of the model hands its routine such arguments.
LEMMA CallsOK ==
    ASSUME School!ArgumentsFit, call \in School!Calls
    PROVE  CallOK
<1>1. N \in Nat /\ N >= 1
  BY BaseFacts
<1>2. \A n \in SchoolSizes : /\ n \in 1..N /\ n \in 0..(2 * N) /\ n \in Nat
                       /\ \A v \in SchoolValues(n) : v \in Nat /\ v < W[n]
  <2> SUFFICES ASSUME NEW n \in SchoolSizes
               PROVE  /\ n \in 1..N /\ n \in 0..(2 * N) /\ n \in Nat
                      /\ \A v \in SchoolValues(n) : v \in Nat /\ v < W[n]
    OBVIOUS
  <2>1. n \in 1..N /\ SchoolValues(n) \subseteq 0..(W[n] - 1)
    BY DEF School!ArgumentsFit
  <2>2. n \in 0..(2 * N) /\ n \in Nat
    BY <1>1, <2>1, SMT
  <2>3. W[n] \in Nat /\ W[n] > 0
    BY <2>2, WeightFacts
  <2> QED
    BY <2>1, <2>2, <2>3, SMT
<1>3. \A n \in SchoolSizes : 0 \in Nat /\ 0 < W[n]
  BY <1>2, WeightFacts
<1>4. CASE call \in School!MulWideCalls
  <2> PICK s \in SchoolSizes \X SchoolSizes :
             call \in [routine : {"mul_wide"}, x : SchoolValues(s[1]), xn : {s[1]},
                       y : SchoolValues(s[2]), yn : {s[2]}, out : {0}, on : {s[1] + s[2]}]
    BY <1>4, Zenon DEF School!MulWideCalls
  <2>1. /\ call.routine = "mul_wide" /\ call.xn = s[1] /\ call.yn = s[2]
        /\ call.out = 0 /\ call.on = s[1] + s[2]
        /\ call.x \in SchoolValues(s[1]) /\ call.y \in SchoolValues(s[2])
    OBVIOUS
  <2>2. s[1] \in SchoolSizes /\ s[2] \in SchoolSizes
    OBVIOUS
  <2> QED
    BY <1>2, <2>1, <2>2 DEF CallOK, School!IsSquare
<1>5. CASE call \in School!WrappingMulCalls
  <2> PICK s \in SchoolSizes \X SchoolSizes \X (1..N) :
             /\ s[3] <= s[1] + s[2]
             /\ call \in [routine : {"wrapping_mul_add"}, x : SchoolValues(s[1]), xn : {s[1]},
                          y : SchoolValues(s[2]), yn : {s[2]},
                          out : {0, W[s[3]] - 1, W[s[3]] \div 2}, on : {s[3]}]
    BY <1>5, Zenon DEF School!WrappingMulCalls
  <2>1. /\ call.routine = "wrapping_mul_add" /\ call.xn = s[1] /\ call.yn = s[2]
        /\ call.out \in {0, W[s[3]] - 1, W[s[3]] \div 2} /\ call.on = s[3]
        /\ call.x \in SchoolValues(s[1]) /\ call.y \in SchoolValues(s[2])
    OBVIOUS
  <2>2. s[1] \in SchoolSizes /\ s[2] \in SchoolSizes /\ s[3] \in 1..N
    OBVIOUS
  <2>3. s[3] \in 0..(2 * N)
    BY <1>1, <2>2, SMT
  <2>4. W[s[3]] \in Nat /\ W[s[3]] > 0
    BY <2>3, WeightFacts
  <2> DEFINE v == W[s[3]]
  <2>5. 0 \in Nat /\ 0 < v /\ v - 1 \in Nat /\ v - 1 < v /\ v \div 2 \in Nat /\ v \div 2 < v
    <3>1. v \in Nat /\ v > 0
      BY <2>4
    <3> HIDE DEF v
    <3> QED
      BY <3>1, SMT
  <2>6. call.out \in Nat /\ call.out < W[call.on]
    BY <2>1, <2>5
  <2> QED
    BY <1>2, <2>1, <2>2, <2>6 DEF CallOK, School!IsSquare
<1>6. CASE call \in School!SquareWideCalls
  <2> PICK n \in SchoolSizes :
             call \in [routine : {"square_wide"}, x : SchoolValues(n), xn : {n},
                       y : {0}, yn : {n}, out : {0}, on : {2 * n}]
    BY <1>6, Zenon DEF School!SquareWideCalls
  <2>1. /\ call.routine = "square_wide" /\ call.xn = n /\ call.yn = n
        /\ call.out = 0 /\ call.on = 2 * n
        /\ call.x \in SchoolValues(n) /\ call.y = 0
    OBVIOUS
  <2>2. n \in 1..N
    BY <1>2
  <2>3. 2 * n \in 1..(2 * n)
    BY <1>1, <2>2, SMT
  <2> QED
    BY <1>2, <1>3, <2>1, <2>3 DEF CallOK, School!IsSquare
<1>7. CASE call \in School!WrappingSquareCalls
  <2> PICK n \in SchoolSizes :
             call \in [routine : {"wrapping_square"}, x : SchoolValues(n), xn : {n},
                       y : {0}, yn : {n}, out : {0}, on : 1..(2 * n)]
    BY <1>7, Zenon DEF School!WrappingSquareCalls
  <2>1. /\ call.routine = "wrapping_square" /\ call.xn = n /\ call.yn = n
        /\ call.out = 0 /\ call.on \in 1..(2 * n)
        /\ call.x \in SchoolValues(n) /\ call.y = 0
    OBVIOUS
  <2> QED
    BY <1>2, <1>3, <2>1 DEF CallOK, School!IsSquare
<1> QED
  BY <1>4, <1>5, <1>6, <1>7 DEF School!Calls

\* The invariant holds initially.
LEMMA InitOK ==
    ASSUME School!ArgumentsFit, School!Init
    PROVE  IInv
<1> DEFINE x == call.x
           y == call.y
           xn == call.xn
           yn == call.yn
           on == call.on
<1>1. CallOK
  BY CallsOK DEF School!Init
<1>2. N \in Nat /\ N >= 1 /\ xn \in 1..N /\ yn \in 1..N
  BY <1>1, BaseFacts DEF CallOK
<1>3. x \in Nat /\ y \in Nat /\ aux = 0 /\ flag = 0 /\ pc = "rows" /\ out = call.out
  BY <1>1 DEF CallOK, School!Init
<1>4. 0 \in 0..xn /\ 1 \in 1..xn
  BY <1>2, SMT
<1>5. W[0] = 1 /\ x % 1 = 0 /\ 0 * y = 0
  <2>1. W[0] = 1
    BY WeightAssumption
  <2> HIDE DEF x, y
  <2> QED
    BY <1>3, <2>1, SMT
<1>6. MulWideInv
  <2> SUFFICES ASSUME call.routine = "mul_wide" PROVE MulWideInv
    BY DEF MulWideInv
  <2>1. i = 0 /\ call.out = 0
    BY <1>1 DEF School!Init, School!IsSquare, CallOK
  <2>2. out = (x % W[0]) * y
    BY <1>3, <1>5, <2>1
  <2> QED
    BY <1>3, <1>4, <2>1, <2>2 DEF MulWideInv
<1>7. WrappingMulInv
  <2> SUFFICES ASSUME call.routine = "wrapping_mul_add" PROVE WrappingMulInv
    BY DEF WrappingMulInv
  <2>1. /\ i = 0 /\ on \in 1..N /\ on <= xn + yn
        /\ call.out \in Nat /\ call.out < W[on]
    BY <1>1 DEF School!Init, School!IsSquare, CallOK
  <2>2. on \in 0..(2 * N) /\ PendingAt(yn, on, 0) \in 0..(2 * N)
    <3> HIDE DEF on, yn
    <3> QED
      BY <1>2, <2>1, SMT DEF PendingAt, Min2
  <2>3. CutRows(x, y, on, 0) = 0
    BY <1>3, <2>2, CutRowsSteps
  <2>4. W[PendingAt(yn, on, 0)] \in Nat
    BY <2>2, WeightFacts
  <2>5. Holds(out, aux, PendingAt(yn, on, 0), call.out + CutRows(x, y, on, 0), on)
    <3> DEFINE w == W[PendingAt(yn, on, 0)]
    <3>1. w \in Nat
      BY <2>4
    <3>2. out + 0 * w = call.out + 0
      <4> HIDE DEF w
      <4> QED
        BY <1>3, <2>1, <3>1, SMT
    <3> QED
      BY <1>3, <2>3, <3>2 DEF Holds
  <2>6. aux \in Word /\ aux <= 1
    BY <1>3, BaseFacts, SMT DEF Word
  <2> QED
    BY <1>3, <1>4, <2>1, <2>5, <2>6 DEF WrappingMulInv
<1>8. School!IsSquare => i = 1 /\ out = 0 /\ CrossRows(x, 1) = 0
  <2> SUFFICES ASSUME School!IsSquare PROVE i = 1 /\ out = 0 /\ CrossRows(x, 1) = 0
    OBVIOUS
  <2>1. i = 1 /\ out = 0
    BY <1>1 DEF School!Init, CallOK
  <2>2. 0 \in 0..(2 * N - 1) /\ 0 \in 0..(2 * N)
    BY <1>2, SMT
  <2>3. CrossRows(x, 0 + 1) = CrossRows(x, 0) + CrossRow(x, 0) /\ CrossRows(x, 0) = 0
    BY <1>3, <2>2, CrossRowsSteps
  <2>4. CrossRow(x, 0) = 0
    <3> DEFINE l == Limb(x, 0)
               u == x % W[0]
    <3>1. l \in Word
      BY <1>3, <2>2, LimbType
    <3>2. l \in Int
      BY <3>1 DEF Word
    <3>3. u = 0
      BY <1>5
    <3>4. W[0] = 1
      BY WeightAssumption
    <3> HIDE DEF l, u
    <3>5. l * u * 1 = 0
      BY <3>2, <3>3, SMT
    <3> QED
      BY <3>4, <3>5 DEF CrossRow, l, u
  <2>5. CrossRows(x, 1) = 0
    <3> DEFINE f == CrossRows(x, 1)
    <3>1. 0 + 1 = 1
      BY SMT
    <3> QED
      BY <2>3, <2>4, <3>1
  <2> QED
    BY <2>1, <2>5
<1>9. SquareWideInv
  BY <1>3, <1>4, <1>8 DEF SquareWideInv, School!IsSquare
<1>10. WrappingSquareInv
  <2> SUFFICES ASSUME call.routine = "wrapping_square" PROVE WrappingSquareInv
    BY DEF WrappingSquareInv
  <2>1. on \in 1..(2 * xn)
    BY <1>1 DEF CallOK, School!IsSquare
  <2>2. on \in 0..(2 * N)
    <3> HIDE DEF on, xn
    <3> QED
      BY <1>2, <2>1, SMT
  <2>3. W[on] \in Nat /\ W[on] > 0
    BY <2>2, WeightFacts
  <2>4. 0 % W[on] = 0
    <3> DEFINE v == W[on]
    <3>1. v \in Nat /\ v > 0
      BY <2>3
    <3> HIDE DEF v
    <3>2. 0 % v = 0
      BY <3>1, SMT
    <3> QED
      BY <3>2 DEF v
  <2> QED
    BY <1>3, <1>4, <1>8, <2>4 DEF WrappingSquareInv, School!IsSquare
<1> QED
  BY <1>1, <1>6, <1>7, <1>9, <1>10 DEF IInv

----------------------------------------------------------------------------
(* The steps, one lemma each.                                              *)

\* The other routines have nothing to show of a call.
LEMMA OfOneRoutine ==
    ASSUME IInv, call' = call,
           \/ call.routine = "mul_wide" /\ MulWideInv'
           \/ call.routine = "wrapping_mul_add" /\ WrappingMulInv'
           \/ call.routine = "square_wide" /\ SquareWideInv'
           \/ call.routine = "wrapping_square" /\ WrappingSquareInv'
    PROVE  IInv'
<1>1. CallOK'
  BY DEF IInv, CallOK, School!IsSquare
<1>2. call'.routine = call.routine
  OBVIOUS
<1>3. ASSUME call.routine # "mul_wide" PROVE MulWideInv'
  BY <1>2, <1>3 DEF MulWideInv
<1>4. ASSUME call.routine # "wrapping_mul_add" PROVE WrappingMulInv'
  BY <1>2, <1>4 DEF WrappingMulInv
<1>5. ASSUME call.routine # "square_wide" PROVE SquareWideInv'
  BY <1>2, <1>5 DEF SquareWideInv
<1>6. ASSUME call.routine # "wrapping_square" PROVE WrappingSquareInv'
  BY <1>2, <1>6 DEF WrappingSquareInv
<1> QED
  BY <1>1, <1>3, <1>4, <1>5, <1>6 DEF IInv

\* mul_wide: a row.
LEMMA MulWideRowOK ==
    ASSUME IInv, School!MulWideRow
    PROVE  IInv'
<1> DEFINE x == call.x
           y == call.y
           xn == call.xn
           yn == call.yn
           r == School!MulAddRow(out, Limb(x, i), y, yn, i)
<1>1. /\ call.routine = "mul_wide" /\ pc = "rows" /\ i < xn
      /\ call' = call /\ pc' = pc /\ aux' = aux /\ i' = i + 1
      /\ out' = SetLimb(r[1], i + yn, r[2])
  BY SchoolOps DEF School!MulWideRow
<1>2. /\ xn \in 1..N /\ yn \in 1..N /\ x \in Nat /\ y \in Nat /\ y < W[yn]
  BY DEF IInv, CallOK
<1>3. i \in 0..xn /\ aux = 0 /\ out = (x % W[i]) * y
  BY <1>1 DEF IInv, MulWideInv
<1>4. i \in 0..(N - 1) /\ i + 1 \in 0..xn
  <2> HIDE DEF xn
  <2> QED
    BY <1>1, <1>2, <1>3, BaseFacts, SMT
<1>5. SetLimb(r[1], i + yn, r[2]) = (x % W[i + 1]) * y
  <2> HIDE DEF x, y, yn
  <2> QED
    BY <1>2, <1>3, <1>4, WideRow DEF r
<1>6. out' = (x % W[i']) * y
  BY <1>1, <1>5
<1>7. MulWideInv'
  BY <1>1, <1>3, <1>4, <1>6 DEF MulWideInv
<1> QED
  BY <1>1, <1>7, OfOneRoutine

\* wrapping_mul_add: a row, at the end of the buffer or inside it.
LEMMA WrappingMulRowOK ==
    ASSUME IInv, School!WrappingMulRow
    PROVE  IInv'
<1> DEFINE x == call.x
           y == call.y
           xn == call.xn
           yn == call.yn
           on == call.on
           len == RowLength(yn, on, i)
           r == School!MulAddRow(out, Limb(x, i), y, len, i)
           top == carrying_add(Limb(r[1], i + len), r[2], aux)
           s == call.out + CutRows(x, y, on, i)
<1>1. /\ call.routine = "wrapping_mul_add" /\ pc = "rows" /\ i < xn
      /\ call' = call /\ pc' = pc /\ i' = i + 1
      /\ i + len >= on => out' = r[1] /\ aux' = wrapping_add(aux, r[2])
      /\ ~(i + len >= on) => out' = SetLimb(r[1], i + len, top[1]) /\ aux' = top[2]
  BY SchoolOps DEF School!WrappingMulRow, RowLength, Min2, School!meta_carry_added
<1>2. /\ xn \in 1..N /\ yn \in 1..N /\ x \in Nat /\ y \in Nat /\ y < W[yn]
      /\ on \in 1..N /\ call.out \in Nat
  BY <1>1 DEF IInv, CallOK
<1>3. /\ i \in 0..xn /\ aux \in Word /\ out \in Nat /\ out < W[on]
      /\ PendingAt(yn, on, i) < on => aux <= 1
      /\ Holds(out, aux, PendingAt(yn, on, i), s, on)
  BY <1>1 DEF IInv, WrappingMulInv
<1>4. /\ i \in 0..(N - 1) /\ i + 1 \in 0..xn /\ i \in 0..(2 * N) /\ i \in 0..(2 * N - 1)
      /\ i \in Nat /\ on \in 0..(2 * N) /\ on \in Nat /\ len \in Nat
  <2> HIDE DEF xn, on, yn
  <2> QED
    BY <1>1, <1>2, <1>3, BaseFacts, SMT DEF RowLength, Min2
<1>5. s \in Nat /\ s + CutRow(x, y, on, i) = call.out + CutRows(x, y, on, i + 1)
  <2> DEFINE f == CutRows(x, y, on, i)
             g == CutRows(x, y, on, i + 1)
             e == CutRow(x, y, on, i)
  <2>1. f \in Nat /\ g = f + e
    BY <1>2, <1>4, CutRowsSteps
  <2>2. e \in Nat
    BY <1>2, <1>4, CutRowType
  <2> HIDE DEF e, f, g
  <2>3. call.out + f \in Nat /\ (call.out + f) + e = call.out + g
    BY <1>2, <2>1, <2>2, SMT
  <2> QED
    BY <2>3 DEF f, g, e
<1> HIDE DEF s
<1>6. CASE i + len >= on
  <2>1. /\ r[1] \in Nat /\ r[1] < W[on]
        /\ wrapping_add(aux, r[2]) \in Word
        /\ PendingAt(yn, on, i + 1) = on
        /\ Holds(r[1], wrapping_add(aux, r[2]), on, s + CutRow(x, y, on, i), on)
    <3> HIDE DEF x, y, yn, on, len, r
    <3> QED
      BY <1>2, <1>3, <1>4, <1>5, <1>6, WrappingRowAtEnd DEF len, r
  <2>2. out' = r[1] /\ aux' = wrapping_add(aux, r[2])
    BY <1>1, <1>6
  <2>3. ~(on < on)
    <3> HIDE DEF on
    <3> QED
      BY <1>4, SMT
  <2>4. /\ out' \in Nat /\ out' < W[on] /\ aux' \in Word
        /\ PendingAt(yn, on, i') < on => aux' <= 1
        /\ Holds(out', aux', PendingAt(yn, on, i'), call.out + CutRows(x, y, on, i'), on)
    BY <1>1, <1>5, <2>1, <2>2, <2>3
  <2>5. WrappingMulInv'
    BY <1>1, <1>4, <2>4 DEF WrappingMulInv
  <2> QED
    BY <1>1, <2>5, OfOneRoutine
<1>7. CASE i + len < on
  <2>1. PendingAt(yn, on, i) < on
    <3> HIDE DEF on, yn
    <3> QED
      BY <1>2, <1>4, <1>7, SMT DEF PendingAt, RowLength, Min2, len
  <2>2. aux \in Nat
    BY <1>3, BaseFacts, SMT DEF Word
  <2>3. aux <= 1
    BY <1>3, <2>1
  <2>4. /\ SetLimb(r[1], i + len, top[1]) \in Nat
        /\ SetLimb(r[1], i + len, top[1]) < W[on]
        /\ top[2] \in {0, 1}
        /\ Holds(SetLimb(r[1], i + len, top[1]), top[2], PendingAt(yn, on, i + 1),
                 s + CutRow(x, y, on, i), on)
    <3> HIDE DEF x, y, yn, on, len, r, top
    <3> QED
      BY <1>2, <1>3, <1>4, <1>5, <1>7, <2>2, <2>3, WrappingRowInside DEF len, r, top
  <2>5. ~(i + len >= on)
    <3> HIDE DEF on, len
    <3> QED
      BY <1>4, <1>7, SMT
  <2>6. out' = SetLimb(r[1], i + len, top[1]) /\ aux' = top[2]
    BY <1>1, <2>5
  <2>7. top[2] \in Word /\ top[2] <= 1
    <3> DEFINE d == top[2]
    <3>1. d \in {0, 1}
      BY <2>4
    <3> HIDE DEF d
    <3>2. d \in Word /\ d <= 1
      BY <3>1, BaseFacts, SMT DEF Word
    <3> QED
      BY <3>2 DEF d
  <2>8. /\ out' \in Nat /\ out' < W[on] /\ aux' \in Word /\ aux' <= 1
        /\ Holds(out', aux', PendingAt(yn, on, i'), call.out + CutRows(x, y, on, i'), on)
    BY <1>1, <1>5, <2>4, <2>6, <2>7
  <2>9. WrappingMulInv'
    BY <1>1, <1>4, <2>8 DEF WrappingMulInv
  <2> QED
    BY <1>1, <2>9, OfOneRoutine
<1>8. i + len >= on \/ i + len < on
  <2> HIDE DEF on, len
  <2> QED
    BY <1>4, SMT
<1> QED
  BY <1>6, <1>7, <1>8

\* The return of the two multiplications.
LEMMA MulReturnOK ==
    ASSUME IInv, School!MulReturn
    PROVE  IInv'
<1>1. /\ pc' = "done" /\ res' = <<out, aux>> /\ i = call.xn
      /\ call' = call /\ out' = out /\ i' = i /\ aux' = aux
  BY DEF School!MulReturn
<1>2. call.routine = "mul_wide" \/ call.routine = "wrapping_mul_add"
  BY DEF School!MulReturn, School!IsSquare, IInv, CallOK
<1>3. CASE call.routine = "mul_wide"
  <2>1. MulWideInv'
    BY <1>1, <1>3 DEF IInv, MulWideInv
  <2> QED
    BY <1>1, <1>3, <2>1, OfOneRoutine
<1>4. CASE call.routine = "wrapping_mul_add"
  <2>1. WrappingMulInv'
    BY <1>1, <1>4 DEF IInv, WrappingMulInv
  <2> QED
    BY <1>1, <1>4, <2>1, OfOneRoutine
<1> QED
  BY <1>2, <1>3, <1>4

\* A row below the diagonal, of either square.
LEMMA SquareRowOK ==
    ASSUME IInv, School!SquareRow
    PROVE  IInv'
<1> DEFINE x == call.x
           xn == call.xn
           on == call.on
           len == RowLength(i, on, i)
           r == School!MulAddRow(out, Limb(x, i), x, len, i)
<1>1. /\ School!IsSquare /\ pc = "rows" /\ i < xn
      /\ call' = call /\ pc' = pc /\ i' = i + 1 /\ aux' = aux /\ flag' = flag
      /\ i + len < on => out' = SetLimb(r[1], i + len, r[2])
      /\ ~(i + len < on) => out' = r[1]
  BY SchoolOps DEF School!SquareRow, RowLength, Min2
<1>2. xn \in 1..N /\ x \in Nat /\ on \in 1..(2 * xn)
  BY <1>1 DEF IInv, CallOK
<1>3. /\ call.routine = "square_wide" \/ call.routine = "wrapping_square"
      /\ i \in 1..xn /\ aux = 0
  BY <1>1 DEF IInv, CallOK, School!IsSquare, SquareWideInv, WrappingSquareInv
<1>4. /\ i \in 1..(N - 1) /\ i + 1 \in 1..xn /\ i \in 1..N /\ i + 1 \in 1..N
      /\ i \in Nat /\ on \in 1..(2 * N) /\ on \in 0..(2 * N) /\ on \in Nat
      /\ N \in Nat /\ 2 * i - 1 \in 0..(2 * N) /\ 2 * (i + 1) - 1 \in 0..(2 * N)
      /\ i \in 0..(2 * N) /\ i + 1 \in 0..(2 * N) /\ len \in Nat
  <2> HIDE DEF xn, on
  <2> QED
    BY <1>1, <1>2, <1>3, BaseFacts, SMT DEF RowLength, Min2
<1>5. CASE call.routine = "square_wide"
  <2>1. on = 2 * xn /\ out = CrossRows(x, i)
    BY <1>1, <1>5 DEF IInv, CallOK, SquareWideInv
  <2>2. len = i /\ i + len < on
    <3> HIDE DEF xn, on
    <3> QED
      BY <1>1, <1>2, <1>4, <2>1, SMT DEF len, RowLength, Min2
  <2> HIDE DEF len
  <2>3. SetLimb(r[1], i + len, r[2]) = CrossRows(x, i + 1)
    <3> HIDE DEF x
    <3> QED
      BY <1>2, <1>4, <2>1, <2>2, SquareRowInside DEF r
  <2>4. out' = CrossRows(x, i')
    BY <1>1, <2>2, <2>3
  <2>5. SquareWideInv'
    BY <1>1, <1>3, <1>4, <1>5, <2>4 DEF SquareWideInv, IInv
  <2> QED
    BY <1>1, <1>5, <2>5, OfOneRoutine
<1>6. CASE call.routine = "wrapping_square"
  <2>1. out = CrossRows(x, i) % W[on] /\ flag = 0
    BY <1>1, <1>6 DEF IInv, WrappingSquareInv
  <2>2. out' = CrossRows(x, i') % W[on]
    <3>1. CASE i + len < on
      <4>1. /\ len = i /\ i + i < on
            /\ 2 * i - 1 \in 0..on /\ 2 * (i + 1) - 1 \in 0..on
        <5> HIDE DEF xn, on
        <5> QED
          BY <1>4, <3>1, SMT DEF len, RowLength, Min2
      <4>2. CrossRows(x, i) < W[2 * i - 1] /\ CrossRows(x, i + 1) < W[2 * (i + 1) - 1]
        <5> HIDE DEF x
        <5> QED
          BY <1>2, <1>4, CrossBelow
      <4>3. CrossRows(x, i) \in Nat /\ CrossRows(x, i + 1) \in Nat
        <5> HIDE DEF x
        <5> QED
          BY <1>2, <1>4, CrossRowsSteps
      <4>4. W[2 * i - 1] <= W[on] /\ W[2 * (i + 1) - 1] <= W[on]
        <5> HIDE DEF on
        <5> QED
          BY <1>4, <4>1, WeightsGrow
      <4>5. /\ W[on] \in Nat /\ W[on] > 0 /\ W[2 * i - 1] \in Nat
            /\ W[2 * (i + 1) - 1] \in Nat
        <5> HIDE DEF on
        <5> QED
          BY <1>4, WeightFacts
      <4>6. /\ CrossRows(x, i) % W[on] = CrossRows(x, i)
            /\ CrossRows(x, i + 1) % W[on] = CrossRows(x, i + 1)
        <5> DEFINE v == W[on]
                   v1 == W[2 * i - 1]
                   v2 == W[2 * (i + 1) - 1]
                   e == CrossRows(x, i)
                   f == CrossRows(x, i + 1)
        <5>1. v \in Nat /\ v > 0 /\ v1 \in Nat /\ v2 \in Nat /\ e \in Nat /\ f \in Nat
          BY <4>3, <4>5
        <5>2. e < v1 /\ f < v2 /\ v1 <= v /\ v2 <= v
          BY <4>2, <4>4
        <5> HIDE DEF v, v1, v2, e, f
        <5>3. e % v = e /\ f % v = f
          BY <5>1, <5>2, SMT
        <5> QED
          BY <5>3 DEF v, e, f
      <4>7. out = CrossRows(x, i)
        BY <2>1, <4>6
      <4> HIDE DEF len
      <4>8. SetLimb(r[1], i + len, r[2]) = CrossRows(x, i + 1)
        <5> HIDE DEF x
        <5> QED
          BY <1>2, <1>4, <4>1, <4>7, SquareRowInside DEF r
      <4> QED
        BY <1>1, <3>1, <4>6, <4>8
    <3>2. CASE i + len >= on
      <4>1. r[1] = CrossRows(x, i + 1) % W[on]
        <5> HIDE DEF x, on, len, r
        <5> QED
          BY <1>2, <1>4, <2>1, <3>2, SquareRowAtEnd DEF len, r
      <4>2. ~(i + len < on)
        <5> HIDE DEF len, on
        <5> QED
          BY <1>4, <3>2, SMT
      <4> QED
        BY <1>1, <4>1, <4>2
    <3>3. i + len < on \/ i + len >= on
      <4> HIDE DEF len, on
      <4> QED
        BY <1>4, SMT
    <3> QED
      BY <3>1, <3>2, <3>3
  <2>3. WrappingSquareInv'
    BY <1>1, <1>3, <1>4, <1>6, <2>1, <2>2 DEF WrappingSquareInv
  <2> QED
    BY <1>1, <1>6, <2>3, OfOneRoutine
<1> QED
  BY <1>3, <1>5, <1>6

\* square_wide: the doubling loses nothing.
LEMMA DoubleOK ==
    ASSUME IInv, School!Double
    PROVE  IInv'
<1> DEFINE x == call.x
           xn == call.xn
           on == call.on
           f == CrossRows(x, xn)
           v == W[on - 1]
           d == DiagonalSquares(x, 0, 0)
           w == W[2 * 0]
<1>1. /\ call.routine = "square_wide" /\ pc = "rows" /\ i = xn
      /\ call' = call /\ pc' = "diagonal" /\ i' = 0 /\ aux' = aux /\ flag' = flag
      /\ out' = 2 * (out % v)
  BY SchoolOps DEF School!Double
<1>2. /\ xn \in 1..N /\ x \in Nat /\ on = 2 * xn
      /\ aux = 0 /\ out = f /\ flag = 0
  BY <1>1 DEF IInv, CallOK, SquareWideInv
<1>3. /\ N \in Nat /\ 0 \in 0..xn /\ on - 1 = 2 * xn - 1 /\ on - 1 \in 0..(2 * N)
      /\ xn \in 0..(2 * N) /\ 2 * 0 = 0 /\ 0 \in 0..(2 * N) /\ 0 \in 0..N /\ 0 \in 0..0
  <2> HIDE DEF xn, on
  <2> QED
    BY <1>2, BaseFacts, SMT
<1>4. f \in Nat /\ f < v
  <2> HIDE DEF x, xn, on
  <2> QED
    BY <1>2, <1>3, CrossBelow, CrossRowsSteps DEF f, v
<1>5. v \in Nat /\ w = 1 /\ d = 0
  <2> HIDE DEF x, on
  <2> QED
    BY <1>2, <1>3, WeightFacts, WeightAssumption, DiagonalSteps DEF v, w, d
<1>6. out' \in Nat /\ out' + aux' * w = 2 * f + d /\ aux' \in Nat /\ aux' <= 1
  <2> HIDE DEF f, v, w, d
  <2>1. f % v = f
    BY <1>4, <1>5, SMT
  <2>2. out' = 2 * f
    BY <1>1, <1>2, <2>1
  <2>3. aux' = 0
    BY <1>1, <1>2
  <2>4. 2 * f \in Nat /\ 2 * f + 0 * w = 2 * f + d /\ 0 <= 1
    BY <1>4, <1>5, SMT
  <2> QED
    BY <2>2, <2>3, <2>4
<1>7. SquareWideInv'
  BY <1>1, <1>2, <1>3, <1>6 DEF SquareWideInv
<1> QED
  BY <1>1, <1>7, OfOneRoutine

\* square_wide: a square on the diagonal.
LEMMA DiagonalOK ==
    ASSUME IInv, School!Diagonal
    PROVE  IInv'
<1> DEFINE x == call.x
           xn == call.xn
           sq == carrying_mul_add(Limb(x, i), Limb(x, i), Limb(out, 2 * i), aux)
           top == overflowing_add(Limb(out, 2 * i + 1), sq[2])
           st == SetLimb(SetLimb(out, 2 * i, sq[1]), 2 * i + 1, top[1])
           f == CrossRows(x, xn)
           d == DiagonalSquares(x, 0, i)
           d1 == DiagonalSquares(x, 0, i + 1)
           e == LimbSquare(x, i)
           w == W[2 * i]
           w1 == W[2 * (i + 1)]
<1>1. /\ call.routine = "square_wide" /\ pc = "diagonal" /\ i < xn
      /\ call' = call /\ pc' = pc /\ i' = i + 1 /\ flag' = flag
      /\ out' = st /\ aux' = top[2]
  BY SchoolOps DEF School!Diagonal
<1>2. /\ xn \in 1..N /\ x \in Nat /\ flag = 0
      /\ i \in 0..xn /\ aux \in Nat /\ aux <= 1 /\ out \in Nat
      /\ out + aux * w = 2 * f + d
  BY <1>1 DEF IInv, CallOK, SquareWideInv
<1>3. /\ i \in 0..(N - 1) /\ i + 1 \in 0..xn /\ i \in 0..N /\ N \in Nat
      /\ xn \in 0..(2 * N) /\ 0 \in 0..N /\ 2 * i \in 0..(2 * N)
      /\ 2 * (i + 1) \in 0..(2 * N)
  <2> HIDE DEF xn
  <2> QED
    BY <1>1, <1>2, BaseFacts, SMT
<1>4. /\ st \in Nat /\ top[2] \in Nat /\ top[2] <= 1
      /\ st + top[2] * w1 = out + aux * w + e
  <2> DEFINE j == 2 * i
  <2>1. /\ sq = carrying_mul_add(Limb(x, i), Limb(x, i), Limb(out, j), aux)
        /\ top = overflowing_add(Limb(out, j + 1), sq[2])
        /\ st = SetLimb(SetLimb(out, j, sq[1]), j + 1, top[1])
        /\ SquareAt(j, i)
    BY DEF SquareAt
  <2>2. x \in Nat /\ i \in 0..(N - 1) /\ out \in Nat /\ aux \in Nat
    BY <1>2, <1>3
  <2>3. aux <= 1
    BY <1>2
  <2> HIDE DEF x, j, sq, top, st
  <2>4. st \in Nat
    BY <2>1, <2>2, <2>3, DiagonalStep
  <2>5. top[2] \in Nat
    BY <2>1, <2>2, <2>3, DiagonalStep
  <2>6. top[2] <= 1
    BY <2>1, <2>2, <2>3, DiagonalStep
  <2>7. SquareAdded(x, i, out, aux, st, top[2])
    BY <2>1, <2>2, <2>3, DiagonalStep
  <2> QED
    BY <2>4, <2>5, <2>6, <2>7 DEF SquareAdded
<1>5. f \in Nat /\ d \in Nat /\ e \in Nat /\ d1 = d + e
  <2> HIDE DEF x, xn
  <2> QED
    BY <1>2, <1>3, CrossRowsSteps, DiagonalSteps, LimbSquareType
<1>6. st + top[2] * w1 = 2 * f + d1
  <2> HIDE DEF x, xn, sq, top, st, f, d, d1, e, w, w1
  <2>1. st + top[2] * w1 = (2 * f + d) + e
    BY <1>2, <1>4
  <2>2. (2 * f + d) + e = 2 * f + d1
    BY <1>5, SMT
  <2> QED
    BY <2>1, <2>2
<1>7. /\ out' \in Nat /\ aux' \in Nat /\ aux' <= 1
      /\ out' + aux' * W[2 * i'] = 2 * f + DiagonalSquares(x, 0, i')
  BY <1>1, <1>4, <1>6
<1>8. SquareWideInv'
  BY <1>1, <1>2, <1>3, <1>7 DEF SquareWideInv
<1> QED
  BY <1>1, <1>8, OfOneRoutine

\* wrapping_square: before its limb loop.
LEMMA StartLimbsOK ==
    ASSUME IInv, School!StartLimbs
    PROVE  IInv'
<1> DEFINE x == call.x
           xn == call.xn
           on == call.on
           v == W[on]
           f == CrossRows(x, xn) % v
           m == Min2((0 + 1) \div 2, xn)
           d == DiagonalSquares(x, m, xn)
<1>1. /\ call.routine = "wrapping_square" /\ pc = "rows" /\ i >= xn
      /\ call' = call /\ pc' = "diagonal" /\ i' = 0
      /\ out' = out /\ aux' = aux /\ flag' = flag
  BY DEF School!StartLimbs
<1>2. xn \in 1..N /\ x \in Nat /\ on \in 1..(2 * xn)
  BY <1>1 DEF IInv, CallOK, School!IsSquare
<1>3. i \in 1..xn /\ aux = 0 /\ flag = 0 /\ out = CrossRows(x, i) % W[on]
  BY <1>1 DEF IInv, WrappingSquareInv
<1>4. /\ N \in Nat /\ i = xn /\ xn \in 0..(2 * N) /\ on \in 0..(2 * N)
      /\ 0 \in 0..on /\ 0 \in 0..N /\ xn \in 0..N
  <2> HIDE DEF xn, on
  <2> QED
    BY <1>1, <1>2, <1>3, BaseFacts, SMT
<1>5. v \in Nat /\ v > 0
  <2> HIDE DEF on
  <2> QED
    BY <1>4, WeightFacts DEF v
<1>6. CrossRows(x, xn) \in Nat
  <2> HIDE DEF x, xn
  <2> QED
    BY <1>2, <1>4, CrossRowsSteps
<1>7. f \in Nat /\ f < v
  <2> HIDE DEF x, xn, v
  <2> QED
    BY <1>5, <1>6, NatDivMod
<1>8. out = f /\ m = 0
  <2>1. out = f
    BY <1>3, <1>4
  <2> HIDE DEF xn
  <2>2. m = 0
    BY <1>2, <1>4, SMT DEF m, Min2
  <2> QED
    BY <2>1, <2>2
<1>9. d = DiagonalSquares(x, 0, xn) /\ d \in Nat
  <2>1. DiagonalSquares(x, 0, xn) \in Nat
    <3> HIDE DEF x, xn
    <3> QED
      BY <1>2, <1>4, DiagonalSteps
  <2> HIDE DEF m
  <2> QED
    BY <1>8, <2>1
<1>10. LimbsSquared(x, xn, out, aux + flag, 0) = 2 * f + d
  <2> DEFINE z == f
             e == z % 1
  <2>1. LimbsSquared(x, xn, out, aux + flag, 0)
          = (z % W[0]) + (0 + 0) * W[0] + 2 * (z - (z % W[0])) + d
    <3> HIDE DEF f
    <3> QED
      BY <1>3, <1>8 DEF LimbsSquared
  <2>2. W[0] = 1 /\ z \in Nat
    BY <1>7, WeightAssumption
  <2> HIDE DEF z, d
  <2>3. (z % 1) + (0 + 0) * 1 + 2 * (z - (z % 1)) + d = 2 * z + d
    BY <1>9, <2>2, SMT
  <2> QED
    BY <2>1, <2>2, <2>3 DEF z
<1>11. 0 \in Word /\ 0 \in Nat /\ 0 <= 1
  BY BaseFacts, SMT DEF Word
<1>12. /\ i' \in 0..on /\ aux' \in Word /\ flag' \in Nat /\ flag' <= 1
       /\ out' \in Nat /\ out' < W[on]
  <2> HIDE DEF f
  <2> QED
    BY <1>1, <1>3, <1>4, <1>7, <1>8, <1>11 DEF v
<1>13. LimbsSquared(x, xn, out', aux' + flag', i') = 2 * f + DiagonalSquares(x, 0, xn)
  <2> HIDE DEF f, d
  <2> QED
    BY <1>1, <1>9, <1>10
<1>14. WrappingSquareInv'
  BY <1>1, <1>12, <1>13 DEF WrappingSquareInv
<1> QED
  BY <1>1, <1>14, OfOneRoutine

\* wrapping_square: a limb.
LEMMA SquareLimbOK ==
    ASSUME IInv, School!SquareLimb
    PROVE  IInv'
<1> DEFINE x == call.x
           xn == call.xn
           on == call.on
           dbl == DoubledLimbOf(out, i, flag)
           xi == SquaredLimbOf(x, i)
           sum == SquareSum(i, xi, dbl, aux)
<1>1. /\ call.routine = "wrapping_square" /\ pc = "diagonal" /\ i < on
      /\ call' = call /\ pc' = pc /\ i' = i + 1
      /\ flag' = ShiftedOut(out, i)
      /\ out' = SetLimb(out, i, sum[1]) /\ aux' = sum[2]
  BY SchoolOps DEF School!SquareLimb, DoubledLimbOf, SquaredLimbOf, SquareSum, ShiftedOut
<1>2. xn \in 1..N /\ x \in Nat /\ on \in 1..(2 * xn)
  BY <1>1 DEF IInv, CallOK, School!IsSquare
<1>3. /\ i \in 0..on /\ aux \in Word /\ flag \in Nat /\ out \in Nat
      /\ LimbsSquared(x, xn, out, aux + flag, i)
           = 2 * (CrossRows(x, xn) % W[on]) + DiagonalSquares(x, 0, xn)
  BY <1>1 DEF IInv, WrappingSquareInv
<1>4. flag <= 1 /\ out < W[on]
  BY <1>1 DEF IInv, WrappingSquareInv
<1>5. i \in 0..(on - 1) /\ i + 1 \in 0..on
  <2>1. N \in Nat
    BY BaseFacts
  <2> HIDE DEF on, xn
  <2> QED
    BY <1>1, <1>2, <1>3, <2>1, SMT
<1>6. /\ SetLimb(out, i, sum[1]) \in Nat /\ SetLimb(out, i, sum[1]) < W[on]
      /\ sum[2] \in Word
      /\ ShiftedOut(out, i) \in Nat /\ ShiftedOut(out, i) <= 1
      /\ SquaresKept(x, xn, out, aux + flag, i,
                     SetLimb(out, i, sum[1]), sum[2] + ShiftedOut(out, i))
  <2>1. /\ dbl = DoubledLimbOf(out, i, flag) /\ xi = SquaredLimbOf(x, i)
        /\ sum = SquareSum(i, xi, dbl, aux)
    OBVIOUS
  <2>2. x \in Nat /\ xn \in 1..N /\ on \in Nat /\ i \in Nat
    BY <1>2, <1>5, SMT
  <2>3. out \in Nat /\ aux \in Word /\ flag \in Nat
    BY <1>3
  <2>4. LimbInBuffer(xn, on, i, out)
    BY <1>2, <1>4, <1>5 DEF LimbInBuffer
  <2>5. flag <= 1
    BY <1>4
  <2> HIDE DEF x, xn, on, dbl, xi, sum
  <2>6. sum[2] \in Word
    BY <2>1, <2>2, <2>3, <2>4, <2>5, SquareLimbStep
  <2>7. SetLimb(out, i, sum[1]) \in Nat
    BY <2>1, <2>2, <2>3, <2>4, <2>5, SquareLimbStep
  <2>8. SetLimb(out, i, sum[1]) < W[on]
    BY <2>1, <2>2, <2>3, <2>4, <2>5, SquareLimbStep
  <2>9. SquaresKept(x, xn, out, aux + flag, i,
                     SetLimb(out, i, sum[1]), sum[2] + ShiftedOut(out, i))
    BY <2>1, <2>2, <2>3, <2>4, <2>5, SquareLimbStep
  <2>10. ShiftedOut(out, i) \in Nat
    BY <2>1, <2>2, <2>3, <2>4, <2>5, SquareLimbStep
  <2>11. ShiftedOut(out, i) <= 1
    BY <2>1, <2>2, <2>3, <2>4, <2>5, SquareLimbStep
  <2> QED
    BY <2>6, <2>7, <2>8, <2>9, <2>10, <2>11
<1>7. /\ out' \in Nat /\ out' < W[on] /\ aux' \in Word /\ flag' \in Nat /\ flag' <= 1
      /\ LimbsSquared(x, xn, out', aux' + flag', i')
           = 2 * (CrossRows(x, xn) % W[on]) + DiagonalSquares(x, 0, xn)
  <2> HIDE DEF x, xn, on, sum
  <2> QED
    BY <1>1, <1>3, <1>6 DEF SquaresKept
<1>8. WrappingSquareInv'
  BY <1>1, <1>5, <1>7 DEF WrappingSquareInv
<1> QED
  BY <1>1, <1>8, OfOneRoutine

\* The return of the two squares.
LEMMA SquareReturnOK ==
    ASSUME IInv, School!SquareReturn
    PROVE  IInv'
<1>1. /\ pc = "diagonal" /\ i = IF call.routine = "square_wide" THEN call.xn ELSE call.on
      /\ pc' = "done" /\ res' = <<out, wrapping_add(aux, flag)>>
      /\ call' = call /\ out' = out /\ i' = i /\ aux' = aux /\ flag' = flag
  BY SchoolOps DEF School!SquareReturn
<1>2. call.routine = "square_wide" \/ call.routine = "wrapping_square"
  BY <1>1 DEF IInv, CallOK, MulWideInv, WrappingMulInv
<1>3. CASE call.routine = "square_wide"
  <2>1. SquareWideInv'
    BY <1>1, <1>3 DEF IInv, SquareWideInv
  <2> QED
    BY <1>1, <1>3, <2>1, OfOneRoutine
<1>4. CASE call.routine = "wrapping_square"
  <2>1. WrappingSquareInv'
    BY <1>1, <1>4 DEF IInv, WrappingSquareInv
  <2> QED
    BY <1>1, <1>4, <2>1, OfOneRoutine
<1> QED
  BY <1>2, <1>3, <1>4

\* A step that leaves the variables alone.
LEMMA StutterOK ==
    ASSUME IInv, UNCHANGED School!vars
    PROVE  IInv'
<1>1. /\ call' = call /\ out' = out /\ i' = i /\ aux' = aux
      /\ flag' = flag /\ pc' = pc /\ res' = res
  BY DEF School!vars
<1> QED
  BY <1>1 DEF IInv, CallOK, School!IsSquare, MulWideInv, WrappingMulInv, SquareWideInv,
              WrappingSquareInv

\* Every step of Schoolbook keeps the invariant.
LEMMA SchoolStepOK ==
    ASSUME IInv, [School!Next]_(School!vars)
    PROVE  IInv'
<1>1. CASE School!Next
  BY <1>1, MulWideRowOK, WrappingMulRowOK, MulReturnOK, SquareRowOK, DoubleOK, DiagonalOK,
     StartLimbsOK, SquareLimbOK, SquareReturnOK DEF School!Next
<1>2. CASE UNCHANGED School!vars
  BY <1>2, StutterOK
<1> QED
  BY <1>1, <1>2

\* Its part in the invariant of Arith.
SchoolInv == family = "schoolbook" => IInv

\* The invariant is inductive.
THEOREM SchoolInductive == Spec => []SchoolInv
<1>1. Init => SchoolInv
  <2> SUFFICES ASSUME Init, family = "schoolbook" PROVE IInv
    BY DEF SchoolInv
  <2>1. School!Init
    BY DEF Init
  <2> QED
    BY <2>1, InitOK, SchoolAssumption
<1>2. SchoolInv /\ [Next \/ Returned]_vars => SchoolInv'
  <2> SUFFICES ASSUME SchoolInv, [Next \/ Returned]_vars, family' = "schoolbook"
               PROVE  IInv'
    BY DEF SchoolInv
  <2>1. family' = family
    BY DEF Next, Returned, vars
  <2>2. School!Next \/ UNCHANGED School!vars
    BY <2>1 DEF Next, Returned, vars, loop, School!vars
  <2>3. IInv
    BY <2>1 DEF SchoolInv
  <2> QED
    BY <2>2, <2>3, SchoolStepOK
<1> QED
  BY <1>1, <1>2, PTL DEF Spec

----------------------------------------------------------------------------
(* What the invariant says of a call.                                      *)

\* The arguments of a call, the facts about its weights.
LEMMA CallWeights ==
    ASSUME CallOK
    PROVE  /\ call.xn \in 0..(2 * N) /\ call.yn \in 0..(2 * N)
           /\ call.on \in 1..(2 * N) /\ call.on \in 0..(2 * N)
           /\ W[call.on] \in Nat /\ W[call.on] > 0
<1> DEFINE xn == call.xn
           yn == call.yn
           on == call.on
<1>1. /\ N \in Nat /\ xn \in 1..N /\ yn \in 1..N
      /\ on = xn + yn \/ on \in 1..N \/ on \in 1..(2 * xn)
  BY BaseFacts DEF CallOK, School!IsSquare
<1>2. xn \in 0..(2 * N) /\ yn \in 0..(2 * N) /\ on \in 1..(2 * N) /\ on \in 0..(2 * N)
  <2> HIDE DEF xn, yn, on
  <2> QED
    BY <1>1, SMT
<1>3. W[on] \in Nat /\ W[on] > 0
  <2> HIDE DEF on
  <2> QED
    BY <1>2, WeightFacts
<1> QED
  BY <1>2, <1>3

\* Before the result the invariant says what RowsExact does.
LEMMA RowsFromInv ==
    ASSUME IInv
    PROVE  School!RowsExact
<1> DEFINE x == call.x
           y == call.y
           xn == call.xn
           yn == call.yn
           on == call.on
<1> SUFFICES ASSUME pc # "done" PROVE School!RowsExact
  BY SchoolOps DEF School!RowsExact
<1>1. CASE call.routine = "mul_wide"
  <2>1. out = (x % W[i]) * y
    BY <1>1 DEF IInv, MulWideInv
  <2> QED
    BY SchoolOps, <1>1, <2>1 DEF School!RowsExact
<1>2. CASE call.routine = "wrapping_mul_add"
  <2> DEFINE at == Min2(i + yn, on)
  <2>1. /\ at < on => aux <= 1 /\ aux \in Word
        /\ (out + aux * W[at]) % W[on + 1]
             = (call.out + CutRows(x, y, on, i)) % W[on + 1]
    BY <1>2 DEF IInv, WrappingMulInv, PendingAt, Holds
  <2>2. at < on => aux \in {0, 1}
    <3> HIDE DEF at, on
    <3> QED
      BY <2>1, BaseFacts, SMT DEF Word
  <2> QED
    BY SchoolOps, <1>2, <2>1, <2>2 DEF School!RowsExact
<1>3. CASE call.routine = "square_wide"
  <2>1. CASE pc = "rows"
    <3>1. out = CrossRows(x, i)
      BY <1>3, <2>1 DEF IInv, SquareWideInv
    <3> QED
      BY SchoolOps, <1>3, <2>1, <3>1 DEF School!RowsExact
  <2>2. CASE pc = "diagonal"
    <3>1. out + aux * W[2 * i] = 2 * CrossRows(x, xn) + DiagonalSquares(x, 0, i)
      BY <1>3, <2>2 DEF IInv, SquareWideInv
    <3> QED
      BY SchoolOps, <1>3, <2>2, <3>1 DEF School!RowsExact
  <2> QED
    BY <1>3, <2>1, <2>2 DEF IInv, SquareWideInv
<1>4. CASE call.routine = "wrapping_square"
  <2>1. CASE pc = "rows"
    <3>1. out = CrossRows(x, i) % W[on]
      BY <1>4, <2>1 DEF IInv, WrappingSquareInv
    <3> QED
      BY SchoolOps, <1>4, <2>1, <3>1 DEF School!RowsExact
  <2>2. CASE pc # "rows"
    <3> DEFINE t == 2 * (CrossRows(x, xn) % W[on]) + DiagonalSquares(x, 0, xn)
    <3>1. LimbsSquared(x, xn, out, aux + flag, i) = t
      BY <1>4, <2>2 DEF IInv, WrappingSquareInv
    <3>2. x \in Nat /\ xn \in 1..N /\ x < W[xn] /\ on \in 1..(2 * xn)
      BY <1>4 DEF IInv, CallOK, School!IsSquare
    <3>3. t % W[on] = (x * x) % W[on]
      <4> HIDE DEF x, xn, on, t
      <4> QED
        BY <3>2, LimbsSquaredCongruent DEF t
    <3>4. ((out % W[i]) + (aux + flag) * W[i] + 2 * (out - (out % W[i]))
             + DiagonalSquares(x, Min2((i + 1) \div 2, xn), xn)) % W[on]
            = (x * x) % W[on]
      <4> HIDE DEF t
      <4> QED
        BY <3>1, <3>3 DEF LimbsSquared
    <3> QED
      BY SchoolOps, <1>4, <2>2, <3>4 DEF School!RowsExact
  <2> QED
    BY <2>1, <2>2
<1> QED
  BY <1>1, <1>2, <1>3, <1>4 DEF IInv, CallOK

----------------------------------------------------------------------------
(* The results.                                                            *)

\* mul_wide returns the product, and no carry.
LEMMA MulWideResult ==
    ASSUME IInv, pc = "done", call.routine = "mul_wide"
    PROVE  School!ResultCorrect
<1> DEFINE x == call.x
           y == call.y
           xn == call.xn
           yn == call.yn
           on == call.on
           p == x * y
<1>1. /\ xn \in 1..N /\ yn \in 1..N /\ x \in Nat /\ y \in Nat /\ x < W[xn] /\ y < W[yn]
      /\ on = xn + yn /\ call.out = 0 /\ ~School!IsSquare
  BY DEF IInv, CallOK, School!IsSquare
<1>2. res = <<out, 0>> /\ out = (x % W[xn]) * y
  BY DEF IInv, MulWideInv
<1>3. on \in 0..(2 * N) /\ W[on] \in Nat /\ W[on] > 0
  BY CallWeights DEF IInv
<1>4. x % W[xn] = x /\ p \in Nat /\ p < W[on]
  <2>1. x % W[xn] = x /\ x * y \in Nat /\ x * y < W[xn + yn]
    <3> HIDE DEF x, y, xn, yn
    <3> QED
      BY <1>1, FullProduct
  <2> QED
    BY <1>1, <2>1
<1>5. xn \in Nat /\ yn \in Nat /\ xn + yn <= on + 1 /\ xn <= on
  <2> HIDE DEF xn, yn, on
  <2> QED
    BY <1>1, SMT
<1>6. CutRows(x, y, on, xn) = p
  <2>1. CutRows(x, y, on, xn) = (x % W[xn]) * y
    <3> HIDE DEF x, y, xn, yn, on
    <3> QED
      BY <1>1, <1>3, <1>5, CutRowsExact
  <2> QED
    BY <1>4, <2>1
<1>7. CutProduct(x, xn, y, on, call.out) = p /\ call.out + p = p
  <2> HIDE DEF p
  <2>1. 0 + p = p
    BY <1>4, SMT
  <2> QED
    BY <1>1, <1>6, <2>1 DEF CutProduct
<1>8. Split(p, on) = <<p, 0 % B>> /\ p % W[on] = p /\ p \div W[on] = 0
  <2> DEFINE v == W[on]
  <2>1. p = p + 0 * v
    <3>1. p \in Nat /\ v \in Nat
      BY <1>3, <1>4
    <3> HIDE DEF p, v
    <3> QED
      BY <3>1, SMT
  <2>2. p \in Nat /\ p < W[on] /\ p = p + 0 * W[on] /\ 0 \in Nat
    BY <1>4, <2>1
  <2> HIDE DEF p, on
  <2> QED
    BY <1>3, <2>2, SplitIs
<1>9. 0 % B = 0
  BY BaseFacts, SMT
<1>10. res = <<p, 0>>
  BY <1>2, <1>4
<1> QED
  BY SchoolOps, <1>1, <1>7, <1>8, <1>9, <1>10 DEF School!ResultCorrect

\* wrapping_mul_add returns the rows cut off at the end of the buffer, and the
\* carry that leaves it.
LEMMA WrappingMulResult ==
    ASSUME IInv, pc = "done", call.routine = "wrapping_mul_add"
    PROVE  School!ResultCorrect
<1> DEFINE x == call.x
           y == call.y
           xn == call.xn
           yn == call.yn
           on == call.on
           p == x * y
           f == CutRows(x, y, on, xn)
           z0 == call.out
           s == z0 + f
           v == W[on]
<1>1. /\ xn \in 1..N /\ yn \in 1..N /\ x \in Nat /\ y \in Nat /\ x < W[xn] /\ y < W[yn]
      /\ on \in 1..N /\ on <= xn + yn /\ z0 \in Nat /\ z0 < v /\ ~School!IsSquare
  BY DEF IInv, CallOK, School!IsSquare
<1>2. /\ res = <<out, aux>> /\ i = xn /\ out \in Nat /\ out < v /\ aux \in Word
      /\ Holds(out, aux, PendingAt(yn, on, xn), s, on)
  BY DEF IInv, WrappingMulInv
<1>3. on \in 0..(2 * N) /\ v \in Nat /\ v > 0 /\ xn \in 0..(2 * N)
  BY CallWeights DEF IInv
<1>4. /\ PendingAt(yn, on, xn) = on /\ on \in 0..(2 * N - 1) /\ on \in Nat /\ N \in Nat
      /\ xn \in Nat /\ yn \in Nat /\ B \in Nat /\ B >= 2
      /\ on = xn + yn => xn + yn <= on + 1 /\ xn <= on
  <2> HIDE DEF xn, yn, on
  <2> QED
    BY <1>1, BaseFacts, SMT DEF PendingAt, Min2
<1>5. f \in Nat
  <2> HIDE DEF x, y, xn, on
  <2> QED
    BY <1>1, <1>3, CutRowsSteps DEF f
<1>6. s \in Nat /\ CutProduct(x, xn, y, on, z0) = s
  <2> HIDE DEF f
  <2>1. s \in Nat
    BY <1>1, <1>5, SMT
  <2> QED
    BY <2>1 DEF CutProduct, f
<1>7. Split(s, on) = res
  <2>1. Holds(out, aux, on, s, on)
    BY <1>2, <1>4
  <2>2. Split(s, on) = <<out, aux>>
    <3>1. out \in Nat /\ aux \in Word /\ s \in Nat /\ on \in 0..(2 * N - 1)
      BY <1>2, <1>4, <1>6
    <3>2. out < W[on]
      BY <1>2
    <3> HIDE DEF s, on
    <3> QED
      BY <2>1, <3>1, <3>2, HoldsAtEnd
  <2> QED
    BY <1>2, <2>2
<1>8. res[1] = s % v /\ res[2] = (s \div v) % B
  BY <1>7 DEF Split
<1>9. x % W[xn] = x /\ p \in Nat /\ p < W[xn + yn]
  <2> HIDE DEF x, y, xn, yn
  <2> QED
    BY <1>1, FullProduct DEF p
<1>10. s % v = (z0 + p) % v
  <2>1. Congruent(p, f, v)
    <3>1. Congruent((x % W[xn]) * y, CutRows(x, y, on, xn), W[on])
      <4> HIDE DEF x, y, xn, on
      <4> QED
        BY <1>1, <1>3, CutRowsCongruent
    <3> QED
      BY <1>9, <3>1
  <2> HIDE DEF f, p, v, z0
  <2>2. p \in Int /\ f \in Int /\ z0 \in Int
    BY <1>1, <1>5, <1>9
  <2>3. p % v = f % v
    BY <1>3, <2>1, <2>2, CongruentResidue
  <2>4. (p + z0) % v = (f + z0) % v
    BY <1>3, <2>2, <2>3, AddCongruent, SMTT(30)
  <2>5. p + z0 = z0 + p /\ f + z0 = z0 + f
    BY <2>2, SMT
  <2> QED
    BY <2>4, <2>5
<1>11. ASSUME on = xn + yn PROVE res[2] = (z0 + p) \div v
  <2>1. f = p
    <3>1. CutRows(x, y, on, xn) = (x % W[xn]) * y
      <4>1. xn + yn <= on + 1 /\ xn <= on
        BY <1>4, <1>11
      <4> HIDE DEF x, y, xn, yn, on
      <4> QED
        BY <1>1, <1>3, <1>4, <4>1, CutRowsExact
    <3> QED
      BY <1>9, <3>1
  <2>2. p < v
    BY <1>9, <1>11
  <2> HIDE DEF f, p, v, z0
  <2> DEFINE t == z0 + p
             q == t \div v
  <2>3. t \in Nat /\ t < 2 * v
    BY <1>1, <1>3, <1>9, <2>2, SMT
  <2>4. q \in 0..1
    <3> HIDE DEF t
    <3> QED
      BY <1>3, <2>3, SMT
  <2>5. q % B = q
    <3> HIDE DEF q
    <3> QED
      BY <1>4, <2>4, SMT
  <2> QED
    BY <1>8, <2>1, <2>5
<1> QED
  <2> HIDE DEF v, p
  <2>1. Split(CutProduct(x, xn, y, on, z0), on) = res
    BY <1>6, <1>7
  <2>2. res[1] = (z0 + p) % v
    BY <1>8, <1>10
  <2> QED
    BY SchoolOps, <1>1, <1>11, <2>1, <2>2 DEF School!ResultCorrect, v, p

\* square_wide returns the square.
LEMMA SquareWideResult ==
    ASSUME IInv, pc = "done", call.routine = "square_wide"
    PROVE  School!ResultCorrect
<1> DEFINE x == call.x
           n == call.xn
           on == call.on
           p == x * x
           v == W[on]
<1>1. /\ n \in 1..N /\ call.yn = n /\ x \in Nat /\ x < W[n]
      /\ on = 2 * n /\ on \in 1..(2 * n) /\ call.out = 0 /\ School!IsSquare
  BY DEF IInv, CallOK, School!IsSquare
<1>2. /\ i = n /\ flag = 0 /\ aux \in Nat /\ aux <= 1 /\ out \in Nat
      /\ res = <<out, wrapping_add(aux, flag)>>
      /\ out + aux * W[2 * i] = 2 * CrossRows(x, n) + DiagonalSquares(x, 0, i)
  BY DEF IInv, SquareWideInv
<1>3. on \in 0..(2 * N) /\ v \in Nat /\ v > 0
  BY CallWeights DEF IInv
<1>4. n + n = on /\ n \in 0..N /\ B \in Nat /\ B >= 2 /\ 0 % B = 0
  <2>1. N \in Nat /\ B \in Nat /\ B >= 2 /\ 0 % B = 0
    BY BaseFacts, SMT
  <2> HIDE DEF n, on
  <2> QED
    BY <1>1, <2>1, SMT
<1>5. x % W[n] = x /\ p \in Nat /\ p < v
  <2>1. x % W[n] = x /\ x * x \in Nat /\ x * x < W[n + n]
    <3> HIDE DEF x, n
    <3> QED
      BY <1>1, FullProduct
  <2> QED
    BY <1>4, <2>1
<1>6. out + aux * v = p
  <2>1. 2 * CrossRows(x, n) + DiagonalSquares(x, 0, n) = (x % W[n]) * (x % W[n])
    <3> HIDE DEF x, n
    <3> QED
      BY <1>1, <1>4, SquareSplits
  <2>2. W[2 * i] = v
    BY <1>1, <1>2
  <2> QED
    BY <1>2, <1>5, <2>1, <2>2
<1>7. aux = 0 /\ out = p
  <2> HIDE DEF p, v
  <2>1. aux = 0
    <3>1. aux = 0 \/ aux = 1
      BY <1>2, SMT
    <3>2. ASSUME aux = 1 PROVE FALSE
      <4>1. 1 * v = v
        BY <1>3, SMT
      <4>2. out + v = p
        BY <1>6, <3>2, <4>1
      <4> QED
        BY <1>2, <1>3, <1>5, <4>2, SMT
    <3> QED
      BY <3>1, <3>2
  <2>2. 0 * v = 0
    BY <1>3, SMT
  <2>3. out + 0 = p
    BY <1>6, <2>1, <2>2
  <2> QED
    BY <1>2, <1>5, <2>1, <2>3, SMT
<1>8. res = <<p, 0>>
  <2>1. wrapping_add(0, 0) = 0
    BY <1>4 DEF wrapping_add
  <2> QED
    BY <1>2, <1>7, <2>1
<1>9. CutSquare(x, n, on) = p /\ 0 + p = p
  <2>1. CutSquare(x, n, on) = x * x
    <3> HIDE DEF x, n, on
    <3> QED
      BY <1>1, CutSquareIs
  <2>2. 0 + p = p
    <3> HIDE DEF p
    <3> QED
      BY <1>5, SMT
  <2> QED
    BY <2>1, <2>2
<1>10. Split(p, on) = <<p, 0 % B>> /\ p % W[on] = p /\ p \div W[on] = 0
  <2>1. p = p + 0 * v
    <3> HIDE DEF p, v
    <3> QED
      BY <1>3, <1>5, SMT
  <2>2. p \in Nat /\ p < W[on] /\ p = p + 0 * W[on] /\ 0 \in Nat
    BY <1>5, <2>1
  <2> HIDE DEF p, on
  <2> QED
    BY <1>3, <2>2, SplitIs
<1> QED
  BY SchoolOps, <1>1, <1>4, <1>8, <1>9, <1>10 DEF School!ResultCorrect

\* wrapping_square returns the square cut off at the end of the buffer, and the
\* carry that leaves it.
LEMMA WrappingSquareResult ==
    ASSUME IInv, pc = "done", call.routine = "wrapping_square"
    PROVE  School!ResultCorrect
<1> DEFINE x == call.x
           n == call.xn
           on == call.on
           p == x * x
           v == W[on]
           q == aux + flag
           s == CutSquare(x, n, on)
<1>1. /\ n \in 1..N /\ call.yn = n /\ x \in Nat /\ x < W[n]
      /\ on \in 1..(2 * n) /\ call.out = 0 /\ School!IsSquare
  BY DEF IInv, CallOK, School!IsSquare
<1>2. /\ i = on /\ flag \in Nat /\ aux \in Word /\ out \in Nat /\ out < v
      /\ res = <<out, wrapping_add(aux, flag)>>
      /\ LimbsSquared(x, n, out, q, i) = 2 * (CrossRows(x, n) % v) + DiagonalSquares(x, 0, n)
  BY DEF IInv, WrappingSquareInv
<1>3. on \in 0..(2 * N) /\ v \in Nat /\ v > 0
  BY CallWeights DEF IInv
<1>4. q \in Nat /\ B \in Nat /\ B >= 2
  <2>1. B \in Nat /\ B >= 2
    BY BaseFacts
  <2> QED
    BY <1>2, <2>1, SMT DEF Word
<1>5. s = out + q * v
  <2>1. /\ x \in Nat /\ n \in 1..N /\ on \in 1..(2 * n) /\ out \in Nat /\ q \in Nat
    BY <1>1, <1>2, <1>4
  <2>2. out < W[on]
    BY <1>2
  <2>3. LimbsSquared(x, n, out, q, on)
          = 2 * (CrossRows(x, n) % W[on]) + DiagonalSquares(x, 0, n)
    BY <1>2
  <2> HIDE DEF x, n, on, q
  <2>4. CutSquare(x, n, on) = out + q * W[on]
    BY <2>1, <2>2, <2>3, LimbsSquaredAtEnd
  <2> QED
    BY <2>4
<1>6. Split(s, on) = <<out, q % B>> /\ s % v = out /\ s \div v = q
  <2>1. out \in Nat /\ q \in Nat /\ on \in 0..(2 * N) /\ s = out + q * W[on]
    BY <1>2, <1>3, <1>4, <1>5
  <2>2. out < W[on]
    BY <1>2
  <2> HIDE DEF s, q, on
  <2> QED
    BY <2>1, <2>2, SplitIs DEF v
<1>7. res = Split(s, on) /\ res[1] = out /\ res[2] = q % B
  BY <1>2, <1>6 DEF wrapping_add
<1>8. x % W[n] = x /\ p \in Nat /\ p < W[n + n]
  <2> HIDE DEF x, n
  <2> QED
    BY <1>1, FullProduct DEF p
<1>9. 0 + p = p
  <2> HIDE DEF p
  <2> QED
    BY <1>8, SMT
<1>10. s \in Nat /\ Congruent(p, s, v) /\ (on = 2 * n => s = p)
  <2> HIDE DEF x, n, on
  <2> QED
    BY <1>1, CutSquareIs DEF s, p, v
<1>11. out = (0 + p) % v
  <2> HIDE DEF p, s, v
  <2>1. p \in Int /\ s \in Int
    BY <1>8, <1>10
  <2>2. p % v = s % v
    BY <1>3, <1>10, <2>1, CongruentResidue
  <2> QED
    BY <1>6, <1>9, <2>2
<1>12. ASSUME on = n + n PROVE res[2] = (0 + p) \div v
  <2>1. on = 2 * n
    <3> HIDE DEF n, on
    <3> QED
      BY <1>1, <1>12, SMT
  <2>2. s = p /\ p < v
    BY <1>8, <1>10, <1>12, <2>1
  <2>3. q = 0
    <3>1. p \div v = 0
      <4> HIDE DEF p, v
      <4> QED
        BY <1>3, <1>8, <2>2, SMT
    <3> HIDE DEF q, s, v, p
    <3> QED
      BY <1>6, <2>2, <3>1
  <2>4. 0 % B = 0
    BY <1>4, SMT
  <2> HIDE DEF q, s, v, p
  <2> QED
    BY <1>6, <1>7, <1>9, <2>2, <2>3, <2>4
<1> QED
  <2>1. res = Split(s, on) /\ res[1] = (0 + p) % v
    BY <1>7, <1>11
  <2> QED
    BY SchoolOps, <1>1, <1>12, <2>1 DEF School!ResultCorrect

\* The routines return what is said of them.
LEMMA ResultFromInv ==
    ASSUME IInv
    PROVE  School!ResultCorrect
<1> SUFFICES ASSUME pc = "done" PROVE School!ResultCorrect
  BY SchoolOps DEF School!ResultCorrect
<1> QED
  BY MulWideResult, WrappingMulResult, SquareWideResult, WrappingSquareResult
     DEF IInv, CallOK

\* After every row of mul_wide, wrapping_mul_add, square_wide and
\* wrapping_square the buffer and the carry hold the rows done so far, whatever
\* the word size, the numbers of limbs and the length of the buffer.
THEOREM SchoolRowsExact == Spec => [](family = "schoolbook" => School!RowsExact)
<1>1. Spec => []SchoolInv
  BY SchoolInductive
<1>2. SchoolInv => (family = "schoolbook" => School!RowsExact)
  BY RowsFromInv DEF SchoolInv
<1> QED
  BY <1>1, <1>2, PTL

\* The four routines return the product or the square modulo the buffer, and
\* all of it where the buffer is long enough.
THEOREM SchoolResultCorrect == Spec => [](family = "schoolbook" => School!ResultCorrect)
<1>1. Spec => []SchoolInv
  BY SchoolInductive
<1>2. SchoolInv => (family = "schoolbook" => School!ResultCorrect)
  BY ResultFromInv DEF SchoolInv
<1> QED
  BY <1>1, <1>2, PTL

----------------------------------------------------------------------------
(* The quotient estimates of long division.                                *)

\* One word less another, that is at most one too large.
LEMMA WrapSub ==
    ASSUME NEW a \in Word, NEW b \in Word
    PROVE  Div!wrapping_sub(a, b) = IF a >= b THEN a - b ELSE a - b + B
<1>1. Div!wrapping_sub(a, b) = (a - b) % B
  BY DEF Div!wrapping_sub, Div!B, B
<1>2. B \in Nat /\ B >= 2
  BY BaseFacts
<1>3. CASE a >= b
  <2>1. a - b \in Word /\ a - b \in Int /\ a - b = B * 0 + (a - b)
    BY <1>2, <1>3, SMT DEF Word
  <2>2. (a - b) % B = a - b
    BY <2>1, WrapIs
  <2> QED
    BY <1>1, <1>3, <2>2
<1>4. CASE ~(a >= b)
  <2>1. a - b + B \in Word /\ a - b \in Int /\ a - b = B * (-1) + (a - b + B)
    BY <1>2, <1>4, SMT DEF Word
  <2>2. (a - b) % B = a - b + B
    BY <2>1, WrapIs
  <2> QED
    BY <1>1, <1>4, <2>2
<1> QED
  BY <1>3, <1>4

\* wrapping_add of two words, without the remainder.
LEMMA WrapAdd ==
    ASSUME NEW a \in Word, NEW b \in Word
    PROVE  Div!wrapping_add(a, b) = IF a + b < B THEN a + b ELSE a + b - B
<1>1. Div!wrapping_add(a, b) = (a + b) % B
  BY DEF Div!wrapping_add, Div!B, B
<1>2. B \in Nat /\ B >= 2
  BY BaseFacts
<1>3. CASE a + b < B
  <2>1. a + b \in Word /\ a + b \in Int /\ a + b = B * 0 + (a + b)
    BY <1>2, <1>3, SMT DEF Word
  <2>2. (a + b) % B = a + b
    BY <2>1, WrapIs
  <2> QED
    BY <1>1, <1>3, <2>2
<1>4. CASE ~(a + b < B)
  <2>1. a + b - B \in Word /\ a + b \in Int /\ a + b = B * 1 + (a + b - B)
    BY <1>2, <1>4, SMT DEF Word
  <2>2. (a + b) % B = a + b - B
    BY <2>1, WrapIs
  <2> QED
    BY <1>1, <1>4, <2>2
<1> QED
  BY <1>3, <1>4

\* The reciprocal of a normalized word is a word: with the base added, the
\* largest multiplier that keeps the word below the square of the base.
LEMMA ReciprocalIs ==
    ASSUME NEW d \in Word, 2 * d >= B, NEW v, v = Div!reciprocal(d)
    PROVE  /\ v \in Word
           /\ (v + B) * d < B * B
           /\ B * B <= (v + B) * d + d
<1> DEFINE s == B * B
           q == (s - 1) \div d
           r == (s - 1) % d
<1>1. B \in Nat /\ B >= 2 /\ d \in Nat /\ d > 0 /\ d < B /\ s \in Nat /\ s - 1 \in Int
  BY BaseFacts, SMT DEF Word
<1>2. s >= 1 /\ s = B * B
  BY <1>1, SMT
<1>3. v = q - B
  BY DEF Div!reciprocal, Div!B, B
<1> HIDE DEF s
<1>4. q \in Int /\ r \in Nat /\ r < d /\ s - 1 = d * q + r
  BY <1>1, DivMod
<1> HIDE DEF q, r
<1>5. d * q < s /\ s <= d * q + d
  BY <1>1, <1>4, SMT
<1>6. q >= B
  <2> SUFFICES ASSUME q + 1 <= B PROVE FALSE
    BY <1>1, <1>4, SMT
  <2>1. d * (q + 1) <= d * B
    BY <1>1, <1>4, Monotone
  <2>2. d * B < B * B
    BY <1>1, SMT
  <2>3. d * (q + 1) = d * q + d
    BY <1>1, <1>4, SMT
  <2> HIDE DEF s
  <2> QED
    BY <2>1, <2>2, <2>3, <1>1, <1>2, <1>4, <1>5, SMT
<1>7. q < 2 * B
  <2> SUFFICES ASSUME 2 * B <= q PROVE FALSE
    BY <1>1, <1>4, SMT
  <2>1. d * (2 * B) <= d * q
    BY <1>1, <1>4, Monotone
  <2>2. d * (2 * B) = B * (2 * d)
    BY <1>1, SMT
  <2>3. B * B <= B * (2 * d)
    BY <1>1, Monotone
  <2> QED
    BY <2>1, <2>2, <2>3, <1>1, <1>2, <1>4, <1>5, SMT
<1>8. v \in Word
  BY <1>1, <1>3, <1>4, <1>6, <1>7, SMT DEF Word
<1>9. (v + B) * d = d * q
  <2>1. v + B = q
    BY <1>1, <1>3, <1>4, SMT
  <2> QED
    BY <2>1, <1>1, <1>4, SMT
<1> QED
  BY <1>2, <1>5, <1>8, <1>9

\* Algorithm 6 gives the reciprocal of two words, the higher of them normalized:
\* of the numbers (v + B) * d, with d the two words, the last below B cubed.
LEMMA ReciprocalOfTwo ==
    ASSUME NEW d0 \in Word, NEW d1 \in Word, 2 * d1 >= B,
           NEW divisor, divisor.reciprocal = Div!reciprocal(d1),
           NEW v, v = Div!reciprocal_3by2(divisor, d0, d1)
    PROVE  /\ v \in Word
           /\ (v + B) * (d0 + d1 * B) < B * B * B
           /\ B * B * B <= (v + B) * (d0 + d1 * B) + (d0 + d1 * B)
<1> DEFINE v0 == Div!reciprocal(d1)
           s  == B * B
           d  == d0 + d1 * B
           P0 == (v0 + B) * d1
           e  == s - P0
<1>1. B \in Nat /\ B >= 2 /\ d0 \in Nat /\ d0 < B /\ d1 \in Nat /\ d1 > 0 /\ d1 < B
  BY BaseFacts, SMT DEF Word
<1>2. v0 \in Word /\ P0 < s /\ s <= P0 + d1
  BY ReciprocalIs
<1>3. v0 \in Nat /\ v0 < B
  BY <1>1, <1>2, SMT DEF Word
<1> HIDE DEF v0
<1>4. P0 \in Nat /\ s \in Nat /\ d \in Nat
  BY <1>1, <1>3, SMT
<1>5. e \in Nat /\ e >= 1 /\ e <= d1
  <2> HIDE DEF P0, s
  <2> QED
    BY <1>1, <1>2, <1>4, SMT
<1>6. Div!wrapping_mul(d1, v0) = B - e
  <2>1. Div!wrapping_mul(d1, v0) = (d1 * v0) % B
    BY DEF Div!wrapping_mul, Div!B, B
  <2>2. d1 * v0 = B * (B - d1 - 1) + (B - e)
    BY <1>1, <1>3, SMT
  <2>3. d1 * v0 \in Int /\ B - d1 - 1 \in Int
    BY <1>1, <1>3, SMT
  <2>4. B - e \in Word
    <3> HIDE DEF e
    <3> QED
      BY <1>1, <1>5, SMT DEF Word
  <2> HIDE DEF e
  <2> QED
    BY <2>1, <2>2, <2>3, <2>4, WrapIs
<1> DEFINE lt == d0 >= e
           p0 == IF lt THEN d0 - e ELSE d0 - e + B
<1>7. Div!wrapping_add(Div!wrapping_mul(d1, v0), d0) = p0
  <2> HIDE DEF e
  <2>1. B - e \in Word
    BY <1>1, <1>5, SMT DEF Word
  <2>2. Div!wrapping_add(B - e, d0) = IF (B - e) + d0 < B THEN (B - e) + d0 ELSE (B - e) + d0 - B
    BY <2>1, WrapAdd
  <2> QED
    BY <2>2, <1>1, <1>5, <1>6, SMT
<1> HIDE DEF e
<1>8. p0 \in Word /\ (p0 < d0 <=> lt)
  BY <1>1, <1>5, SMT DEF Word
<1> DEFINE ge == d1 <= p0 /\ lt
           g  == (IF lt THEN 1 ELSE 0) + (IF ge THEN 1 ELSE 0)
           p1 == B - e + d0 - (IF lt THEN d1 ELSE 0) - (IF ge THEN d1 ELSE 0)
           v1 == v0 - g
<1>9. p1 \in Word /\ p1 + d1 >= B /\ g \in Nat /\ g <= 2
  BY <1>1, <1>5, SMT DEF Word
<1> DEFINE P1 == (v1 + B) * d1 + d0
<1>10. P1 = s - B + p1
  <2>1. /\ g = 0 => p1 = B - e + d0
        /\ g = 1 => p1 = B - e + d0 - d1
        /\ g = 2 => p1 = B - e + d0 - d1 - d1
    BY <1>1, <1>5, SMT
  <2>2. p1 = B - e + d0 - g * d1
    <3> HIDE DEF p1, g
    <3> QED
      BY <2>1, <1>1, <1>5, <1>9, SMT
  <2>3. P1 = P0 - g * d1 + d0
    <3> HIDE DEF g
    <3> QED
      BY <1>1, <1>3, <1>9, SMT
  <2>4. e = s - P0
    BY DEF e
  <2> HIDE DEF P1, P0, s, p1, g
  <2> QED
    BY <2>2, <2>3, <2>4, <1>1, <1>4, <1>5, <1>9, SMT
<1>11. v1 >= 0 /\ v1 \in Word
  <2>1. v1 \in Int /\ v1 <= v0
    BY <1>3, <1>9, SMT
  <2>2. SUFFICES ASSUME v1 < 0 PROVE FALSE
    BY <1>1, <1>3, <2>1, SMT DEF Word
  <2>3. (v1 + B + 1) * d1 <= B * d1
    <3> HIDE DEF v1
    <3>1. v1 + B + 1 \in Int /\ v1 + B + 1 <= B
      BY <1>1, <2>1, <2>2, SMT
    <3>2. d1 * (v1 + B + 1) <= d1 * B
      BY <3>1, <1>1, Monotone
    <3> QED
      BY <3>1, <3>2, <1>1, SMT
  <2>4. (v1 + B + 1) * d1 + d0 = P1 + d1
    <3> HIDE DEF v1
    <3> QED
      BY <1>1, <2>1, SMT
  <2>5. B * d1 <= B * (B - 1)
    BY <1>1, Monotone, SMT
  <2>6. B * (B - 1) = s - B /\ (v1 + B + 1) * d1 \in Int /\ B * d1 \in Int /\ P1 \in Int
    <3> HIDE DEF v1
    <3> QED
      BY <1>1, <2>1, SMT
  <2>7. p1 \in Nat
    BY <1>9 DEF Word
  <2> HIDE DEF P1, s, p1, v1
  <2> QED
    BY <2>3, <2>4, <2>5, <2>6, <2>7, <1>1, <1>4, <1>9, <1>10, SMT
<1>12. Div!wrapping_sub(Div!wrapping_sub(v0, IF lt THEN 1 ELSE 0), IF ge THEN 1 ELSE 0) = v1
  <2>2. ge => lt
    OBVIOUS
  <2>3. v0 - (IF lt THEN 1 ELSE 0) \in Word /\ (IF lt THEN 1 ELSE 0) \in Word
        /\ (IF ge THEN 1 ELSE 0) \in Word
    <3> HIDE DEF lt, ge
    <3> QED
      BY <1>1, <1>3, <1>11, <2>2, SMT DEF Word
  <2>4. Div!wrapping_sub(v0, IF lt THEN 1 ELSE 0) = v0 - (IF lt THEN 1 ELSE 0)
    <3> HIDE DEF lt, ge
    <3> QED
      BY <2>3, <1>1, <1>2, <1>3, WrapSub, SMT DEF Word
  <2>5. Div!wrapping_sub(v0 - (IF lt THEN 1 ELSE 0), IF ge THEN 1 ELSE 0) = v1
    <3> DEFINE a == v0 - (IF lt THEN 1 ELSE 0)
               b == IF ge THEN 1 ELSE 0
    <3>1. a - b = v1 /\ a >= b
      BY <1>1, <1>3, <1>11, SMT
    <3>2. a \in Word /\ b \in Word
      BY <2>3
    <3> HIDE DEF a, b, v1
    <3>3. Div!wrapping_sub(a, b) = v1
      BY <3>1, <3>2, WrapSub
    <3> QED
      BY <3>3 DEF a, b
  <2> HIDE DEF lt, ge, v1
  <2> QED
    BY <2>4, <2>5
<1>13. Div!wrapping_sub(Div!wrapping_sub(p0, IF ge THEN d1 ELSE 0), IF lt THEN d1 ELSE 0) = p1
  <2> DEFINE a == IF ge THEN d1 ELSE 0
             b == IF lt THEN d1 ELSE 0
             c == p0 - a
  <2>2. a \in Word /\ b \in Word /\ c \in Word /\ p0 >= a
    BY <1>1, <1>5, <1>8, SMT DEF Word
  <2>3. Div!wrapping_sub(p0, a) = c
    <3> HIDE DEF a, b, p0
    <3> QED
      BY <2>2, <1>8, WrapSub
  <2>4. p1 = IF c >= b THEN c - b ELSE c - b + B
    BY <1>1, <1>5, <1>9, SMT DEF Word
  <2>5. Div!wrapping_sub(c, b) = p1
    <3> HIDE DEF a, b, p0, c, p1
    <3> QED
      BY <2>2, <2>4, WrapSub
  <2> HIDE DEF p0, c, p1, lt, ge
  <2> QED
    BY <2>3, <2>5
<1> HIDE DEF g, P1
<1> DEFINE m  == v1 * d0
           t0 == m % B
           t1 == m \div B
           p  == IF p1 + t1 < B THEN p1 + t1 ELSE p1 + t1 - B
           c1 == p1 + t1 >= B
           c2 == d <= t0 + p * B /\ c1
           w  == v1 - (IF c1 THEN 1 ELSE 0) - (IF c2 THEN 1 ELSE 0)
<1>14. m \in Nat /\ t0 \in Nat /\ t0 < B /\ t1 \in Nat /\ t1 < B /\ m = B * t1 + t0
  <2>1. v1 \in Nat /\ v1 < B
    BY <1>1, <1>11 DEF Word
  <2> HIDE DEF v1
  <2>2. m \in Nat /\ v1 * d0 <= v1 * B /\ B * v1 <= B * (B - 1)
    BY <2>1, <1>1, Monotone, SMT
  <2>3. m < B * B
    BY <2>1, <2>2, <1>1, SMT
  <2> HIDE DEF m
  <2>4. t0 \in Nat /\ t0 < B /\ t1 \in Nat /\ m = B * t1 + t0
    BY <2>2, <1>1, DivMod
  <2> HIDE DEF t0, t1
  <2>5. t1 < B
    <3>1. B * t1 < B * B
      BY <2>3, <2>4, <1>1, SMT
    <3> QED
      BY <3>1, <2>4, <1>1, Cancel
  <2> QED
    BY <2>2, <2>4, <2>5
<1>15. p \in Word /\ t0 \in Word /\ t1 \in Word /\ (p < t1 <=> c1)
  <2>1. p1 \in Nat /\ p1 < B
    BY <1>1, <1>9 DEF Word
  <2> HIDE DEF t0, t1, p1
  <2> QED
    BY <2>1, <1>1, <1>14, SMT DEF Word
<1>16. v = Div!wrapping_sub(Div!wrapping_sub(v1, IF c1 THEN 1 ELSE 0), IF c2 THEN 1 ELSE 0)
  <2>1. Div!widening_mul(v1, d0) = <<t0, t1>>
    BY DEF Div!widening_mul, Div!Lo, Div!Hi, Div!B, B
  <2>2. Div!wrapping_add(p1, t1) = p
    <3> HIDE DEF t1, p1
    <3> QED
      BY <1>9, <1>15, WrapAdd
  <2>3. Div!join(d0, d1) = d /\ Div!join(t0, p) = t0 + p * B
    BY DEF Div!join, Div!B, B
  <2>4. v0 = divisor.reciprocal
    BY DEF v0
  <2>5. (IF p0 < d0 THEN 1 ELSE 0) = (IF lt THEN 1 ELSE 0)
        /\ (IF p0 < d0 THEN d1 ELSE 0) = (IF lt THEN d1 ELSE 0)
        /\ (IF d1 <= p0 /\ p0 < d0 THEN 1 ELSE 0) = (IF ge THEN 1 ELSE 0)
        /\ (IF d1 <= p0 /\ p0 < d0 THEN d1 ELSE 0) = (IF ge THEN d1 ELSE 0)
    <3> HIDE DEF p0, lt
    <3> QED
      BY <1>8
  <2>6. (IF p < t1 THEN 1 ELSE 0) = (IF c1 THEN 1 ELSE 0)
        /\ (IF d <= t0 + p * B /\ p < t1 THEN 1 ELSE 0) = (IF c2 THEN 1 ELSE 0)
    <3> HIDE DEF p, c1, t0, t1, d
    <3> QED
      BY <1>15
  <2> HIDE DEF v1, p1, t0, t1, p, p0, c1, c2, m, d, lt, ge
  <2> QED
    BY <2>1, <2>2, <2>3, <2>4, <2>5, <2>6, <1>7, <1>12, <1>13
       DEF Div!reciprocal_3by2, Div!Masked
<1> DEFINE Q == (v1 + B) * d
           z == B * (p1 + t1) + t0
<1>17. Q = B * s - s + z
  <2>1. Q = B * P1 + m
    <3>1. P1 = (v1 + B) * d1 + d0
      BY DEF P1
    <3>2. v1 \in Int
      BY <1>1, <1>11 DEF Word
    <3> HIDE DEF v1
    <3> QED
      BY <3>1, <3>2, <1>1, SMT
  <2>2. B * P1 = B * s - s + B * p1
    <3>1. p1 \in Int
      BY <1>1, <1>9 DEF Word
    <3> HIDE DEF p1
    <3> QED
      BY <3>1, <1>1, <1>10, SMT
  <2>3. p1 \in Int
    BY <1>1, <1>9 DEF Word
  <2>4. z = B * p1 + B * t1 + t0
    <3> HIDE DEF p1, t0, t1
    <3> QED
      BY <2>3, <1>1, <1>14, SMT
  <2>5. B * p1 \in Int /\ B * t1 \in Int /\ B * s \in Int /\ B * P1 \in Int
    <3> HIDE DEF p1, t0, t1, s
    <3> QED
      BY <2>3, <1>1, <1>4, <1>10, <1>14, SMT
  <2> HIDE DEF Q, m, s, z, p1, t0, t1
  <2> QED
    BY <2>1, <2>2, <2>4, <2>5, <1>1, <1>4, <1>14, SMT
<1>18. z + d >= s
  <2>1. p1 \in Nat /\ p1 < B
    BY <1>1, <1>9 DEF Word
  <2> HIDE DEF p1, t0, t1
  <2>2. B * B <= B * (p1 + d1)
    BY <2>1, <1>1, <1>9, Monotone
  <2>3. B * (p1 + d1) = B * p1 + B * d1 /\ z = B * p1 + B * t1 + t0 /\ d = d0 + B * d1
        /\ B * t1 \in Nat
    BY <2>1, <1>1, <1>14, SMT
  <2> QED
    BY <2>2, <2>3, <2>1, <1>1, <1>14, SMT
<1>19. 2 * d >= s /\ d < s
  <2>1. B * B <= B * (2 * d1) /\ B * d1 <= B * (B - 1)
    BY <1>1, Monotone
  <2> QED
    BY <2>1, <1>1, SMT
<1> DEFINE y == t0 + p * B
<1>20. /\ ~c1 => y = z /\ y < s
       /\ c1 => y = z - s /\ y < s /\ y >= 0
  <2>1. p1 \in Nat /\ p1 < B /\ p \in Nat /\ p < B
    BY <1>1, <1>9, <1>15 DEF Word
  <2>2. p + 1 <= B
    BY <2>1, <1>1, SMT
  <2>3. B * (p + 1) <= B * B
    BY <2>1, <2>2, <1>1, Monotone
  <2>4. (~c1 => p = p1 + t1) /\ (c1 => p = p1 + t1 - B)
    <3> HIDE DEF p1, t1
    <3> QED
      BY <2>1, <1>1, <1>14, SMT
  <2> HIDE DEF p1, t0, t1, p, c1
  <2>5. y < s /\ y >= 0
    BY <2>1, <2>3, <1>1, <1>14, SMT
  <2>6. ASSUME ~c1 PROVE y = z
    BY <2>1, <2>4, <2>6, <1>1, <1>14, SMT
  <2>7. ASSUME c1 PROVE y = z - s
    BY <2>1, <2>4, <2>7, <1>1, <1>14, SMT
  <2> QED
    BY <2>5, <2>6, <2>7
<1>21. (w + B) * d < B * s /\ B * s <= (w + B) * d + d
  <2>1. /\ v1 \in Int /\ B * s \in Int /\ Q \in Int /\ z \in Int
    <3>1. v1 \in Int /\ p1 \in Int
      BY <1>1, <1>9, <1>11 DEF Word
    <3> HIDE DEF v1, p1, t0, t1
    <3> QED
      BY <3>1, <1>1, <1>14, SMT
  <2>2. (~c1 => w = v1) /\ (c1 /\ ~c2 => w = v1 - 1) /\ (c2 => w = v1 - 2 /\ c1)
    <3> HIDE DEF v1
    <3> QED
      BY <2>1, SMT
  <2>3. c2 <=> d <= y /\ c1
    OBVIOUS
  <2>4. /\ (v1 + B) * d = Q
        /\ (v1 - 1 + B) * d = Q - d
        /\ (v1 - 2 + B) * d = Q - d - d
    <3> HIDE DEF v1, d
    <3> QED
      BY <2>1, <1>1, <1>4, SMT
  <2> HIDE DEF w, Q, z, y, c1, c2, d, s, v1
  <2> QED
    BY <2>1, <2>2, <2>3, <2>4, <1>1, <1>4, <1>17, <1>18, <1>19, <1>20, SMT
<1>22. w \in Word
  <2>1. v1 \in Nat /\ v1 < B
    BY <1>1, <1>11 DEF Word
  <2>2. w \in Int /\ w <= v1
    <3> HIDE DEF v1
    <3> QED
      BY <2>1, SMT
  <2> HIDE DEF w, v1
  <2>3. w >= 0
    <3> SUFFICES ASSUME w + B + 1 <= B PROVE FALSE
      BY <2>2, <1>1, SMT
    <3>1. d * (w + B + 1) <= d * B
      BY <2>2, <1>1, <1>4, Monotone
    <3>2. d * (w + B + 1) = (w + B) * d + d
      <4> HIDE DEF d
      <4> QED
        BY <2>2, <1>1, <1>4, SMT
    <3>3. B * (d + 1) <= B * s /\ B * (d + 1) = d * B + B
      <4>1. d + 1 <= s
        BY <1>4, <1>19, SMT
      <4> HIDE DEF d, s
      <4> QED
        BY <4>1, <1>1, <1>4, Monotone, SMT
    <3>4. d * B \in Int /\ B * s \in Int /\ (w + B) * d \in Int
      <4> HIDE DEF d, s
      <4> QED
        BY <2>2, <1>1, <1>4, SMT
    <3> HIDE DEF d, s
    <3> QED
      BY <3>1, <3>2, <3>3, <3>4, <1>1, <1>4, <1>21, SMT
  <2> QED
    BY <2>1, <2>2, <2>3, <1>1, SMT DEF Word
<1>23. v = w
  <2> DEFINE a == IF c1 THEN 1 ELSE 0
             b == IF c2 THEN 1 ELSE 0
             f == v1 - a
  <2>1. a \in Nat /\ b \in Nat /\ a <= 1 /\ b <= 1 /\ w = f - b /\ a \in Word /\ b \in Word
    BY <1>1, SMT DEF Word
  <2>2. v1 \in Nat /\ v1 < B /\ w \in Nat /\ w < B /\ v1 \in Word
    BY <1>1, <1>11, <1>22 DEF Word
  <2> HIDE DEF a, b, v1, w
  <2>3. f \in Word /\ v1 >= a /\ f >= b
    BY <2>1, <2>2, <1>1, SMT DEF Word
  <2>4. Div!wrapping_sub(v1, a) = f
    BY <2>1, <2>2, <2>3, WrapSub
  <2> HIDE DEF f
  <2>5. Div!wrapping_sub(f, b) = w
    BY <2>1, <2>2, <2>3, WrapSub
  <2> QED
    BY <2>4, <2>5, <1>16 DEF a, b
<1>24. B * s = B * B * B
  BY <1>1, SMT
<1> HIDE DEF w, d, s
<1> QED
  BY <1>21, <1>22, <1>23, <1>24 DEF d

\* Algorithm 5 gives the quotient of three words by two, cut off at MAX.
LEMMA QuotientOfThree ==
    ASSUME NEW v, NEW d0 \in Word, NEW d1 \in Word, NEW d, d = d0 + d1 * B, IsReciprocal(v, d),
           NEW u0 \in Word, NEW u1 \in Word, NEW u2 \in Word, u1 + u2 * B <= d,
           NEW u, u = u0 + (u1 + u2 * B) * B,
           NEW q, q = Div!div3by2(<<u0, u1, u2>>, <<d0, d1>>, v)
    PROVE  /\ q \in Word
           /\ q * d <= u
           /\ q = B - 1 \/ u < q * d + d
<1> DEFINE s  == B * B
           h  == u1 + u2 * B
           M  == (v * u2 + h) % s
           q1 == M \div B
           q0 == M % B
           r1 == (u1 - ((q1 * d1) % B)) % B
           r  == ((u0 + r1 * B) - d0 * q1 - d) % s
           ge == q0 <= r \div B
           rr == (r + IF ge THEN d ELSE 0) % s
           qq == Div!wrapping_add(Div!wrapping_add(q1, IF ~ge THEN 1 ELSE 0),
                                  IF d <= rr THEN 1 ELSE 0)
<1>1. B \in Nat /\ B >= 2 /\ u0 \in Nat /\ u1 \in Nat /\ u2 \in Nat /\ v \in Nat /\ d \in Nat
      /\ d0 \in Nat /\ d1 \in Nat /\ u0 < B /\ u1 < B /\ d0 < B
  BY BaseFacts, SMT DEF Word, IsReciprocal
<1>2. s \in Nat /\ d < s /\ s <= 2 * d /\ h \in Nat /\ u \in Nat /\ u = u0 + h * B /\ s > 0
  BY <1>1, SMT DEF IsReciprocal
<1>3. M = v * u2 + h /\ M \in Nat /\ M < s
  <2> DEFINE m == v * u2 + h
  <2>1. m \in Nat /\ m < s
    BY FirstSumFits
  <2> HIDE DEF m, s
  <2>2. m = s * 0 + m /\ m \in 0..(s - 1)
    BY <1>2, <2>1, SMT
  <2>3. m % s = m
    BY <2>2, <1>2, <2>1, DivisionIs
  <2> QED
    BY <2>1, <2>3 DEF m
<1>4. q = IF h = d THEN B - 1 ELSE qq
  <2> DEFINE us == <<u0, u1, u2>>
             ds == <<d0, d1>>
  <2>1. us[1] = u0 /\ us[2] = u1 /\ us[3] = u2 /\ ds[1] = d0 /\ ds[2] = d1
    OBVIOUS
  <2>2. q = Div!div3by2(us, ds, v)
    OBVIOUS
  <2> HIDE DEF us, ds
  <2>3. Div!join(ds[1], ds[2]) = d /\ Div!join(us[2], us[3]) = h
    BY <2>1 DEF Div!join, Div!B, B
  <2>4. Div!wide(v * us[3] + h) = M
    BY <2>1 DEF Div!wide, Div!B, B
  <2>5. Div!Hi(M) = q1 /\ Div!Lo(M) = q0
    BY DEF Div!Hi, Div!Lo, Div!B, B
  <2> HIDE DEF M, h, q1, q0
  <2>6. Div!wrapping_sub(us[2], Div!wrapping_mul(q1, ds[2])) = r1
    BY <2>1 DEF Div!wrapping_sub, Div!wrapping_mul, Div!B, B
  <2> HIDE DEF r1
  <2>7. Div!wide(Div!join(us[1], r1) - ds[1] * q1 - d) = r
    BY <2>1 DEF Div!wide, Div!join, Div!B, B
  <2> HIDE DEF r
  <2>8. Div!Hi(r) = r \div B
    BY DEF Div!Hi, Div!B, B
  <2>9. Div!wide(r + IF ge THEN d ELSE 0) = rr
    BY DEF Div!wide, Div!B, B
  <2>10. Div!WordMAX = B - 1
    BY DEF Div!WordMAX, Div!B, B
  <2> HIDE DEF rr, s
  <2> QED
    BY <2>2, <2>3, <2>4, <2>5, <2>6, <2>7, <2>8, <2>9, <2>10
       DEF Div!div3by2, Div!Masked, Div!Select
<1> HIDE DEF M
<1>5. q1 \in Nat /\ q0 \in Word /\ M = B * q1 + q0 /\ q0 \in Nat /\ q0 < B
  BY <1>1, <1>3, DivMod, SMT DEF Word
<1>8. B \in Nat /\ B > 0
  BY <1>1, SMT
<1>6. CASE h = d
  <2>1. q = B - 1
    BY <1>4, <1>6
  <2>2. q \in Word
    BY <2>1, <1>1, SMT DEF Word
  <2>3. q * d = d * B - d /\ d * B \in Int
    BY <2>1, <1>1, SMT
  <2>4. h * B = d * B
    BY <1>6
  <2> HIDE DEF h
  <2>5. q * d <= u
    BY <2>3, <2>4, <1>1, <1>2, SMT
  <2> QED
    BY <2>1, <2>2, <2>5
<1>7. CASE h # d
  <2>1. h < d
    BY <1>1, <1>2, <1>7, SMT
  <2> DEFINE t == u - q1 * d - d
  <2>2. /\ t \in Int /\ t >= -d
        /\ t >= q0 * B - s
        /\ t >= q0 * B => t < s - d
    <3>0. v * u2 + (u1 + u2 * B) = B * q1 + q0
      BY <1>3, <1>5
    <3>2. t = u0 + (u1 + u2 * B) * B - q1 * d - d
      <4>1. q1 * d \in Int /\ (u1 + u2 * B) * B \in Int
        BY <1>1, <1>5, SMT
      <4> DEFINE y == (u1 + u2 * B) * B
                 z == q1 * d
      <4>2. y \in Int /\ z \in Int /\ u = u0 + y
        BY <4>1
      <4> HIDE DEF y, z
      <4>3. u - z - d = u0 + y - z - d
        BY <4>2, <1>1, SMT
      <4> QED
        BY <4>3 DEF y, z
    <3>1. Estimates(v, u0, u1, u2, d, q1, q0, t) /\ Dividend(u0, u1, u2, d0, d1, d)
      BY <3>0, <3>2, <2>1 DEF Estimates, Dividend
    <3> HIDE DEF q1, q0, t
    <3>3. /\ t \in Int /\ t >= -d
          /\ t >= q0 * B - B * B
          /\ t >= q0 * B => t < B * B - d
      BY <3>1, <1>5, FirstEstimate
    <3> QED
      BY <3>3
  <2> HIDE DEF q1, q0
  <2>3. r = (t % s)
    <3> DEFINE m == q1 * d1
               a == m % B
    <3>1. m \in Int
      BY <1>1, <1>5, SMT
    <3>2. PICK c1 \in Int : a = m + c1 * B
      <4> HIDE DEF m
      <4> QED
        BY <3>1, <1>8, RemainderGap
    <3>3. a \in Int
      <4> HIDE DEF a, m
      <4> QED
        BY <3>1, <3>2, <1>1, SMT
    <3>4. PICK c2 \in Int : r1 = (u1 - a) + c2 * B
      <4>1. u1 - a \in Int
        BY <3>3, <1>1, SMT
      <4>2. r1 = (u1 - a) % B
        OBVIOUS
      <4> DEFINE c == u1 - a
      <4> HIDE DEF a, m, r1
      <4>3. r1 = c % B /\ c \in Int
        BY <4>1, <4>2
      <4> HIDE DEF c
      <4>4. \E c2 \in Int : c % B = c + c2 * B
        BY <4>3, <1>8, RemainderGap
      <4> QED
        BY <4>3, <4>4 DEF c
    <3>5. r1 = u1 - m + (c2 - c1) * B
      <4> HIDE DEF a, m, r1
      <4> QED
        BY <3>1, <3>2, <3>3, <3>4, <1>1, SMT
    <3> HIDE DEF r1
    <3>6. (u0 + r1 * B) - d0 * q1 - d = t + (c2 - c1 - u2) * s
      <4>1. r1 * B = u1 * B - m * B + (c2 - c1) * s
        <5> HIDE DEF m
        <5> QED
          BY <3>1, <3>5, <1>1, SMT
      <4>2. q1 * d = q1 * d0 + m * B
        BY <1>1, <1>5, SMT
      <4>3. u = u0 + u1 * B + u2 * s
        BY <1>1, SMT
      <4>4. (c2 - c1 - u2) * s = (c2 - c1) * s - u2 * s
        BY <1>1, SMT
      <4>5. d0 * q1 = q1 * d0 /\ q1 * d0 \in Int /\ m * B \in Int /\ u1 * B \in Int /\ u2 * s \in Int
            /\ (c2 - c1) * s \in Int
        BY <1>1, <1>5, SMT
      <4> DEFINE y1 == q1 * d
                 y2 == m * B
                 y3 == u2 * s
                 y4 == (c2 - c1) * s
                 y5 == (c2 - c1 - u2) * s
                 y6 == q1 * d0
                 y7 == u1 * B
                 y8 == d0 * q1
                 y9 == r1 * B
      <4>6. y9 = y7 - y2 + y4 /\ y1 = y6 + y2 /\ u = u0 + y7 + y3 /\ y5 = y4 - y3 /\ y8 = y6
            /\ t = u - y1 - d
            /\ y6 \in Int /\ y2 \in Int /\ y7 \in Int /\ y3 \in Int /\ y4 \in Int
        BY <4>1, <4>2, <4>3, <4>4, <4>5
      <4> HIDE DEF y1, y2, y3, y4, y5, y6, y7, y8, y9, t
      <4>7. (u0 + y9) - y8 - d = t + y5
        BY <4>6, <1>1, SMT
      <4> QED
        BY <4>7 DEF y5, y8, y9
    <3> DEFINE a1 == (u0 + r1 * B) - d0 * q1 - d
               c3 == c2 - c1 - u2
    <3>7. c3 \in Int /\ a1 = t + c3 * s
      BY <3>6, <1>1, SMT
    <3>8. a1 \in Int
      <4> HIDE DEF a1, t, c3, s
      <4> QED
        BY <3>7, <2>2, <1>2, SMT
    <3> HIDE DEF a1, t, c3, s
    <3>9. a1 % s = t % s
      BY <3>7, <3>8, <2>2, <1>2, SameResidue
    <3> QED
      BY <3>9 DEF a1
  <2>4. r = IF t >= 0 THEN t ELSE t + s
    <3>1. q0 * B <= s - B
      <4>1. B * q0 <= B * (B - 1)
        BY <1>1, <1>5, Monotone, SMT
      <4> QED
        BY <4>1, <1>1, <1>5, SMT
    <3>2. q0 * B \in Int
      BY <1>1, <1>5, SMT
    <3> DEFINE qB == q0 * B
    <3>3. t >= -s /\ t < s
      <4>1. qB \in Int /\ qB <= s - B /\ (t >= qB => t < s - d)
        BY <3>1, <3>2, <2>2
      <4> HIDE DEF t, s, qB
      <4> QED
        BY <4>1, <2>2, <1>1, <1>2, SMT
    <3> HIDE DEF t, s
    <3>4. t % s = IF t >= 0 THEN t ELSE t + s
      BY <3>3, <2>2, <1>2, ModOfDifference
    <3> QED
      BY <3>4, <2>3
  <2> HIDE DEF r
  <2>5. r \in Nat /\ r < s
    <3>1. q0 * B \in Int /\ q0 * B <= s - B
      <4>1. B * q0 <= B * (B - 1)
        BY <1>1, <1>5, Monotone, SMT
      <4> QED
        BY <4>1, <1>1, <1>5, SMT
    <3> DEFINE qB == q0 * B
    <3>2. qB \in Int /\ qB <= s - B /\ (t >= qB => t < s - d)
      BY <3>1, <2>2
    <3> HIDE DEF t, s, qB
    <3> QED
      BY <3>2, <2>2, <2>4, <1>1, <1>2, SMT
  <2>6. ge <=> q0 * B <= r
    <3> DEFINE f == r \div B
               l == r % B
    <3>1. f \in Nat /\ l \in Nat /\ l < B /\ r = B * f + l
      BY <2>5, <1>1, DivMod
    <3> HIDE DEF f, l
    <3>2. ASSUME q0 <= f PROVE q0 * B <= r
      <4>1. B * q0 <= B * f
        BY <3>1, <3>2, <1>1, <1>5, Monotone
      <4>2. B * q0 = q0 * B /\ B * f \in Int /\ B * q0 \in Int
        BY <3>1, <1>1, <1>5, SMT
      <4> QED
        BY <4>1, <4>2, <3>1, SMT
    <3>3. ASSUME q0 * B <= r PROVE q0 <= f
      <4>1. B * (f + 1) = B * f + B /\ B * q0 = q0 * B /\ B * f \in Int /\ B * q0 \in Int
        BY <3>1, <1>1, <1>5, SMT
      <4>2. B * q0 < B * (f + 1)
        BY <3>3, <4>1, <3>1, <1>1, SMT
      <4>3. q0 < f + 1
        BY <4>2, <3>1, <1>1, <1>5, Cancel, SMT
      <4> QED
        BY <4>3, <3>1, <1>5, SMT
    <3> QED
      BY <3>2, <3>3 DEF f
  <2> HIDE DEF ge
  <2>7. rr = (r + IF ge THEN d ELSE 0) % s
    OBVIOUS
  <2> DEFINE qB == q0 * B
  <2>8. /\ t \in Int /\ t >= -d /\ t >= qB - s /\ (t >= qB => t < s - d)
        /\ r = (IF t >= 0 THEN t ELSE t + s)
        /\ (ge <=> qB <= r) /\ qB \in Nat /\ qB < s
    <3>1. q0 * B \in Nat /\ q0 * B < s
      <4>1. B * q0 <= B * (B - 1)
        BY <1>1, <1>5, Monotone, SMT
      <4> QED
        BY <4>1, <1>1, <1>5, SMT
    <3> QED
      BY <3>1, <2>2, <2>4, <2>6
  <2> HIDE DEF rr, t, s, qB
  <2> DEFINE a == IF ~ge THEN 1 ELSE 0
             b == IF d <= rr THEN 1 ELSE 0
             g == t + d - (IF a = 1 THEN d ELSE 0) - (IF b = 1 THEN d ELSE 0)
  <2>9. g \in Nat /\ g < d
    <3>1. CASE t < 0
      <4>1. ge /\ r + d = t + d + s
        BY <3>1, <2>8, <1>2, <1>1, SMT
      <4>2. r + d \in Int /\ r + d = s * 1 + (t + d) /\ t + d \in 0..(s - 1)
        BY <4>1, <3>1, <2>8, <1>1, <1>2, SMT
      <4>3. (r + d) % s = t + d
        BY <4>2, <1>2, DivisionIs
      <4>4. rr = t + d
        BY <4>1, <4>3, <2>7
      <4>5. a = 0 /\ b = 0
        BY <4>1, <4>4, <3>1, <2>8, <1>1, SMT
      <4> QED
        BY <4>5, <3>1, <2>8, <1>1, SMT
    <3>2. CASE t >= 0 /\ qB <= t
      <4>1. ge /\ r = t /\ t < s - d
        BY <3>2, <2>8
      <4>2. r + d \in Int /\ r + d = s * 0 + (t + d) /\ t + d \in 0..(s - 1)
        BY <4>1, <3>2, <2>8, <1>1, <1>2, SMT
      <4>3. (r + d) % s = t + d
        BY <4>2, <1>2, DivisionIs
      <4>4. rr = t + d
        BY <4>1, <4>3, <2>7
      <4>5. a = 0 /\ b = 1
        BY <4>1, <4>4, <3>2, <2>8, <1>1, SMT
      <4> QED
        BY <4>1, <4>5, <3>2, <2>8, <1>1, <1>2, SMT
    <3>3. CASE t >= 0 /\ ~(qB <= t)
      <4>1. ~ge /\ r = t /\ t < s
        BY <3>3, <2>8, <1>2, SMT
      <4>2. r + 0 = r /\ r \in Int /\ r = s * 0 + t /\ t \in 0..(s - 1)
        BY <4>1, <3>3, <2>8, <1>2, SMT
      <4>3. r % s = t
        BY <4>2, <1>2, DivisionIs
      <4>4. rr = t
        BY <4>1, <4>2, <4>3, <2>7
      <4>5. a = 1 /\ (b = IF d <= t THEN 1 ELSE 0)
        BY <4>1, <4>4
      <4> HIDE DEF a, b
      <4> QED
        BY <4>1, <4>5, <3>3, <2>8, <1>1, <1>2, SMT
    <3> QED
      BY <3>1, <3>2, <3>3, <2>8, SMT
  <2>10. a \in Nat /\ a <= 1 /\ b \in Nat /\ b <= 1
    BY SMT
  <2> HIDE DEF a, b
  <2> DEFINE z == q1 + a + b
  <2>11. z * d + g = u
    <3>1. t = u - q1 * d - d /\ q1 * d \in Int
      BY <1>1, <1>5, SMT DEF t
    <3>2. z * d = q1 * d + a * d + b * d
      BY <2>10, <1>1, <1>5, SMT
    <3>3. a * d = (IF a = 1 THEN d ELSE 0) /\ b * d = (IF b = 1 THEN d ELSE 0)
      BY <2>10, <1>1, SMT
    <3> QED
      BY <3>1, <3>2, <3>3, <2>8, <2>10, <1>1, <1>2, SMT
  <2> HIDE DEF g
  <2>12. z \in Nat /\ z < B
    <3>1. z \in Nat
      BY <2>10, <1>5, SMT
    <3> HIDE DEF z, h
    <3>2. u < d * B
      <4>1. B * (h + 1) <= B * d
        BY <2>1, <1>1, <1>2, Monotone, SMT
      <4> QED
        BY <4>1, <1>1, <1>2, SMT
    <3>3. d * z < d * B
      BY <3>1, <3>2, <2>9, <2>11, <1>1, <1>2, SMT
    <3>4. z < B
      BY <3>1, <3>3, <1>1, Cancel
    <3> QED
      BY <3>1, <3>4
  <2>13. qq = z
    <3>1. q1 \in Word /\ a \in Word /\ b \in Word /\ q1 + a \in Word /\ q1 + a < B /\ q1 + a + b < B
      BY <2>10, <2>12, <1>1, <1>5, SMT DEF Word
    <3>2. Div!wrapping_add(q1, a) = q1 + a
      BY <3>1, WrapAdd
    <3>3. Div!wrapping_add(q1 + a, b) = q1 + a + b
      <4> DEFINE f == q1 + a
      <4>1. f \in Word /\ f + b < B
        BY <3>1
      <4> HIDE DEF f
      <4>2. Div!wrapping_add(f, b) = f + b
        BY <4>1, <3>1, WrapAdd
      <4> QED
        BY <4>2 DEF f
    <3> QED
      BY <3>2, <3>3 DEF a, b
  <2>14. q = z
    BY <2>13, <1>4, <1>7
  <2>15. z * d \in Int
    BY <2>12, <1>1, SMT
  <2> HIDE DEF z, qq
  <2>16. z * d <= u /\ u < z * d + d
    BY <2>9, <2>11, <2>15, <1>1, SMT
  <2>17. z \in Word
    BY <2>12, <1>1, SMT DEF Word
  <2> QED
    BY <2>14, <2>16, <2>17
<1> QED
  BY <1>6, <1>7

\* The place of the last bit weight: the precision of 2N limbs.
BitEnd == bits_precision(2 * N)

\* The assumption on BitWeight is what the lemmas on bit weights ask.
LEMMA BitTableHere == BitTable(BitWeight, WordBits, BitEnd)
<1>1. BitEnd = (2 * N) * WordBits
  BY DEF BitEnd, bits_precision
<1> QED
  BY <1>1, WordBitsAssumption, BitWeightAssumption DEF BitTable, BitEnd

\* What bits returns.
LEMMA LengthIs ==
    ASSUME NEW x \in Nat, NEW j \in Nat, j <= BitEnd, x < BitWeight[j]
    PROVE  IsLength(Div!bits(x), x, BitWeight, BitEnd)
<1>1. \E k \in 0..BitEnd : IsLength(k, x, BitWeight, BitEnd)
  BY BitTableHere, LengthExists
<1>2. Div!bits(x) = CHOOSE k \in 0..BitEnd : x < BitWeight[k] /\ (k = 0 \/ BitWeight[k - 1] <= x)
  BY DEF Div!bits, BitEnd, Div!bits_precision, bits_precision
<1>3. \E k \in 0..BitEnd : x < BitWeight[k] /\ (k = 0 \/ BitWeight[k - 1] <= x)
  BY <1>1 DEF IsLength
<1> DEFINE l == Div!bits(x)
<1> HIDE DEF l
<1>4. l \in 0..BitEnd /\ x < BitWeight[l] /\ (l = 0 \/ BitWeight[l - 1] <= x)
  BY <1>2, <1>3 DEF l
<1> QED
  BY <1>4 DEF IsLength, l

\* So does an integer of n limbs.
LEMMA LengthOfLimbs ==
    ASSUME NEW x \in Nat, NEW n \in 0..(2 * N), x < W[n]
    PROVE  IsLength(Div!bits(x), x, BitWeight, BitEnd)
<1> DEFINE j == n * WordBits
<1>1. j \in Nat /\ j <= BitEnd /\ BitWeight[j] = W[n]
  BY BitTableHere, BitsOfLimbs
<1> HIDE DEF j
<1> QED
  BY <1>1, LengthIs

\* The reciprocal of a word with its top bit set is that of the word itself.
LEMMA ReciprocalOfFull ==
    ASSUME NEW d \in Word, B <= 2 * d
    PROVE  Div!Reciprocal(d).reciprocal = Div!reciprocal(d)
<1>1. B \in Nat /\ B >= 2 /\ N \in Nat /\ N >= 1
  BY BaseFacts
<1>2. d \in Nat /\ d < B /\ 1 \in 0..(2 * N) /\ 0 \in 0..(2 * N) /\ 0 < 2 * N
  BY <1>1, SMT DEF Word
<1>3. W[1] = B /\ W[0] = 1
  <2>1. W[0 + 1] = B * W[0] /\ W[0] = 1
    BY <1>2, WeightFacts, WeightAssumption
  <2> QED
    BY <2>1, <1>1, SMT
<1>4. IsLength(Div!bits(d), d, BitWeight, BitEnd)
  BY <1>2, <1>3, LengthOfLimbs
<1>5. Div!bits(d) = WordBits
  BY <1>4, BitTableHere, FullLength
<1>6. WordBits \in Nat /\ BitWeight[0] = 1
  BY WordBitsAssumption, BitWeightAssumption, SMT
<1>7. Div!leading_zeros(d, 1) = 0
  <2>1. Div!leading_zeros(d, 1) = 1 * WordBits - WordBits
    BY <1>5 DEF Div!leading_zeros, Div!bits_precision
  <2> QED
    BY <2>1, <1>6, SMT
<1>8. Div!shl(d, 1, 0) = d
  <2>1. Div!shl(d, 1, 0) = (d * 1) % B
    BY <1>3, <1>6 DEF Div!shl
  <2>2. (d * 1) = d /\ d \in 0..(B - 1)
    BY <1>1, <1>2, SMT
  <2>3. d % B = d
    BY <2>2, <1>1, ResidueItself
  <2> QED
    BY <2>1, <2>2, <2>3
<1>9. Div!Reciprocal(d) = [divisor_normalized |-> Div!shl(d, 1, Div!leading_zeros(d, 1)),
                           shift |-> Div!leading_zeros(d, 1),
                           reciprocal |-> Div!reciprocal(Div!shl(d, 1, Div!leading_zeros(d, 1)))]
  BY DEF Div!Reciprocal
<1> QED
  BY <1>7, <1>8, <1>9

\* The reciprocal of the divisor's two top words, as the loop has it.
LEMMA ReciprocalHere ==
    ASSUME NEW w, NEW dv, Normalized(aux, ylen, w, dv),
           NEW v, v = Div!reciprocal_3by2(Div!rec, Div!topWords[1], Div!topWords[2])
    PROVE  /\ IsReciprocal(v, aux \div W[ylen - 2])
           /\ Div!topWords = <<Limb(aux, ylen - 2), Limb(aux, ylen - 1)>>
           /\ Limb(aux, ylen - 2) \in Word /\ Limb(aux, ylen - 1) \in Word
           /\ aux \div W[ylen - 2] = Limb(aux, ylen - 2) + Limb(aux, ylen - 1) * B
<1> DEFINE d0 == Limb(aux, ylen - 2)
           d1 == Limb(aux, ylen - 1)
           d  == aux \div W[ylen - 2]
<1>1. d = d0 + d1 * B /\ d0 \in Word /\ d1 \in Word /\ B <= 2 * d1
  BY TopLimbs
<1>2. Div!topWords = <<d0, d1>>
  BY DEF Div!topWords, Div!Limb, Limb, Div!B, B
<1>3. Div!rec = Div!Reciprocal(d1)
  BY DEF Div!rec, Div!Limb, Limb, Div!B, B
<1>4. d \in Nat /\ B * B <= 2 * d /\ d < B * B
  BY LeadingWords
<1> HIDE DEF d0, d1
<1>5. Div!rec.reciprocal = Div!reciprocal(d1)
  BY <1>1, <1>3, ReciprocalOfFull
<1>6. v = Div!reciprocal_3by2(Div!rec, d0, d1)
  BY <1>2
<1> HIDE DEF d
<1>7. 2 * d1 >= B
  <2>1. B \in Nat /\ d1 \in Nat
    BY <1>1, BaseFacts, SMT DEF Word
  <2> QED
    BY <2>1, <1>1, SMT
<1>8. /\ v \in Word
      /\ (v + B) * (d0 + d1 * B) < B * B * B
      /\ B * B * B <= (v + B) * (d0 + d1 * B) + (d0 + d1 * B)
  BY <1>1, <1>5, <1>6, <1>7, ReciprocalOfTwo
<1>9. IsReciprocal(v, d)
  BY <1>1, <1>4, <1>8 DEF IsReciprocal
<1> QED
  BY <1>1, <1>2, <1>9 DEF d, d0, d1

----------------------------------------------------------------------------
(* The invariant of long division.                                         *)

\* The operands fit the limbs they have; only a wide dividend has a low part.
DivTyped ==
    /\ call.losize \in 0..N /\ call.xsize \in 1..(2 * N) /\ call.ysize \in 1..N
    /\ call.losize + call.xsize < 2 * N
    /\ call.X \in Nat /\ call.X < W[call.losize + call.xsize]
    /\ call.Y \in Nat /\ call.Y > 0 /\ call.Y < W[call.ysize]
    /\ IF Div!is_wide THEN call.ysize <= call.xsize ELSE call.losize = 0

\* Nothing is done yet.
DivEntered ==
    /\ x_lo = call.X % W[call.losize] /\ out = call.X \div W[call.losize]
    /\ extra_limbs = call.losize
    /\ aux = call.Y /\ ylen = call.ysize /\ ywords = Div!to_limbs(Div!bits(call.Y))
    /\ i = 0 /\ meta_carry = 0

\* The divisor and the dividend are shifted by lshift bits, what is kept is exact,
\* and its leading words are at most those of the divisor, whatever the limb.
ShiftedY  == call.Y * BitWeight[lshift]
ShiftedX == call.X * BitWeight[lshift]

\* The loop over the digits from the high end, for every routine that runs it.
DivKept ==
    /\ lshift \in 0..(WordBits - 1)
    /\ Normalized(aux, ylen, ywords, ShiftedY)
    /\ i \in Nat /\ i + 1 <= call.xsize
    /\ extra_limbs \in Nat /\ extra_limbs <= call.losize
    /\ extra_limbs > 0 => i + 1 >= ywords
    /\ out \in Nat /\ x_lo \in Nat /\ x_hi \in Word /\ x_xi \in Word
    /\ x_xi + x_hi * B <= aux \div W[ylen - 2]
    /\ i + 2 >= ywords =>
         Kept(ShiftedY, ywords, ShiftedX, Div!is_wide, x_hi, out, x_xi, i, x_lo, extra_limbs)

\* An exact division has an odd divisor; as long as its limbs in use fit above
\* limb i, the limbs of the dividend and the quotient stored in it are exact.
HenselWindowTop == Div!MinOf(i + ylen, call.xsize)

\* The loop of div_exact from the low end.
HenselKept ==
    /\ Div!is_exact
    /\ i \in Nat /\ i <= call.xsize
    /\ ylen \in Nat /\ ylen <= N /\ ywords \in 1..ylen
    /\ aux \in Nat /\ aux % 2 = 1 /\ aux < W[ywords]
    /\ ~Div!done => HenselGood(call.X \div BitWeight[lshift], aux, out, i, meta_carry,
                               HenselWindowTop, call.xsize)

\* Division's inductive invariant.
DivInv == family = "division" => /\ DivTyped
                                 /\ pc = "enter" => DivEntered
                                 /\ pc = "digit" => DivKept
                                 /\ pc = "hensel" => HenselKept

\* The bit weights of a shift, and the shifted operands.
LEMMA ShiftedTyped ==
    ASSUME DivTyped, lshift \in 0..(WordBits - 1)
    PROVE  /\ BitWeight[lshift] \in Nat /\ BitWeight[lshift] > 0
           /\ ShiftedY \in Nat /\ ShiftedX \in Nat
<1>1. WordBits \in Nat /\ WordBits > 0 /\ BitEnd \in Nat
  BY BitTableHere, BitTop
<1>2. 1 \in 0..(2 * N)
  BY BaseFacts, SMT
<1>3. 1 * WordBits <= BitEnd
  BY <1>2, BitTableHere, BitsOfLimbs
<1>4. lshift \in Nat /\ lshift <= BitEnd
  BY <1>1, <1>3, SMT
<1>5. BitWeight[lshift] \in Nat /\ BitWeight[lshift] > 0
  BY <1>4, BitTableHere, BitFacts
<1>6. call.X \in Nat /\ call.Y \in Nat
  BY DEF DivTyped
<1> DEFINE b == BitWeight[lshift]
           x == call.X
           y == call.Y
<1>7. y * b \in Nat /\ x * b \in Nat
  <2>1. b \in Nat /\ x \in Nat /\ y \in Nat
    BY <1>5, <1>6
  <2> HIDE DEF b, x, y
  <2> QED
    BY <2>1, SMT
<1> QED
  BY <1>5, <1>7 DEF ShiftedY, ShiftedX

\* The quotient limb of an iteration is the estimate of div3by2.
LEMMA EstimateHere ==
    ASSUME Normalized(aux, ylen, ywords, ShiftedY), NEW k \in Nat, k <= 2 * N, out \in Nat,
           Div!Limb(out, i - 1) = Limb(out, k),
           x_hi \in Word, x_xi \in Word,
           x_xi + x_hi * B <= aux \div W[ylen - 2]
    PROVE  Estimated(Div!Estimate, Limb(out, k) + (x_xi + x_hi * B) * B, aux \div W[ylen - 2])
<1> DEFINE v  == Div!reciprocal_3by2(Div!rec, Div!topWords[1], Div!topWords[2])
           d  == aux \div W[ylen - 2]
           d0 == Limb(aux, ylen - 2)
           d1 == Limb(aux, ylen - 1)
           u0 == Limb(out, k)
           u  == u0 + (x_xi + x_hi * B) * B
           q  == Div!Estimate
<1>1. IsReciprocal(v, d) /\ Div!topWords = <<d0, d1>> /\ d0 \in Word /\ d1 \in Word /\ d = d0 + d1 * B
  BY ReciprocalHere
<1>2. u0 \in Word
  <2>1. k \in 0..(2 * N)
    BY BaseFacts, SMT
  <2> QED
    BY <2>1, LimbType
<1>3. q = Div!div3by2(<<u0, x_xi, x_hi>>, <<d0, d1>>, v)
  BY <1>1 DEF Div!Estimate
<1>4. x_xi + x_hi * B <= d
  OBVIOUS
<1> HIDE DEF v, d, d0, d1, u0, q
<1>5. q \in Word /\ q * d <= u /\ (q = B - 1 \/ u < q * d + d)
  BY <1>1, <1>2, <1>3, <1>4, QuotientOfThree
<1>6. Estimated(q, u, d)
  BY <1>5 DEF Estimated
<1> QED
  BY <1>6 DEF q, u, u0, d

----------------------------------------------------------------------------
(* One iteration.                                                          *)

\* Past the end of the divisor the window is rewritten as it was.
LEMMA NothingSubtracted ==
    ASSUME out \in Nat, x_hi \in Nat, i \in Nat, i + 1 <= 2 * N,
           Normalized(aux, ylen, ywords, ShiftedY), i < ywords - 1
    PROVE  Div!Subtracted(0)[2] = out
<1>1. /\ ylen \in Nat /\ ywords \in Nat /\ ywords <= ylen /\ ylen <= N /\ aux \in Nat
      /\ N \in Nat /\ B \in Nat
  BY BaseFacts, SMT DEF Normalized
<1> DEFINE n  == Div!MinOf(ylen, i + 1)
           yv == aux \div W[ylen - n]
           low == WindowOf(out, 0, i + 1)
           m   == W[i + 1]
<1>2. n = i + 1
  BY <1>1, SMT DEF Div!MinOf
<1>3. low \in Nat /\ low < m /\ m \in Nat /\ m > 0 /\ W[0] = 1
  <2>1. 0 \in Nat /\ i + 1 \in Nat /\ 0 + (i + 1) <= 2 * N /\ i + 1 \in 0..(2 * N)
    BY <1>1, SMT
  <2> DEFINE i1 == i + 1
  <2>2. i1 \in Nat /\ 0 + i1 <= 2 * N
    BY <2>1
  <2>3. m \in Nat /\ m > 0
    BY <2>1, WeightFacts
  <2> HIDE DEF i1
  <2>4. WindowOf(out, 0, i1) \in Nat /\ WindowOf(out, 0, i1) < W[i1]
    BY <2>2, WindowParts
  <2> QED
    BY <2>3, <2>4, WeightAssumption DEF i1
<1>4. yv \in Int
  <2>1. ylen - n \in 0..(2 * N)
    BY <1>1, <1>2, SMT
  <2>2. W[ylen - n] \in Nat /\ W[ylen - n] > 0
    BY <2>1, WeightFacts
  <2> HIDE DEF n
  <2> QED
    BY <2>2, <1>1, DivMod, SMT
<1>5. Div!Slice(out, 0, i + 1) = low
  BY DEF Div!Slice, WindowOf
<1>6. i + 1 - n = 0
  BY <1>2, SMT
<1> DEFINE borrow == x_hi * W[n] + Div!Slice(out, i + 1 - n, n) < 0 * yv
           newlow == (Div!Slice(out, i + 1 - n, n) - 0 * yv + Div!Masked(yv, borrow)) % W[n]
<1>7. Div!Subtracted(0)[2] = Div!SetSlice(out, i + 1 - n, n, newlow)
  BY DEF Div!Subtracted
<1>8. 0 * yv = 0
  <2> HIDE DEF yv
  <2> QED
    BY <1>4, SMT
<1>9. ~borrow
  <2>1. borrow = (x_hi * m + low < 0)
    BY <1>2, <1>5, <1>6, <1>8
  <2> HIDE DEF borrow, m, low
  <2> DEFINE h == x_hi * m
  <2>2. h \in Nat
    BY <1>3, SMT
  <2>3. borrow = (h + low < 0)
    BY <2>1
  <2> HIDE DEF h
  <2>4. ~(h + low < 0)
    BY <2>2, <1>3, SMT
  <2> QED
    BY <2>3, <2>4
<1>10. newlow = low
  <2>1. Div!Masked(yv, borrow) = 0
    BY <1>9 DEF Div!Masked
  <2>2. newlow = (low - 0 + 0) % m
    BY <2>1, <1>2, <1>5, <1>6, <1>8
  <2> HIDE DEF newlow, m, low
  <2>3. (low - 0 + 0) = low /\ low \in 0..(m - 1)
    BY <1>3, SMT
  <2>4. low % m = low
    BY <2>3, <1>3, ResidueItself
  <2> QED
    BY <2>2, <2>3, <2>4
<1>11. Div!Subtracted(0)[2] = out + (low - low) * W[0]
  <2>1. Div!SetSlice(out, 0, i + 1, low) = out + (low - Div!Slice(out, 0, i + 1)) * W[0]
    BY DEF Div!SetSlice
  <2> HIDE DEF low, newlow
  <2> QED
    BY <2>1, <1>2, <1>5, <1>6, <1>7, <1>10
<1> HIDE DEF low
<1>12. out + (low - low) * 1 = out
  BY <1>3, SMT
<1> QED
  BY <1>3, <1>11, <1>12

\* Otherwise it is rewritten with what a digit of the quotient leaves of it.
LEMMA DigitSubtracted ==
    ASSUME NEW q, i \in Nat, i >= 1, i + 1 <= 2 * N, ylen \in Nat, ylen >= 2, ywords <= ylen,
           ywords \in Nat, ywords <= i + 1
    PROVE  \E n, k \in Nat : \E yv, u, r, p, z :
              /\ n >= 2 /\ n <= ylen /\ ywords <= n /\ k + n = i + 1
              /\ yv = aux \div W[ylen - n]
              /\ u = x_hi * W[n] + WindowOf(out, k, n)
              /\ r = LeftOf(WindowOf(out, k, n), q, u, yv, W[n])
              /\ p = DigitOf(q, u, yv)
              /\ z = out + (r - WindowOf(out, k, n)) * W[k]
              /\ Div!Subtracted(q) = <<p, z>>
<1> DEFINE n   == Div!MinOf(ylen, i + 1)
           k   == i + 1 - n
           yv  == aux \div W[ylen - n]
           win == WindowOf(out, k, n)
           u   == x_hi * W[n] + win
           r   == LeftOf(win, q, u, yv, W[n])
           p   == DigitOf(q, u, yv)
           z   == out + (r - win) * W[k]
<1>1. n \in Nat /\ n >= 2 /\ n <= ylen /\ ywords <= n /\ k \in Nat /\ k + n = i + 1
  BY SMT DEF Div!MinOf
<1>2. Div!Slice(out, k, n) = win
  BY DEF Div!Slice, WindowOf
<1> DEFINE borrow == x_hi * W[n] + Div!Slice(out, k, n) < q * yv
           newlow == (Div!Slice(out, k, n) - q * yv + Div!Masked(yv, borrow)) % W[n]
           newquo == IF borrow /\ q > 0 THEN q - 1 ELSE q
<1>3. Div!Subtracted(q) = <<newquo, Div!SetSlice(out, k, n, newlow)>>
  BY DEF Div!Subtracted
<1>4. newquo = p
  BY <1>2 DEF DigitOf
<1>5. newlow = r
  <2>1. Div!Masked(yv, borrow) = IF u < q * yv THEN yv ELSE 0
    BY <1>2 DEF Div!Masked
  <2> QED
    BY <2>1, <1>2 DEF LeftOf
<1>6. Div!SetSlice(out, k, n, newlow) = z
  <2>1. Div!SetSlice(out, k, n, newlow) = out + (newlow - Div!Slice(out, k, n)) * W[k]
    BY DEF Div!SetSlice
  <2> QED
    BY <2>1, <1>2, <1>5
<1>7. Div!Subtracted(q) = <<p, z>>
  BY <1>3, <1>4, <1>6
<1> HIDE DEF n, k, borrow, newlow, newquo
<1>8. \E z1 : z1 = z
  OBVIOUS
<1> QED
  BY <1>1, <1>7

\* One iteration keeps the invariant.
LEMMA DigitKeeps ==
    ASSUME DivTyped, DivKept, pc = "digit", Div!Digit
    PROVE  DivKept'
<1>1. /\ call.losize \in 0..N /\ call.xsize \in 1..(2 * N)
      /\ call.losize + call.xsize < 2 * N
      /\ ~Div!is_wide => call.losize = 0
      /\ call.losize \in Nat /\ call.xsize \in Nat
  BY BaseFacts, SMT DEF DivTyped
<1>2. /\ lshift \in 0..(WordBits - 1)
      /\ Normalized(aux, ylen, ywords, ShiftedY)
      /\ i \in Nat /\ i + 1 <= call.xsize
      /\ extra_limbs \in Nat /\ extra_limbs <= call.losize
      /\ extra_limbs > 0 => i + 1 >= ywords
      /\ out \in Nat /\ x_lo \in Nat /\ x_hi \in Word /\ x_xi \in Word
      /\ x_xi + x_hi * B <= aux \div W[ylen - 2]
      /\ i + 2 >= ywords =>
           Kept(ShiftedY, ywords, ShiftedX, Div!is_wide, x_hi, out, x_xi, i, x_lo, extra_limbs)
  BY DEF DivKept
<1>3. i > 0 /\ UNCHANGED <<call, x_lo, aux, ylen, ywords, lshift>>
  BY DEF Div!Digit, Div!ys
<1>4. ShiftedY' = ShiftedY /\ ShiftedX' = ShiftedX /\ Div!is_wide' = Div!is_wide
  BY <1>3 DEF ShiftedY, ShiftedX, Div!is_wide
<1>5. ShiftedY \in Nat /\ ShiftedX \in Nat
  BY <1>2, ShiftedTyped
<1>6. /\ ylen \in Nat /\ ylen >= 2 /\ ywords \in Nat /\ ywords >= 1 /\ ywords <= ylen /\ ylen <= N
      /\ N \in Nat /\ B \in Nat /\ B >= 2 /\ aux \in Nat
  BY <1>2, BaseFacts, SMT DEF Normalized
<1>7. i >= 1 /\ i + 1 <= 2 * N /\ i - 1 \in Nat /\ i \in 0..(2 * N) /\ i - 1 \in 0..(2 * N)
  BY <1>1, <1>2, <1>3, <1>6, SMT
<1>8. x_hi \in Nat /\ x_xi \in Nat
  BY <1>2, <1>6, SMT DEF Word
<1>9. CASE Div!past_end
  <2>1. i < ywords - 1
    BY <1>9 DEF Div!past_end
  <2>2. extra_limbs = 0
    BY <2>1, <1>2, <1>6, SMT
  <2>3. Div!Select(Div!Estimate, 0, Div!past_end) = 0
    BY <1>9 DEF Div!Select
  <2>4. Div!Subtracted(0)[2] = out
    BY <2>1, <1>2, <1>7, <1>8, NothingSubtracted
  <2>5. x_hi' = x_hi /\ x_xi' = x_xi /\ out' = out /\ i' = i - 1 /\ extra_limbs' = extra_limbs
    <3>1. ~(extra_limbs > 0)
      BY <2>2, SMT
    <3>2. Div!Subtracted(Div!Select(Div!Estimate, 0, Div!past_end))[2] = out
      BY <2>3, <2>4
    <3> QED
      BY <3>1, <3>2, <1>9 DEF Div!Digit, Div!Select
  <2>6. i' \in Nat /\ i' + 1 <= call.xsize /\ ~(i' + 2 >= ywords) /\ ~(extra_limbs > 0)
    BY <2>1, <2>2, <2>5, <1>1, <1>2, <1>6, <1>7, SMT
  <2> QED
    BY <2>2, <2>5, <2>6, <1>2, <1>3, <1>4 DEF DivKept
<1>10. CASE ~Div!past_end
  <2>1. i + 1 >= ywords /\ i + 2 >= ywords /\ ywords <= i + 1
    <3>1. ~(i < ywords - 1)
      BY <1>10 DEF Div!past_end
    <3> QED
      BY <3>1, <1>2, <1>6, SMT
  <2>2. Kept(ShiftedY, ywords, ShiftedX, Div!is_wide, x_hi, out, x_xi, i, x_lo, extra_limbs)
    BY <2>1, <1>2
  <2>3. x_xi = Limb(out, i) /\ TopOf(x_hi, out, i) < ShiftedY * W[i + 2 - ywords]
    BY <2>2 DEF Kept
  <2> DEFINE q == Div!Estimate
  <2>4. Div!Select(Div!Estimate, 0, Div!past_end) = q
    BY <1>10 DEF Div!Select
  <2>5. Estimated(q, Limb(out, i - 1) + (Limb(out, i) + x_hi * B) * B, aux \div W[ylen - 2])
    <3>1. Div!Limb(out, i - 1) = Limb(out, i - 1)
      BY DEF Div!Limb, Limb, Div!B, B
    <3> DEFINE k == i - 1
    <3>2. k \in Nat /\ k <= 2 * N /\ Div!Limb(out, i - 1) = Limb(out, k)
      BY <3>1, <1>6, <1>7, SMT
    <3> HIDE DEF k, q
    <3>3. Estimated(Div!Estimate, Limb(out, k) + (x_xi + x_hi * B) * B, aux \div W[ylen - 2])
      BY <3>2, <1>2, EstimateHere
    <3> QED
      BY <3>3, <2>3 DEF k, q
  <2> HIDE DEF q
  <2>6. PICK n, k \in Nat : \E yv, u, r, p, z :
              /\ n >= 2 /\ n <= ylen /\ ywords <= n /\ k + n = i + 1
              /\ yv = aux \div W[ylen - n]
              /\ u = x_hi * W[n] + WindowOf(out, k, n)
              /\ r = LeftOf(WindowOf(out, k, n), q, u, yv, W[n])
              /\ p = DigitOf(q, u, yv)
              /\ z = out + (r - WindowOf(out, k, n)) * W[k]
              /\ Div!Subtracted(q) = <<p, z>>
    BY <2>1, <1>2, <1>6, <1>7, DigitSubtracted
  <2>7. PICK yv, u, r, p, z :
              /\ n >= 2 /\ n <= ylen /\ ywords <= n /\ k + n = i + 1
              /\ yv = aux \div W[ylen - n]
              /\ u = x_hi * W[n] + WindowOf(out, k, n)
              /\ r = LeftOf(WindowOf(out, k, n), q, u, yv, W[n])
              /\ p = DigitOf(q, u, yv)
              /\ z = out + (r - WindowOf(out, k, n)) * W[k]
              /\ Div!Subtracted(q) = <<p, z>>
    BY <2>6
  <2>8. /\ p \in Word /\ z \in Nat
        /\ z \div W[i + 1] = out \div W[i + 1]
        /\ z % W[i + 1] \in Nat /\ z % W[i + 1] < ShiftedY * W[i + 1 - ywords]
        /\ TopOf(x_hi, out, i) = p * (ShiftedY * W[i + 1 - ywords]) + (z % W[i + 1])
    <3>1. DigitTaken(aux, ylen, out, i, x_hi, n, k, yv, u, q, r, p, z) /\ ywords <= n
      BY <2>7 DEF DigitTaken
    <3> QED
      BY <2>1, <2>3, <2>5, <3>1, <1>2, <1>7, <1>8, DigitDone
  <2>9. Limb(z, i) \in Word /\ Limb(z, i - 1) \in Word
    BY <2>8, <1>7, LimbType
  <2>10. Limb(z, i) \in Nat
    BY <2>9, <1>6, SMT DEF Word
  <2>11. Div!Limb(z, i) = Limb(z, i) /\ Div!Limb(z, i - 1) = Limb(z, i - 1)
    BY DEF Div!Limb, Limb, Div!B, B
  <2>12. Div!Subtracted(Div!Select(Div!Estimate, 0, Div!past_end)) = <<p, z>>
    BY <2>4, <2>7
  <2>13. CASE extra_limbs > 0
    <3>1. Div!is_wide
      BY <2>13, <1>1, <1>2, SMT
    <3>2. /\ x_hi' = Limb(z, i) /\ x_xi' = Limb(z, i - 1) /\ i' = i
          /\ extra_limbs' = extra_limbs - 1
          /\ out' = Div!SetSlice(z, 0, i + 1, (z % W[i]) * Div!B + Div!Limb(x_lo, extra_limbs - 1))
      BY <2>11, <2>12, <2>13 DEF Div!Digit
    <3>3. TakenIn(out', z, i, x_lo, extra_limbs)
      BY <3>2 DEF TakenIn, Div!SetSlice, Div!Slice, WindowOf, Div!Limb, Limb, Div!B, B
    <3>4. extra_limbs >= 1 /\ extra_limbs <= 2 * N /\ extra_limbs - 1 \in Nat
          /\ extra_limbs - 1 <= call.losize
      BY <2>13, <1>1, <1>2, <1>6, SMT
    <3>5. Kept(ShiftedY, ywords, ShiftedX, TRUE, x_hi, out, x_xi, i, x_lo, extra_limbs)
      BY <2>2, <3>1 DEF Kept
    <3>6. out' \in Nat /\ Kept(ShiftedY, ywords, ShiftedX, TRUE, Limb(z, i), out', Limb(z, i - 1), i,
                               x_lo, extra_limbs - 1)
      BY <2>1, <2>8, <3>3, <3>4, <3>5, <1>2, <1>5, <1>6, <1>7, <1>8, KeptIn
    <3>7. Kept(ShiftedY, ywords, ShiftedX, Div!is_wide, x_hi', out', x_xi', i, x_lo, extra_limbs')
      BY <3>1, <3>2, <3>6 DEF Kept
    <3>8. x_xi' + x_hi' * B <= aux \div W[ylen - 2]
      <4>1. x_xi' = Limb(out', i) /\ TopOf(x_hi', out', i) < ShiftedY * W[i + 2 - ywords] /\ x_hi' \in Nat
        BY <2>10, <3>2, <3>7 DEF Kept
      <4>2. Limb(out', i) + x_hi' * B <= aux \div W[ylen - 2]
        BY <2>1, <3>6, <4>1, <1>2, <1>7, LeadingFits
      <4> QED
        BY <4>1, <4>2
    <3> QED
      BY <2>1, <2>9, <3>2, <3>4, <3>6, <3>7, <3>8, <1>2, <1>3, <1>4 DEF DivKept
  <2>14. CASE ~(extra_limbs > 0)
    <3>1. extra_limbs = 0
      BY <2>14, <1>2, SMT
    <3>2. /\ x_hi' = Limb(z, i) /\ x_xi' = Limb(z, i - 1) /\ i' = i - 1 /\ extra_limbs' = extra_limbs
          /\ out' = IF Div!is_wide \/ Div!past_end THEN z ELSE Div!SetLimb(z, i, p)
      BY <2>11, <2>12, <2>14, <1>10 DEF Div!Digit, Div!Select
    <3>3. StoredIf(out', Div!is_wide, z, i, p)
      BY <3>2, <1>10 DEF StoredIf, Div!SetLimb, SetLimb, Div!Limb, Limb, Div!B, B
    <3>4. Kept(ShiftedY, ywords, ShiftedX, Div!is_wide, x_hi, out, x_xi, i, x_lo, 0)
      BY <2>2, <3>1
    <3>5. out' \in Nat /\ Kept(ShiftedY, ywords, ShiftedX, Div!is_wide, Limb(z, i), out',
                               Limb(z, i - 1), i - 1, x_lo, 0)
      BY <2>1, <2>8, <3>3, <3>4, <1>2, <1>5, <1>6, <1>7, <1>8, KeptDown
    <3>6. Kept(ShiftedY, ywords, ShiftedX, Div!is_wide, x_hi', out', x_xi', i', x_lo, extra_limbs')
      BY <3>1, <3>2, <3>5
    <3>7. x_xi' + x_hi' * B <= aux \div W[ylen - 2]
      <4> DEFINE j == i - 1
      <4>1. x_xi' = Limb(out', j) /\ TopOf(x_hi', out', j) < ShiftedY * W[j + 2 - ywords] /\ x_hi' \in Nat
        BY <2>10, <3>2, <3>6 DEF Kept
      <4>2. j \in Nat /\ j + 1 <= 2 * N /\ j + 2 >= ywords
        BY <2>1, <1>7, SMT
      <4> HIDE DEF j
      <4>3. Limb(out', j) + x_hi' * B <= aux \div W[ylen - 2]
        BY <3>5, <4>1, <4>2, <1>2, LeadingFits
      <4> QED
        BY <4>1, <4>3
    <3>8. i' \in Nat /\ i' + 1 <= call.xsize /\ ~(extra_limbs' > 0)
      BY <3>1, <3>2, <1>1, <1>2, <1>7, SMT
    <3> QED
      BY <2>9, <3>2, <3>5, <3>6, <3>7, <3>8, <1>2, <1>3, <1>4 DEF DivKept
  <2> QED
    BY <2>13, <2>14
<1> QED
  BY <1>9, <1>10

----------------------------------------------------------------------------
(* Exact division.                                                         *)

\* A word has as many bits as the table says.
LEMMA WordBitsHere == WordBits \in Nat /\ WordBits <= BitEnd /\ BitWeight[WordBits] = B
<1>1. WordBits \in Nat /\ BitWeight[WordBits] = B
  BY BitTableHere, BitTop
<1>2. 1 \in 0..(2 * N) /\ 1 * WordBits = WordBits
  BY <1>1, BaseFacts, SMT
<1>3. WordBits <= BitEnd
  BY <1>2, BitTableHere, BitsOfLimbs
<1> QED
  BY <1>1, <1>3

\* The inverse that the loop multiplies by.
LEMMA InverseHere ==
    ASSUME aux \in Nat, aux % 2 = 1
    PROVE  Div!y_inv \in Int /\ (Div!y_inv * Limb(aux, 0)) % B = 1
<1> DEFINE v == Limb(aux, 0)
           steps == CHOOSE r \in 0..WordBits : EnoughSteps(r, WordBits)
           s == InverseRun(v, B, steps)
<1>1. v \in Nat /\ v % 2 = 1
  BY BitTableHere, OddLimb
<1>2. steps \in 0..WordBits /\ EnoughSteps(steps, WordBits)
  BY WordBitsHere, StepsExist
<1>3. Div!y_inv = Div!invert_odd(v, WordBits)
  BY DEF Div!y_inv, Div!Limb, Limb, Div!B, B
<1>4. steps = CHOOSE r \in 0..WordBits : /\ 5 * Div!PowerOfTwo(r) >= WordBits
                                         /\ (r = 0 \/ 5 * Div!PowerOfTwo(r - 1) < WordBits)
  BY DEF EnoughSteps, Div!PowerOfTwo, PowerOfTwo
<1>5. BitWeight[WordBits] = B
  BY WordBitsHere
<1> HIDE DEF v, steps
<1>6. Div!invert_odd(v, WordBits) = s[steps].x
  BY <1>4, <1>5 DEF Div!invert_odd, InverseRun, InvertSeed
<1> HIDE DEF s
<1>7. steps \in Nat /\ WordBits <= 5 * PowerOfTwo(steps)
  <2>1. steps \in Nat
    BY <1>2, WordBitsHere, SMT
  <2>2. PowerOfTwo(steps) \in Nat
    BY <2>1, PowerDoubles
  <2>3. 5 * PowerOfTwo(steps) >= WordBits
    BY <1>2 DEF EnoughSteps
  <2> QED
    BY <2>1, <2>2, <2>3, WordBitsHere, SMT
<1>8. s[steps].x \in Int /\ (s[steps].x * v) % B = 1
  <2>1. s = InverseRun(v, B, steps)
    BY DEF s
  <2> QED
    BY <1>1, <1>7, <2>1, BitTableHere, WordBitsHere, InverseRight
<1> QED
  BY <1>3, <1>6, <1>8 DEF v

\* The lowest bit of the divisor that is set.
LEMMA ZerosHere ==
    ASSUME DivTyped, NEW k, k = Div!trailing_zeros(call.Y, call.ysize)
    PROVE  k \in Nat /\ k + 1 <= BitEnd /\ ZerosAre(k, call.Y, BitWeight)
<1> DEFINE y == call.Y
           n == call.ysize
           e == n * WordBits
<1>1. n \in 1..N /\ n \in 0..(2 * N) /\ y \in Nat /\ y > 0 /\ y < W[n]
  BY BaseFacts, SMT DEF DivTyped
<1>2. e \in Nat /\ e <= BitEnd /\ BitWeight[e] = W[n]
  BY <1>1, BitTableHere, BitsOfLimbs
<1>3. Div!bits_precision(n) = e
  BY DEF Div!bits_precision
<1>4. k = CHOOSE j \in 0..e : y % BitWeight[j + 1] # 0 /\ y % BitWeight[j] = 0
  <2>1. y # 0
    BY <1>1, SMT
  <2> QED
    BY <2>1, <1>3 DEF Div!trailing_zeros
<1> HIDE DEF y, n, e
<1>5. \E j \in Nat : j + 1 <= e /\ ZerosAre(j, y, BitWeight)
  BY <1>1, <1>2, BitTableHere, ZerosExist
<1>6. \E j \in 0..e : y % BitWeight[j + 1] # 0 /\ y % BitWeight[j] = 0
  <2>1. PICK j \in Nat : j + 1 <= e /\ ZerosAre(j, y, BitWeight)
    BY <1>5
  <2>2. j \in 0..e
    BY <2>1, <1>2, SMT
  <2> QED
    BY <2>1, <2>2 DEF ZerosAre
<1>7. k \in 0..e /\ y % BitWeight[k + 1] # 0 /\ y % BitWeight[k] = 0
  BY <1>4, <1>6
<1>8. k # e
  <2>1. ASSUME k = e PROVE FALSE
    <3> DEFINE b == BitWeight[e]
    <3>1. y % b = 0
      BY <1>7, <2>1
    <3>2. b \in Nat /\ b > 0
      BY <1>2, BitTableHere, BitFacts
    <3>3. y < b
      BY <1>1, <1>2
    <3> HIDE DEF b
    <3>4. y \in 0..(b - 1)
      BY <1>1, <3>2, <3>3, SMT
    <3>5. y % b = y
      BY <3>2, <3>4, ResidueItself
    <3> QED
      BY <3>1, <3>5, <1>1, SMT
  <2> QED
    BY <2>1
<1>9. k \in Nat /\ k + 1 <= BitEnd
  BY <1>2, <1>7, <1>8, BitTableHere, BitTop, SMT
<1>10. ZerosAre(k, y, BitWeight)
  BY <1>7 DEF ZerosAre
<1> QED
  BY <1>9, <1>10 DEF y

\* The length of the divisor.
LEMMA DivisorBits ==
    ASSUME DivTyped
    PROVE  IsLength(Div!bits(call.Y), call.Y, BitWeight, BitEnd)
<1>1. call.ysize \in 0..(2 * N) /\ call.Y \in Nat /\ call.Y < W[call.ysize]
  BY BaseFacts, SMT DEF DivTyped
<1> QED
  BY <1>1, LengthOfLimbs

\* The invariant holds before the first iteration.
LEMMA EnterExactKeeps ==
    ASSUME DivTyped, DivEntered, Div!EnterExact
    PROVE  HenselKept'
<1>1. /\ call.losize = 0 /\ call.xsize \in 1..(2 * N) /\ call.ysize \in 1..N
      /\ call.X \in Nat /\ call.X < W[call.losize + call.xsize]
      /\ call.Y \in Nat /\ call.Y > 0 /\ call.Y < W[call.ysize]
  <2>1. Div!is_exact => ~Div!is_wide
    BY DEF Div!is_exact, Div!is_wide
  <2> QED
    BY <2>1 DEF DivTyped, Div!EnterExact
<1>2. /\ out = call.X \div W[call.losize] /\ aux = call.Y /\ ylen = call.ysize
      /\ ywords = Div!to_limbs(Div!bits(call.Y)) /\ i = 0 /\ meta_carry = 0
  BY DEF DivEntered
<1> DEFINE k  == Div!trailing_zeros(call.Y, call.ysize)
           l  == Div!bits(call.Y)
           b  == BitWeight[k]
           c  == call.Y \div b
           w  == Div!to_limbs(l - k)
           v  == call.X \div b
           ln == ylen'
<1>3. /\ aux' = c /\ out' = Div!shr(out, k) /\ ywords' = w /\ lshift' = k
      /\ (ln = w \/ ln = call.ysize)
      /\ call' = call /\ i' = i /\ meta_carry' = meta_carry /\ Div!is_exact
  <2> DEFINE z == Div!trailing_zeros(aux, Div!ysize)
  <2>1. /\ aux' = Div!shr(aux, z) /\ out' = Div!shr(out, z)
        /\ ywords' = Div!to_limbs(Div!bits(aux) - z) /\ lshift' = z
        /\ ylen' = IF Div!vartime THEN ywords' ELSE Div!ysize
        /\ call' = call /\ i' = i /\ meta_carry' = meta_carry /\ Div!is_exact
    BY DEF Div!EnterExact, Div!exact
  <2>2. z = k
    BY <1>2 DEF Div!ysize
  <2>3. Div!shr(aux, z) = c
    BY <1>2, <2>2 DEF Div!shr
  <2>4. Div!ysize = call.ysize
    BY DEF Div!ysize
  <2> HIDE DEF z, k, c
  <2> QED
    BY <1>2, <2>1, <2>2, <2>3, <2>4
<1>4. k \in Nat /\ k + 1 <= BitEnd /\ ZerosAre(k, call.Y, BitWeight)
  BY ZerosHere
<1>5. IsLength(l, call.Y, BitWeight, BitEnd)
  BY DivisorBits
<1>6. w = ((l - k) + WordBits - 1) \div WordBits
  BY DEF Div!to_limbs
<1>7. c \in Nat /\ c % 2 = 1 /\ w \in 1..call.ysize /\ c < W[w]
  <2> DEFINE y == call.Y
             n == call.ysize
  <2>1. /\ y \in Nat /\ y > 0 /\ n \in 1..N /\ y < W[n] /\ IsLength(l, y, BitWeight, BitEnd)
        /\ ZerosAre(k, y, BitWeight) /\ c = y \div BitWeight[k]
    BY <1>1, <1>4, <1>5
  <2> HIDE DEF y, n, k, l, c, w
  <2>2. c \in Nat /\ c % 2 = 1 /\ w \in 1..n /\ c < W[w]
    BY <2>1, <1>4, <1>6, BitTableHere, ExactEntered
  <2> QED
    BY <2>2 DEF n
<1>8. out = call.X /\ call.X < W[call.xsize]
  <2>1. W[call.losize] = 1 /\ call.losize + call.xsize = call.xsize
    BY <1>1, WeightAssumption, SMT
  <2>2. call.X \div 1 = call.X
    BY <1>1, SMT
  <2> QED
    BY <2>1, <2>2, <1>1, <1>2
<1>9. out' = v
  BY <1>3, <1>8 DEF Div!shr
<1>10. v \in Nat /\ v < W[call.xsize]
  <2>1. b \in Nat /\ b > 0
    <3>1. k <= BitEnd
      BY <1>4, BitTableHere, BitTop, SMT
    <3> QED
      BY <3>1, <1>4, BitTableHere, BitFacts
  <2> DEFINE x == call.X
             m == W[call.xsize]
             r == x % b
  <2>2. x \in Nat /\ x < m
    BY <1>8, <1>1
  <2>3. m \in Nat
    <3>1. call.xsize \in 0..(2 * N)
      BY <1>1, BaseFacts, SMT
    <3> QED
      BY <3>1, WeightFacts
  <2>4. v \in Nat /\ x = b * v + r /\ r \in Nat
    <3> HIDE DEF x, b
    <3>1. v = x \div b
      BY DEF x
    <3> HIDE DEF v
    <3> QED
      BY <2>1, <2>2, <3>1, DivMod, SMT
  <2> HIDE DEF v, b, x, m, r
  <2>5. v * 1 <= v * b
    <3>1. 1 <= b
      BY <2>1, SMT
    <3> QED
      BY <3>1, <2>1, <2>4, Monotone, SMT
  <2> DEFINE p == b * v
  <2>6. v <= p /\ p \in Int /\ x = p + r
    <3>1. v * 1 = v /\ v * b = b * v /\ b * v \in Int
      BY <2>1, <2>4, SMT
    <3> QED
      BY <2>4, <2>5, <3>1
  <2> HIDE DEF p
  <2>7. v < m
    BY <2>2, <2>3, <2>4, <2>6, SMT
  <2> QED
    BY <2>4, <2>7 DEF m
<1>11. HenselGood(v, c, v, 0, 0, Div!MinOf(0 + ln, call.xsize), call.xsize)
  <2> DEFINE t == Div!MinOf(0 + ln, call.xsize)
             m == W[t]
  <2>1. t \in 0..(2 * N)
    <3>1. ln \in Nat /\ ln <= N
      <4>1. call.ysize \in Nat /\ call.ysize <= N /\ w \in Nat /\ w <= N
        <5> HIDE DEF w
        <5> QED
          BY <1>1, <1>7, BaseFacts, SMT
      <4> QED
        BY <1>3, <4>1
    <3> HIDE DEF ln
    <3> QED
      BY <3>1, <1>1, BaseFacts, SMT DEF Div!MinOf
  <2>2. m \in Nat
    BY <2>1, WeightFacts
  <2>3. v % W[0] = 0
    <3>1. v % 1 = 0
      <4> HIDE DEF v
      <4> QED
        BY <1>10, SMT
    <3> QED
      BY <3>1, FirstWeights
  <2> HIDE DEF t, m, v, c
  <2>4. v = c * 0 + (v - 0) - 0 * m
    BY <2>2, <1>7, <1>10, SMT
  <2>5. HenselEqn(v, c, v, 0, 0, t)
    BY <2>3, <2>4 DEF HenselEqn, m
  <2> QED
    BY <2>5, <1>10 DEF HenselGood, t
<1>12. ln \in Nat /\ ln <= N /\ w \in 1..ln
  <2> HIDE DEF w, ln
  <2> QED
    BY <1>1, <1>3, <1>7, BaseFacts, SMT
<1>13. Div!is_exact' = Div!is_exact /\ call'.xsize = call.xsize /\ call'.X = call.X
  BY <1>3 DEF Div!is_exact
<1>14. i' = 0 /\ meta_carry' = 0 /\ i' \in Nat /\ i' <= call.xsize
  <2>1. i' = 0
    BY <1>2, <1>3
  <2>2. call.xsize \in Nat
    BY <1>1, BaseFacts, SMT
  <2> QED
    BY <2>1, <2>2, <1>2, <1>3, SMT
<1>15. HenselWindowTop' = Div!MinOf(0 + ln, call.xsize)
  BY <1>13, <1>14 DEF HenselWindowTop, Div!MinOf
<1> HIDE DEF k, l, c, w, v, ln
<1>16. HenselGood(call'.X \div BitWeight[lshift'], aux', out', i', meta_carry',
                  HenselWindowTop', call'.xsize)
  <2>1. call'.X \div BitWeight[lshift'] = v
    BY <1>3, <1>13 DEF v
  <2> QED
    BY <2>1, <1>3, <1>9, <1>11, <1>13, <1>14, <1>15
<1>17. ylen' = ln
  BY DEF ln
<1> QED
  BY <1>3, <1>7, <1>12, <1>13, <1>14, <1>16, <1>17 DEF HenselKept

\* One iteration is that of the integers.
LEMMA HenselStepIs ==
    ASSUME Div!HenselDigit, ~Div!done,
           NEW r, r = Div!y_remain, NEW inv, inv = Div!y_inv
    PROVE  HenselStep(out, i, r, aux, inv, meta_carry, call.xsize, out', meta_carry')
<1> DEFINE q    == (Limb(out, i) * inv) % B
           n    == r - 1
           sub  == (q * (aux % W[r])) \div B
           win  == WindowOf(out, i + 1, n)
           b    == IF win < sub % W[n] THEN 1 ELSE 0
           z    == SetLimb(out, i, q)
                     + (((win - sub) % W[n]) - WindowOf(SetLimb(out, i, q), i + 1, n)) * W[i + 1]
           meta == wrapping_add(meta_carry, sub \div W[n])
           top  == i + r
<1>1. Div!Select(Div!wrapping_mul(Div!Limb(out, i), Div!y_inv), Div!Limb(out, i), Div!done) = q
  BY DEF Div!Select, Div!wrapping_mul, Div!Limb, Limb, Div!B, B
<1>2. Div!B = B
  BY DEF Div!B, B
<1>3. /\ Div!Slice(out, i + 1, n) = win
      /\ Div!SetSlice(Div!SetLimb(out, i, q), i + 1, n, (win - sub) % W[n]) = z
  BY DEF Div!Slice, Div!SetSlice, WindowOf, Div!SetLimb, SetLimb, Div!Limb, Limb, Div!B, B
<1>4. Div!wrapping_add(meta_carry, sub \div W[n]) = meta
  BY DEF Div!wrapping_add, wrapping_add, Div!B, B
<1>5. IF top < Div!xsize
        THEN LET s == Div!borrowing_sub(Div!Limb(z, top), meta, Div!Mask(b = 1))
             IN  /\ out' = Div!SetLimb(z, top, s[1])
                 /\ meta_carry' = Div!wrapping_sub(0, s[2])
        ELSE /\ out' = z
             /\ meta_carry' = Div!wrapping_add(meta, b)
  BY <1>1, <1>2, <1>3, <1>4 DEF Div!HenselDigit
<1>6. Div!xsize = call.xsize
  BY DEF Div!xsize
<1> HIDE DEF z, top, b, meta, q, win, sub
<1>7. CASE top < call.xsize
  <2> DEFINE p == borrowing_sub(Limb(z, top), meta, Mask(b = 1))
  <2>1. Div!borrowing_sub(Div!Limb(z, top), meta, Div!Mask(b = 1)) = p
    BY DEF Div!borrowing_sub, borrowing_sub, Div!Limb, Limb, Div!Mask, Mask, Div!B, B,
           Div!WordMAX, WordMAX
  <2>2. out' = SetLimb(z, top, p[1]) /\ meta_carry' = wrapping_sub(0, p[2])
    <3> DEFINE s == Div!borrowing_sub(Div!Limb(z, top), meta, Div!Mask(b = 1))
    <3>1. out' = Div!SetLimb(z, top, s[1]) /\ meta_carry' = Div!wrapping_sub(0, s[2])
      BY <1>5, <1>6, <1>7
    <3>2. s = p
      BY <2>1
    <3> HIDE DEF s, p
    <3> QED
      BY <3>1, <3>2 DEF Div!SetLimb, SetLimb, Div!Limb, Limb, Div!B, B, Div!wrapping_sub, wrapping_sub
  <2>3. HenselAbove(z, top, meta, b, p, out', meta_carry')
    <3> DEFINE o == out'
               c == meta_carry'
    <3>1. o = SetLimb(z, top, p[1]) /\ c = wrapping_sub(0, p[2])
      BY <2>2
    <3>2. p = borrowing_sub(Limb(z, top), meta, Mask(b = 1))
      OBVIOUS
    <3> HIDE DEF o, c, p
    <3>3. HenselAbove(z, top, meta, b, p, o, c)
      BY <3>1, <3>2 DEF HenselAbove
    <3> QED
      BY <3>3 DEF o, c
  <2> HIDE DEF p
  <2> QED
    BY <1>7, <2>3 DEF HenselStep, q, sub, win, b, z, meta, top
<1>8. CASE ~(top < call.xsize)
  <2>1. out' = z /\ meta_carry' = wrapping_add(meta, b)
    BY <1>5, <1>6, <1>8 DEF Div!wrapping_add, wrapping_add, Div!B, B
  <2> QED
    BY <1>8, <2>1 DEF HenselStep, q, sub, win, b, z, meta, top
<1> QED
  BY <1>7, <1>8

\* The limbs of the divisor in use fit above limb i.
LEMMA HenselFits ==
    ASSUME DivTyped, HenselKept, i < call.xsize, ~Div!done,
           NEW r, r = Div!y_remain, NEW inv, inv = Div!y_inv, out \in Nat
    PROVE  /\ HenselHere(out, i, ylen, r, aux, inv, ywords, call.xsize)
           /\ HenselWindowTop = i + r
<1>1. call.xsize \in Nat /\ call.xsize <= 2 * N
  BY BaseFacts, SMT DEF DivTyped
<1>2. /\ i \in Nat /\ ylen \in Nat /\ ywords \in 1..ylen
      /\ aux \in Nat /\ aux % 2 = 1 /\ aux < W[ywords]
  BY DEF HenselKept
<1>3. inv \in Int /\ (inv * Limb(aux, 0)) % B = 1
  BY <1>2, InverseHere
<1>4. r = IF ylen < call.xsize - i THEN ylen ELSE call.xsize - i
  BY DEF Div!y_remain, Div!MinOf, Div!xsize
<1>5. ~(r < ywords)
  BY DEF Div!done
<1>6. ywords \in Nat /\ ywords >= 1
  BY <1>2, SMT
<1>7. /\ i + r <= call.xsize /\ r \in Nat
      /\ (IF ylen < call.xsize - i THEN r = ylen ELSE r = call.xsize - i)
      /\ ywords <= r
      /\ HenselWindowTop = i + r
  BY <1>1, <1>2, <1>4, <1>5, <1>6, SMT DEF HenselWindowTop, Div!MinOf
<1> QED
  BY <1>1, <1>2, <1>3, <1>6, <1>7 DEF HenselHere

\* One iteration keeps the invariant.
LEMMA HenselKeeps ==
    ASSUME DivTyped, HenselKept, Div!HenselDigit
    PROVE  HenselKept'
<1>1. /\ i < call.xsize /\ i' = i + 1
      /\ call' = call /\ aux' = aux /\ ylen' = ylen /\ ywords' = ywords /\ lshift' = lshift
  BY DEF Div!HenselDigit, Div!xsize, Div!ys
<1>2. /\ Div!is_exact /\ i \in Nat /\ ylen \in Nat /\ ylen <= N /\ ywords \in 1..ylen
      /\ aux \in Nat /\ aux % 2 = 1 /\ aux < W[ywords]
      /\ ~Div!done => HenselGood(call.X \div BitWeight[lshift], aux, out, i, meta_carry,
                                 HenselWindowTop, call.xsize)
  BY DEF HenselKept
<1>3. call.xsize \in Nat /\ ywords \in Nat /\ i' \in Nat /\ i' <= call.xsize
  <2>1. call.xsize \in Nat
    BY BaseFacts, SMT DEF DivTyped
  <2> QED
    BY <2>1, <1>1, <1>2, SMT
<1> DEFINE x2 == out'
           c2 == meta_carry'
           k2 == i'
           t2 == HenselWindowTop'
           v  == call.X \div BitWeight[lshift]
           xn == call.xsize
<1>4. t2 = IF (i + 1) + ylen < xn THEN (i + 1) + ylen ELSE xn
  BY <1>1 DEF HenselWindowTop, Div!MinOf
<1>5. ASSUME ~Div!done'
      PROVE  HenselGood(v, aux, x2, i + 1, c2, t2, xn)
  <2>1. ~((IF ylen < xn - (i + 1) THEN ylen ELSE xn - (i + 1)) < ywords)
    BY <1>1, <1>5 DEF Div!done, Div!y_remain, Div!MinOf, Div!xsize
  <2>2. (i + 1) + ywords <= xn
    BY <2>1, <1>2, <1>3, SMT
  <2>3. ~Div!done
    BY <2>2, <1>2, <1>3, SMT DEF Div!done, Div!y_remain, Div!MinOf, Div!xsize
  <2> DEFINE r == Div!y_remain
             inv == Div!y_inv
  <2>4. HenselGood(v, aux, out, i, meta_carry, HenselWindowTop, xn)
    BY <1>2, <2>3
  <2>5. out \in Nat
    BY <2>4 DEF HenselGood
  <2>6. HenselHere(out, i, ylen, r, aux, inv, ywords, xn) /\ HenselWindowTop = i + r
    BY <1>1, <2>3, <2>5, HenselFits
  <2>7. HenselStep(out, i, r, aux, inv, meta_carry, xn, x2, c2)
    BY <2>3, HenselStepIs
  <2> HIDE DEF x2, c2, t2, v, xn, r, inv
  <2>8. HenselGood(v, aux, out, i, meta_carry, i + r, xn)
    BY <2>4, <2>6
  <2> QED
    BY <1>4, <2>2, <2>6, <2>7, <2>8, HenselDone
<1>6. Div!is_exact'
  BY <1>1, <1>2 DEF Div!is_exact
<1>7. ASSUME ~Div!done'
      PROVE  HenselGood(call'.X \div BitWeight[lshift'], aux', x2, k2, c2, t2, call'.xsize)
  BY <1>1, <1>5, <1>7
<1> QED
  BY <1>1, <1>2, <1>3, <1>6, <1>7 DEF HenselKept

----------------------------------------------------------------------------
(* Entering the loop.                                                      *)

\* The divisor's length in bits and the limbs it uses.
LEMMA DivisorInUse ==
    ASSUME DivTyped, NEW k, k = Div!bits(call.Y), NEW w, w = Div!to_limbs(k)
    PROVE  /\ IsLength(k, call.Y, BitWeight, BitEnd)
           /\ w = (k + WordBits - 1) \div WordBits
           /\ w \in Nat /\ 1 <= w /\ w <= call.ysize
           /\ call.Y < W[w]
           /\ k \in Nat
<1>1. call.ysize \in 1..N /\ call.Y \in Nat /\ call.Y > 0 /\ call.Y < W[call.ysize] /\ N \in Nat
  BY BaseFacts DEF DivTyped
<1>2. call.ysize \in 0..(2 * N)
  BY <1>1, SMT
<1>3. IsLength(k, call.Y, BitWeight, BitEnd)
  BY <1>1, <1>2, LengthOfLimbs
<1>4. w = (k + WordBits - 1) \div WordBits
  BY DEF Div!to_limbs
<1>5. /\ w \in Nat /\ 1 <= w /\ w <= call.ysize
      /\ call.Y < W[w] /\ k \in Nat
  BY <1>1, <1>3, <1>4, BitTableHere, LimbsInUse
<1> QED
  BY <1>3, <1>4, <1>5

\* What the loop is entered with.
LargeEntered(z, n, a, ls, l1, x1, xh) ==
    /\ z = n * WordBits - Div!bits(call.Y)
    /\ n = IF Div!vartime THEN ywords ELSE call.ysize
    /\ n # 1
    /\ a = (call.Y * BitWeight[z]) % W[n]
    /\ ls = z % WordBits
    /\ l1 = (x_lo * BitWeight[ls]) % W[call.losize]
    /\ x1 = ((out * BitWeight[ls]) % W[call.xsize]) + (x_lo * BitWeight[ls]) \div W[call.losize]
    /\ xh = (out * BitWeight[ls]) \div W[call.xsize]

\* EnterLarge shifts both operands as LargeEntered says.
LEMMA EnterLargeIs ==
    ASSUME Div!EnterLarge, aux = call.Y
    PROVE  /\ \E z : LargeEntered(z, ylen', aux', lshift', x_lo', out', x_hi')
           /\ i' = call.xsize - 1
           /\ x_xi' = Limb(out', call.xsize - 1)
           /\ call' = call /\ extra_limbs' = extra_limbs /\ ywords' = ywords
<1> DEFINE z == Div!leading_zeros(aux, ylen')
<1>1. z = ylen' * WordBits - Div!bits(call.Y)
  BY DEF Div!leading_zeros, Div!bits_precision
<1>2. ylen' = IF Div!vartime THEN ywords ELSE call.ysize
  BY DEF Div!EnterLarge, Div!ysize
<1>3. ylen' # 1
  BY <1>2 DEF Div!EnterLarge, Div!ByOneLimb, Div!ysize
<1>4. aux' = (call.Y * BitWeight[z]) % W[ylen'] /\ lshift' = z % WordBits
  BY DEF Div!EnterLarge, Div!shl
<1>5. /\ x_lo' = (x_lo * BitWeight[lshift']) % W[call.losize]
      /\ out' = ((out * BitWeight[lshift']) % W[call.xsize])
                  + (x_lo * BitWeight[lshift']) \div W[call.losize]
      /\ x_hi' = (out * BitWeight[lshift']) \div W[call.xsize]
      /\ i' = call.xsize - 1
  BY DEF Div!EnterLarge, Div!shl, Div!shl_out, Div!xsize, Div!losize
<1>6. x_xi' = Limb(out', call.xsize - 1)
  BY <1>5 DEF Div!EnterLarge, Div!Limb, Limb, Div!B, B
<1>7. call' = call /\ extra_limbs' = extra_limbs /\ ywords' = ywords
  BY DEF Div!EnterLarge
<1> HIDE DEF z
<1>8. LargeEntered(z, ylen', aux', lshift', x_lo', out', x_hi')
  BY <1>1, <1>2, <1>3, <1>4, <1>5 DEF LargeEntered
<1> QED
  BY <1>5, <1>6, <1>7, <1>8

\* It is the shifted operands.
LEMMA LargeIsEntered ==
    ASSUME DivTyped, DivEntered,
           NEW z, NEW n, NEW a, NEW ls, NEW l1, NEW x1, NEW xh,
           LargeEntered(z, n, a, ls, l1, x1, xh)
    PROVE  /\ ls \in 0..(WordBits - 1)
           /\ Entered(call.Y * BitWeight[ls], ywords, a, n, x1, call.xsize, xh, l1, call.losize,
                      call.X * BitWeight[ls])
           /\ ywords \in Nat /\ ywords <= call.ysize
<1>1. /\ call.losize \in 0..N /\ call.xsize \in 1..(2 * N) /\ call.ysize \in 1..N
      /\ call.losize + call.xsize < 2 * N
      /\ call.X \in Nat /\ call.X < W[call.losize + call.xsize]
      /\ call.Y \in Nat /\ call.Y > 0 /\ call.Y < W[call.ysize]
      /\ IF Div!is_wide THEN call.ysize <= call.xsize ELSE call.losize = 0
  BY DEF DivTyped
<1>2. /\ x_lo = call.X % W[call.losize] /\ out = call.X \div W[call.losize]
      /\ extra_limbs = call.losize
      /\ aux = call.Y /\ ylen = call.ysize /\ ywords = Div!to_limbs(Div!bits(call.Y))
  BY DEF DivEntered
<1> DEFINE k == Div!bits(call.Y)
           lo == call.losize
           xn == call.xsize
           y  == call.Y
           b  == BitWeight[ls]
<1>3. /\ IsLength(k, y, BitWeight, BitEnd)
      /\ ywords = (k + WordBits - 1) \div WordBits
      /\ ywords \in Nat /\ 1 <= ywords /\ ywords <= call.ysize
      /\ y < W[ywords]
      /\ k \in Nat
  <2>1. DivTyped /\ ywords = Div!to_limbs(k)
    BY <1>2
  <2> HIDE DEF k
  <2>2. k = Div!bits(call.Y)
    BY DEF k
  <2> QED
    BY <2>1, <2>2, DivisorInUse
<1>4. /\ z = n * WordBits - k
      /\ n = IF Div!vartime THEN ywords ELSE call.ysize
      /\ n # 1
      /\ a = (y * BitWeight[z]) % W[n]
      /\ ls = z % WordBits
      /\ l1 = (x_lo * b) % W[lo]
      /\ x1 = ((out * b) % W[xn]) + (x_lo * b) \div W[lo]
      /\ xh = (out * b) \div W[xn]
  BY DEF LargeEntered
<1> HIDE DEF k
<1>5. N \in Nat /\ lo \in Nat /\ xn \in Nat /\ call.ysize \in Nat
  BY <1>1, BaseFacts, SMT
<1>6. n \in 2..N /\ y < W[n]
  <2>1. CASE Div!vartime
    <3>1. n = ywords
      BY <1>4, <2>1
    <3>2. n \in 2..N
      BY <3>1, <1>1, <1>3, <1>4, <1>5, SMT
    <3> QED
      BY <3>1, <3>2, <1>3
  <2>2. CASE ~Div!vartime
    <3>1. n = call.ysize
      BY <1>4, <2>2
    <3>2. n \in 2..N
      BY <3>1, <1>1, <1>4, <1>5, SMT
    <3> QED
      BY <3>1, <3>2, <1>1
  <2> QED
    BY <2>1, <2>2
<1>7. /\ ls \in 0..(WordBits - 1)
      /\ Normalized(a, n, ywords, y * b)
  <2>1. z = n * WordBits - k /\ ls = z % WordBits /\ a = (y * BitWeight[z]) % W[n]
    BY <1>4
  <2>2. y \in Nat /\ y > 0
    BY <1>1
  <2> HIDE DEF y
  <2>4. /\ ls \in 0..(WordBits - 1)
        /\ Normalized(a, n, ywords, y * BitWeight[ls])
    BY <2>1, <2>2, <1>3, <1>6, BitTableHere, DivisorShifted
  <2> QED
    BY <2>4
<1>8. /\ out \in Nat /\ out < W[xn] /\ x_lo \in Nat /\ x_lo < W[lo] /\ call.X = out * W[lo] + x_lo
  <2> DEFINE m == W[lo]
             t == W[xn]
  <2>1. m \in Nat /\ m > 0 /\ t \in Nat /\ t > 0 /\ W[lo + xn] = m * t
    <3>1. lo + xn \in Nat /\ lo + xn <= 2 * N
      BY <1>1, <1>5, SMT
    <3> DEFINE c == lo + xn
    <3>2. c \in Nat /\ c = lo + xn /\ c <= 2 * N
      BY <3>1
    <3> HIDE DEF c, lo, xn
    <3>3. W[c] = W[lo] * W[xn] /\ W[lo] \in Nat /\ W[lo] > 0 /\ W[xn] \in Nat /\ W[xn] > 0
      BY <3>2, <1>5, WeightsAdd
    <3> QED
      BY <3>3 DEF c
  <2> DEFINE x == call.X
  <2>2. x \in Nat /\ x < m * t /\ out = x \div m /\ x_lo = x % m
    BY <1>1, <1>2, <2>1
  <2> HIDE DEF m, t, x
  <2>3. out \in Nat /\ x_lo \in Nat /\ x_lo < m /\ x = m * out + x_lo
    BY <2>1, <2>2, DivMod, SMT
  <2>4. m * out < m * t
    <3> DEFINE p == m * out
               q == m * t
    <3>1. x = p + x_lo /\ x < q /\ p \in Int /\ q \in Int
      <4>1. m * out \in Int /\ m * t \in Int
        BY <2>1, <2>3, SMT
      <4> QED
        BY <4>1, <2>2, <2>3
    <3> HIDE DEF p, q
    <3>2. p < q
      BY <3>1, <2>3, SMT
    <3> QED
      BY <3>2 DEF p, q
  <2>5. out < t
    BY <2>1, <2>3, <2>4, Cancel, SMT
  <2>6. m * out = out * m
    BY <2>1, <2>3, SMT
  <2> QED
    BY <2>3, <2>5, <2>6 DEF m, t, x
<1>9. DividendGiven(out, xn, x_lo, lo, call.X)
  <2>1. xn \in 1..(2 * N) /\ lo \in 0..(2 * N)
    BY <1>1, <1>5, SMT
  <2> QED
    BY <2>1, <1>8 DEF DividendGiven
<1>10. /\ x1 \in Nat /\ x1 < W[xn] /\ xh \in Nat /\ 2 * (xh + 1) <= B
       /\ l1 \in Nat /\ l1 < W[lo]
       /\ call.X * b = (xh * W[xn] + x1) * W[lo] + l1
  <2>1. b = BitWeight[ls]
    OBVIOUS
  <2> HIDE DEF b, lo, xn
  <2> QED
    BY <2>1, <1>4, <1>7, <1>9, BitTableHere, DividendShifted
<1>11. Entered(y * b, ywords, a, n, x1, xn, xh, l1, lo, call.X * b)
  <2>1. xn \in 1..(2 * N) /\ lo \in 0..(2 * N)
    BY <1>1, <1>5, SMT
  <2> QED
    BY <2>1, <1>7, <1>10 DEF Entered
<1> QED
  BY <1>3, <1>7, <1>11

\* The invariant holds before the first iteration.
LEMMA EnterLargeKeeps ==
    ASSUME DivTyped, DivEntered, Div!EnterLarge
    PROVE  DivKept'
<1>1. /\ call.losize \in 0..N /\ call.xsize \in 1..(2 * N) /\ call.ysize \in 1..N
      /\ IF Div!is_wide THEN call.ysize <= call.xsize ELSE call.losize = 0
  BY DEF DivTyped
<1>2. aux = call.Y /\ extra_limbs = call.losize
  BY DEF DivEntered
<1>4. /\ \E z : LargeEntered(z, ylen', aux', lshift', x_lo', out', x_hi')
      /\ i' = call.xsize - 1
      /\ x_xi' = Limb(out', call.xsize - 1)
      /\ call' = call /\ extra_limbs' = extra_limbs /\ ywords' = ywords
  BY <1>2, EnterLargeIs
<1> DEFINE n  == ylen'
           a  == aux'
           ls == lshift'
           l1 == x_lo'
           x1 == out'
           xh == x_hi'
           lo == call.losize
           xn == call.xsize
           sy == call.Y * BitWeight[ls]
           sx == call.X * BitWeight[ls]
<1>5. N \in Nat /\ lo \in Nat /\ xn \in Nat /\ call.ysize \in Nat /\ B \in Nat /\ B >= 2
      /\ xn >= 1 /\ xn - 1 \in 0..(2 * N) /\ (xn - 1) + 1 = xn /\ xn - 1 \in Nat
  BY <1>1, BaseFacts, SMT
<1>6. /\ ls \in 0..(WordBits - 1)
      /\ Entered(sy, ywords, a, n, x1, xn, xh, l1, lo, sx)
      /\ ywords \in Nat /\ ywords <= call.ysize
  <2>1. \E z : LargeEntered(z, n, a, ls, l1, x1, xh)
    BY <1>4
  <2> HIDE DEF n, a, ls, l1, x1, xh
  <2>2. PICK z : LargeEntered(z, n, a, ls, l1, x1, xh)
    BY <2>1
  <2> QED
    BY <2>2, LargeIsEntered
<1>7. /\ ShiftedY' = sy /\ ShiftedX' = sx /\ Div!is_wide' = Div!is_wide
  BY <1>4 DEF ShiftedY, ShiftedX, Div!is_wide
<1> DEFINE wd == Div!is_wide
<1> HIDE DEF n, a, ls, l1, x1, xh, sy, sx, wd
<1>8. /\ Normalized(a, n, ywords, sy) /\ x1 \in Nat /\ xh \in Nat /\ 2 * (xh + 1) <= B /\ l1 \in Nat
  BY <1>6 DEF Entered
<1>9. /\ Limb(x1, xn - 1) + xh * B <= a \div W[n - 2]
      /\ ywords <= xn + 1 => Kept(sy, ywords, sx, wd, xh, x1, Limb(x1, xn - 1), xn - 1, l1, lo)
  BY <1>6, KeptFirst
<1>10. Limb(x1, xn - 1) \in Word /\ xh \in Word
  <2>1. Limb(x1, xn - 1) \in Word
    BY <1>5, <1>8, LimbType
  <2>2. xh \in Word
    BY <1>5, <1>8, SMT DEF Word
  <2> QED
    BY <2>1, <2>2
<1>11. (lo > 0 => (xn - 1) + 1 >= ywords) /\ lo <= lo /\ (xn - 1) + 1 <= xn
  <2>1. lo > 0 => call.ysize <= call.xsize
    BY <1>1, <1>5, SMT
  <2> QED
    BY <2>1, <1>5, <1>6, SMT
<1>12. (xn - 1) + 2 >= ywords => Kept(sy, ywords, sx, wd, xh, x1, Limb(x1, xn - 1), xn - 1, l1, lo)
  <2>1. ASSUME (xn - 1) + 2 >= ywords PROVE ywords <= xn + 1
    BY <2>1, <1>5, <1>6, SMT
  <2> QED
    BY <2>1, <1>9
<1>13. /\ extra_limbs' = lo /\ i' = xn - 1 /\ x_xi' = Limb(x1, xn - 1)
       /\ call' = call /\ ywords' = ywords /\ ylen' = n /\ aux' = a /\ lshift' = ls /\ x_lo' = l1
       /\ out' = x1 /\ x_hi' = xh /\ call'.xsize = xn /\ call'.losize = lo
       /\ ShiftedY' = sy /\ ShiftedX' = sx /\ Div!is_wide' = wd
  BY <1>2, <1>4, <1>7 DEF n, a, ls, l1, x1, xh, wd
<1> HIDE DEF lo, xn
<1> QED
  BY <1>5, <1>6, <1>8, <1>9, <1>10, <1>11, <1>12, <1>13 DEF DivKept

----------------------------------------------------------------------------
(* The invariant holds.                                                    *)

\* A division starts with operands that fit.
LEMMA DivStarts ==
    ASSUME Div!Init
    PROVE  DivTyped /\ DivEntered /\ pc = "enter"
<1>0. PICK r \in Div!Routines, shape \in DivisionShapes :
           \E dividend \in 0..(W[shape[1] + shape[2]] - 1), divisor \in 1..(W[shape[3]] - 1) :
              call = [routine |-> r, X |-> dividend, Y |-> divisor, losize |-> shape[1],
                      xsize |-> shape[2], ysize |-> shape[3]]
  BY DEF Div!Init
<1>1. PICK dividend \in 0..(W[shape[1] + shape[2]] - 1), divisor \in 1..(W[shape[3]] - 1) :
              call = [routine |-> r, X |-> dividend, Y |-> divisor, losize |-> shape[1],
                      xsize |-> shape[2], ysize |-> shape[3]]
  BY <1>0
<1>2. shape \in (0..N) \X (1..(2 * N)) \X (1..N) /\ shape[1] + shape[2] < 2 * N
  BY ShapesAssumption
<1>3. shape[1] \in 0..N /\ shape[2] \in 1..(2 * N) /\ shape[3] \in 1..N
  BY <1>2
<1> DEFINE e == shape[1]
           f == shape[2]
           g == shape[3]
           x == dividend
           y == divisor
<1>4. /\ call.X = x /\ call.Y = y /\ call.losize = e /\ call.xsize = f /\ call.ysize = g
  BY <1>1
<1>5. e \in 0..N /\ f \in 1..(2 * N) /\ g \in 1..N /\ e + f < 2 * N
      /\ x \in 0..(W[e + f] - 1) /\ y \in 1..(W[g] - 1)
  BY <1>2, <1>3
<1> HIDE DEF e, f, g, x, y
<1>6. W[e + f] \in Nat /\ W[g] \in Nat
  <2>1. e + f \in 0..(2 * N) /\ g \in 0..(2 * N)
    BY <1>5, BaseFacts, SMT
  <2> QED
    BY <2>1, WeightFacts
<1>7. x \in Nat /\ x < W[e + f] /\ y \in Nat /\ y > 0 /\ y < W[g]
  <2> DEFINE m == W[e + f]
             t == W[g]
  <2>1. m \in Nat /\ t \in Nat /\ x \in 0..(m - 1) /\ y \in 1..(t - 1)
    BY <1>5, <1>6
  <2> HIDE DEF m, t
  <2>2. x \in Nat /\ x < m /\ y \in Nat /\ y > 0 /\ y < t
    BY <2>1, SMT
  <2> QED
    BY <2>2 DEF m, t
<1>8. IF Div!is_wide THEN call.losize > 0 /\ call.ysize <= call.xsize ELSE call.losize = 0
  BY DEF Div!Init, Div!losize, Div!ysize, Div!xsize
<1>9. DivTyped
  BY <1>4, <1>5, <1>7, <1>8 DEF DivTyped
<1>10. DivEntered
  BY DEF Div!Init, DivEntered, Div!losize, Div!ysize, Div!X, Div!Y
<1> QED
  BY <1>9, <1>10 DEF Div!Init

\* A step that does not change the call keeps its operands' types.
LEMMA DivTypedKept ==
    ASSUME DivTyped, call' = call
    PROVE  DivTyped'
BY DEF DivTyped, Div!is_wide

\* A division starts in the invariant,
LEMMA DivInitOK ==
    ASSUME Init
    PROVE  DivInv
<1>1. CASE family = "division" /\ Div!Init
  BY <1>1, DivStarts DEF DivInv
<1>2. CASE family # "division"
  BY <1>2 DEF DivInv
<1> QED
  BY <1>1, <1>2 DEF Init

\* each of its steps keeps it,
LEMMA DivNextOK ==
    ASSUME DivInv, Next
    PROVE  DivInv'
<1>1. family' = family
  BY DEF Next
<1>2. CASE family # "division"
  BY <1>1, <1>2 DEF DivInv
<1>3. CASE family = "division"
  <2>1. /\ DivTyped /\ (pc = "enter" => DivEntered) /\ (pc = "digit" => DivKept)
        /\ (pc = "hensel" => HenselKept)
    BY <1>3 DEF DivInv
  <2>2. Div!Next
    BY <1>3 DEF Next
  <2>3. CASE Div!EnterByLimb
    <3>1. pc' = "done" /\ call' = call
      BY <2>3 DEF Div!EnterByLimb, Div!Return
    <3> QED
      BY <3>1, <2>1, DivTypedKept DEF DivInv
  <2>4. CASE Div!EnterShort
    <3>1. pc' = "done" /\ call' = call
      BY <2>4 DEF Div!EnterShort, Div!Return
    <3> QED
      BY <3>1, <2>1, DivTypedKept DEF DivInv
  <2>5. CASE Div!EnterLarge
    <3>1. pc' = "digit" /\ call' = call /\ DivEntered
      BY <2>1, <2>5 DEF Div!EnterLarge
    <3>2. DivKept'
      BY <2>1, <2>5, <3>1, EnterLargeKeeps
    <3> QED
      BY <3>1, <3>2, <2>1, DivTypedKept DEF DivInv
  <2>6. CASE Div!Digit
    <3>1. pc = "digit" /\ pc' = pc /\ call' = call
      BY <2>6 DEF Div!Digit
    <3>2. DivKept'
      BY <2>1, <2>6, <3>1, DigitKeeps
    <3> QED
      BY <3>1, <3>2, <2>1, DivTypedKept DEF DivInv
  <2>7. CASE Div!Finish
    <3>1. pc' = "done" /\ call' = call
      BY <2>7 DEF Div!Finish
    <3> QED
      BY <3>1, <2>1, DivTypedKept DEF DivInv
  <2>8. CASE Div!EnterExact
    <3>1. pc' = "hensel" /\ call' = call /\ DivEntered
      BY <2>1, <2>8 DEF Div!EnterExact
    <3>2. HenselKept'
      BY <2>1, <2>8, <3>1, EnterExactKeeps
    <3> QED
      BY <3>1, <3>2, <2>1, DivTypedKept DEF DivInv
  <2>9. CASE Div!HenselDigit
    <3>1. pc = "hensel" /\ pc' = pc /\ call' = call
      BY <2>9 DEF Div!HenselDigit
    <3>2. HenselKept'
      BY <2>1, <2>9, <3>1, HenselKeeps
    <3> QED
      BY <3>1, <3>2, <2>1, DivTypedKept DEF DivInv
  <2>10. CASE Div!HenselFinish
    <3>1. pc' = "done" /\ call' = call
      BY <2>10 DEF Div!HenselFinish, Div!Return
    <3> QED
      BY <3>1, <2>1, DivTypedKept DEF DivInv
  <2> QED
    BY <2>2, <2>3, <2>4, <2>5, <2>6, <2>7, <2>8, <2>9, <2>10 DEF Div!Next
<1> QED
  BY <1>2, <1>3

\* and so does a stutter.
LEMMA DivStutters ==
    ASSUME DivInv, UNCHANGED vars
    PROVE  DivInv'
<1>1. /\ family' = family /\ call' = call /\ pc' = pc
      /\ out' = out /\ aux' = aux /\ i' = i
      /\ x_lo' = x_lo /\ x_hi' = x_hi /\ x_xi' = x_xi /\ extra_limbs' = extra_limbs
      /\ ylen' = ylen /\ ywords' = ywords /\ lshift' = lshift /\ meta_carry' = meta_carry
  BY DEF vars, loop, division
<1>2. DivTyped' = DivTyped
  BY <1>1 DEF DivTyped, Div!is_wide
<1>3. DivEntered' = DivEntered
  BY <1>1 DEF DivEntered
<1>4. DivKept' = DivKept
  <2>1. ShiftedY' = ShiftedY /\ ShiftedX' = ShiftedX /\ Div!is_wide' = Div!is_wide
    BY <1>1 DEF ShiftedY, ShiftedX, Div!is_wide
  <2> QED
    BY <1>1, <2>1 DEF DivKept
<1>5. HenselKept' = HenselKept
  <2>1. Div!is_exact' = Div!is_exact /\ Div!done' = Div!done /\ HenselWindowTop' = HenselWindowTop
    BY <1>1 DEF Div!is_exact, Div!done, Div!y_remain, Div!MinOf, Div!xsize, HenselWindowTop
  <2> QED
    BY <1>1, <2>1 DEF HenselKept
<1> QED
  BY <1>1, <1>2, <1>3, <1>4, <1>5 DEF DivInv

\* The invariant of long division is kept by every step.
THEOREM DivisionInductive == Spec => []DivInv
<1>1. Init => DivInv
  BY DivInitOK
<1>2. DivInv /\ [Next \/ Returned]_vars => DivInv'
  <2> SUFFICES ASSUME DivInv, [Next \/ Returned]_vars PROVE DivInv'
    OBVIOUS
  <2>1. CASE Next
    BY <2>1, DivNextOK
  <2>2. CASE UNCHANGED vars
    BY <2>2, DivStutters
  <2> QED
    BY <2>1, <2>2 DEF Returned
<1> QED
  BY <1>1, <1>2, PTL DEF Spec

----------------------------------------------------------------------------
(* What it says of the quotient estimates and of the digits.               *)

\* The invariant meets the assertions of the estimate of a digit.
LEMMA AssertionsFromInv ==
    ASSUME DivInv, family = "division"
    PROVE  Div!AssertionsHold
<1> SUFFICES ASSUME pc = "digit", i > 0
             PROVE  LET d    == Div!join(Div!topWords[1], Div!topWords[2])
                        u_hi == Div!join(x_xi, x_hi)
                        v    == Div!reciprocal_3by2(Div!rec, Div!topWords[1], Div!topWords[2])
                    IN  /\ 2 * d >= Div!B * Div!B
                        /\ u_hi <= d
                        /\ v * x_hi + u_hi < Div!B * Div!B
  BY DEF Div!AssertionsHold
<1>1. DivKept
  BY DEF DivInv
<1>2. /\ Normalized(aux, ylen, ywords, ShiftedY) /\ x_hi \in Word /\ x_xi \in Word
      /\ x_xi + x_hi * B <= aux \div W[ylen - 2]
  BY <1>1 DEF DivKept
<1> DEFINE v  == Div!reciprocal_3by2(Div!rec, Div!topWords[1], Div!topWords[2])
           d  == aux \div W[ylen - 2]
           d0 == Limb(aux, ylen - 2)
           d1 == Limb(aux, ylen - 1)
           u  == x_xi + x_hi * B
<1>3. IsReciprocal(v, d) /\ Div!topWords = <<d0, d1>> /\ d = d0 + d1 * B
  BY <1>2, ReciprocalHere
<1>4. Div!B = B
  BY DEF Div!B, B
<1>5. Div!join(Div!topWords[1], Div!topWords[2]) = d
  BY <1>3, <1>4 DEF Div!join
<1>6. Div!join(x_xi, x_hi) = u
  BY <1>4 DEF Div!join
<1>7. u <= d
  BY <1>2
<1> HIDE DEF v, d, d0, d1
<1>8. v * x_hi + u < B * B
  BY <1>2, <1>3, <1>7, FirstSumFits
<1>9. 2 * d >= B * B
  <2>1. B * B <= 2 * d /\ d \in Nat /\ B \in Nat
    BY <1>3, BaseFacts DEF IsReciprocal
  <2>2. B * B \in Int
    BY <2>1, SMT
  <2> DEFINE s == B * B
  <2>3. s <= 2 * d /\ s \in Int /\ d \in Nat
    BY <2>1, <2>2
  <2> HIDE DEF s
  <2>4. 2 * d >= s
    BY <2>3, SMT
  <2> QED
    BY <2>4 DEF s
<1> HIDE DEF u
<1> QED
  BY <1>4, <1>5, <1>6, <1>7, <1>8, <1>9 DEF v

\* The digits from the high end are exact,
LEMMA DigitsFromInv ==
    ASSUME DivInv, family = "division"
    PROVE  Div!DigitsExact
<1> SUFFICES ASSUME pc = "digit", ~Div!past_end
             PROVE  /\ Div!Rest < Div!D * W[extra_limbs + i + 2 - ywords]
                    /\ Div!Rest % Div!D = Div!Shifted % Div!D
                    /\ ~Div!is_wide =>
                         Div!Shifted = Div!D * ((out \div W[i + 1]) * W[i + 2 - ywords]) + Div!Rest
  BY DEF Div!DigitsExact
<1>1. DivKept /\ DivTyped
  BY DEF DivInv
<1>2. /\ lshift \in 0..(WordBits - 1)
      /\ Normalized(aux, ylen, ywords, ShiftedY)
      /\ i \in Nat /\ i + 1 <= call.xsize
      /\ extra_limbs \in Nat /\ extra_limbs <= call.losize
      /\ out \in Nat /\ x_lo \in Nat /\ x_hi \in Word /\ x_xi \in Word
      /\ i + 2 >= ywords =>
           Kept(ShiftedY, ywords, ShiftedX, Div!is_wide, x_hi, out, x_xi, i, x_lo, extra_limbs)
  BY <1>1 DEF DivKept
<1>3. ShiftedY \in Nat /\ ShiftedX \in Nat
  BY <1>1, <1>2, ShiftedTyped
<1>4. ShiftedY > 0
  BY <1>2, LeadingWords
<1>5. /\ ywords \in Nat /\ ywords >= 1 /\ ylen \in Nat /\ ywords <= ylen /\ ylen <= N /\ N \in Nat
      /\ aux = ShiftedY * W[ylen - ywords] /\ x_hi \in Nat /\ ylen - ywords \in 0..(2 * N)
  BY <1>2, BaseFacts, SMT DEF Normalized, Word
<1>6. /\ i + 2 >= ywords /\ i + 1 <= 2 * N /\ extra_limbs + i + 1 <= 2 * N
  <2>1. ~(i < ywords - 1)
    BY DEF Div!past_end
  <2>2. call.losize \in Nat /\ call.xsize \in Nat /\ call.losize + call.xsize < 2 * N
    BY <1>1, <1>5, SMT DEF DivTyped
  <2> QED
    BY <2>1, <2>2, <1>2, <1>5, SMT
<1> DEFINE rem == Remaining(x_hi, out, i, x_lo, extra_limbs)
<1>7. /\ rem < ShiftedY * W[extra_limbs + i + 2 - ywords]
      /\ rem % ShiftedY = ShiftedX % ShiftedY
      /\ ~Div!is_wide => ShiftedX = ShiftedY * ((out \div W[i + 1]) * W[i + 2 - ywords]) + rem
  <2> DEFINE wd == Div!is_wide
  <2>1. Kept(ShiftedY, ywords, ShiftedX, wd, x_hi, out, x_xi, i, x_lo, extra_limbs)
    BY <1>2, <1>6
  <2> HIDE DEF wd
  <2>3. KeptHere(ShiftedY, ywords, ShiftedX, wd, x_hi, out, x_xi, i, x_lo, extra_limbs)
    BY <2>1, <1>2, <1>3, <1>4, <1>5, <1>6 DEF KeptHere
  <2>2. /\ rem < ShiftedY * W[extra_limbs + i + 2 - ywords]
        /\ rem % ShiftedY = ShiftedX % ShiftedY
        /\ ~wd => ShiftedX = ShiftedY * ((out \div W[i + 1]) * W[i + 2 - ywords]) + rem
    BY <2>3, KeptExact
  <2> QED
    BY <2>2 DEF wd
<1>8. Div!Rest = rem
  BY DEF Div!Rest, Remaining, TopOf
<1>9. Div!Shifted = ShiftedX
  BY DEF Div!Shifted, Div!X, ShiftedX
<1>10. Div!D = ShiftedY
  <2> DEFINE m == W[ylen - ywords]
  <2>1. m \in Nat /\ m > 0 /\ aux = ShiftedY * m
    BY <1>5, WeightFacts
  <2> HIDE DEF m
  <2>2. aux = m * ShiftedY + 0 /\ aux \in Int /\ ShiftedY \in Int /\ 0 \in 0..(m - 1)
    BY <2>1, <1>3, SMT
  <2>3. aux \div m = ShiftedY
    BY <2>1, <2>2, DivisionIs
  <2> QED
    BY <2>3 DEF Div!D, m
<1> HIDE DEF rem
<1> QED
  BY <1>7, <1>8, <1>9, <1>10

\* The debug assertions of the quotient estimates hold in every iteration.
THEOREM DivAssertions == Spec => []AssertionsHold
<1>1. DivInv => AssertionsHold
  BY AssertionsFromInv DEF AssertionsHold
<1> QED
  BY <1>1, DivisionInductive, PTL

\* and so are those of an exact division from the low end,
LEMMA HenselFromInv ==
    ASSUME DivInv, family = "division"
    PROVE  Div!HenselExact
<1> SUFFICES ASSUME pc = "hensel", ~Div!done
             PROVE  Div!shr(Div!X, lshift) = aux * (out % W[i]) + (out - (out % W[i]))
                        - meta_carry * W[Div!MinOf(i + ylen, Div!xsize)]
  BY DEF Div!HenselExact
<1>1. HenselGood(call.X \div BitWeight[lshift], aux, out, i, meta_carry, HenselWindowTop, call.xsize)
  BY DEF DivInv, HenselKept
<1>2. Div!shr(Div!X, lshift) = call.X \div BitWeight[lshift]
  BY DEF Div!shr, Div!X
<1>3. HenselWindowTop = Div!MinOf(i + ylen, Div!xsize)
  BY DEF HenselWindowTop, Div!xsize
<1> QED
  BY <1>1, <1>2, <1>3 DEF HenselGood, HenselEqn

\* Every digit of a division is exact, from the high end and from the low one.
THEOREM DivDigits == Spec => []DigitsExact
<1>1. DivInv => DigitsExact
  BY DigitsFromInv, HenselFromInv DEF DigitsExact
<1> QED
  BY <1>1, DivisionInductive, PTL

----------------------------------------------------------------------------
(* Values: what an operation makes of integers that fit their limbs fits   *)
(* its limbs.                                                              *)

\* The operators of the instance of Values are those of Bits.
LEMMA ValueOps ==
    /\ \A v, k : Vals!Limb(v, k) = Limb(v, k)
    /\ \A v, k, w : Vals!SetLimb(v, k, w) = SetLimb(v, k, w)
    /\ \A f, n : Vals!FromLimbs(f, n) = FromLimbs(f, n)
    /\ Vals!Word = Word /\ Vals!WordMAX = WordMAX
    /\ \A b : Vals!Mask(b) = Mask(b)
<1>1. Vals!B = B
  BY DEF Vals!B, B
<1>2. \A v, k : Vals!Limb(v, k) = Limb(v, k)
  BY <1>1 DEF Vals!Limb, Limb
<1>3. \A v, k, w : Vals!SetLimb(v, k, w) = SetLimb(v, k, w)
  BY <1>2 DEF Vals!SetLimb, SetLimb
<1>4. \A f, n : Vals!FromLimbs(f, n) = FromLimbs(f, n)
  BY DEF Vals!FromLimbs, FromLimbs
<1>5. Vals!Word = Word /\ Vals!WordMAX = WordMAX
  BY <1>1 DEF Vals!Word, Word, Vals!WordMAX, WordMAX
<1>6. \A b : Vals!Mask(b) = Mask(b)
  BY <1>5 DEF Vals!Mask, Mask
<1> QED
  BY <1>2, <1>3, <1>4, <1>5, <1>6

\* An integer that fits its limbs, of which there is one at least.
Fits(a) == a.n \in 1..(2 * N) /\ a.v \in Nat /\ a.v < W[a.n]

\* What is stored is such an integer, and keeps the promise of its wrapper unless it
\* is marked as broken by an unchecked resize.
Good(u) == Fits(u) /\ (flag = 0 => Vals!Legal(u.kind, u.v))

\* Integers are built of a value and a number of limbs.
LEMMA BuiltFits ==
    ASSUME NEW n \in 1..(2 * N), NEW v \in Nat, v < W[n]
    PROVE  Fits(Vals!U(v, n)) /\ Vals!U(v, n).n = n /\ Vals!U(v, n).v = v
  BY DEF Fits, Vals!U

\* The limbs of one fit any number of limbs from its own up.
LEMMA FitsMore ==
    ASSUME NEW a, Fits(a), NEW n \in 1..(2 * N), a.n <= n
    PROVE  a.v \in Nat /\ a.v < W[n]
<1>1. a.n \in 0..n /\ n \in 0..(2 * N) /\ a.n \in 0..(2 * N) /\ a.v \in Nat /\ a.v < W[a.n]
  BY BaseFacts, SMT DEF Fits
<1>2. W[a.n] <= W[n] /\ W[a.n] \in Nat /\ W[n] \in Nat
  BY <1>1, WeightsGrow, WeightFacts
<1> QED
  BY <1>1, <1>2, SMT

\* What is left by the weight of n limbs fits them.
LEMMA CutFits ==
    ASSUME NEW v \in Int, NEW n \in 1..(2 * N)
    PROVE  v % W[n] \in Nat /\ v % W[n] < W[n] /\ Fits(Vals!U(v % W[n], n))
<1>1. W[n] \in Nat /\ W[n] > 0
  BY BaseFacts, WeightFacts, SMT
<1>2. v % W[n] \in Nat /\ v % W[n] < W[n]
  BY <1>1, DivMod
<1> QED
  BY <1>2, BuiltFits

\* Sums, differences and negations, limb by limb.
LEMMA SumFits ==
    ASSUME NEW a, NEW b, a.v \in Nat, b.v \in Nat, Vals!longer(a, b) \in 1..(2 * N), NEW c \in Int
    PROVE  /\ Fits(Vals!boxed_carrying_add(a, b, c)[1])
           /\ Fits(Vals!boxed_borrowing_sub(a, b, c)[1])
           /\ Vals!boxed_carrying_add(a, b, c)[1].n = Vals!longer(a, b)
           /\ Vals!boxed_borrowing_sub(a, b, c)[1].n = Vals!longer(a, b)
<1> DEFINE n == Vals!longer(a, b)
           x == a.v
           y == b.v
           s == AddedLimbs(x, y, n, c)
           d == SubtractedLimbs(x, y, n, c)
<1>1. /\ Vals!boxed_carrying_add(a, b, c)[1] = Vals!U(s[n][1], n)
      /\ Vals!boxed_borrowing_sub(a, b, c)[1] = Vals!U(d[n][1], n)
  BY DEF Vals!boxed_carrying_add, Vals!boxed_borrowing_sub, Vals!fold_limbs, AddedLimbs, SubtractedLimbs,
         Vals!carrying_add, carrying_add, Vals!borrowing_sub, borrowing_sub, Vals!Limb, Limb,
         Vals!Lo, Lo, Vals!Hi, Hi, Vals!Mask, Mask, Vals!WordMAX, WordMAX, Vals!B, B
<1>2. n \in 0..(2 * N) /\ x \in Nat /\ y \in Nat /\ n \in 1..(2 * N)
  BY BaseFacts, SMT
<1> HIDE DEF n, x, y
<1>3. s[n][1] \in Nat /\ s[n][1] < W[n] /\ d[n][1] \in Nat /\ d[n][1] < W[n]
  BY <1>2, AddedLimbsFits, SubtractedLimbsFits
<1> HIDE DEF s, d
<1> QED
  BY <1>1, <1>2, <1>3, BuiltFits DEF n

\* The limbs that p bits take.
LEMMA ToLimbs ==
    ASSUME NEW p \in Nat, NEW k \in Nat, p <= k * WordBits, NEW t, t = Vals!to_limbs(p)
    PROVE  t \in 0..k /\ (p > 0 => t >= 1) /\ t = (p + WordBits - 1) \div WordBits
<1> DEFINE wb == WordBits
           a == p + wb - 1
           r == a % wb
           kw == wb * k
           tw == wb * t
<1>1. wb \in Nat /\ wb > 0
  BY WordBitsAssumption
<1>2. t = a \div wb
  BY DEF Vals!to_limbs
<1>3. a \in Nat /\ (p > 0 => a >= wb) /\ kw \in Nat /\ a < kw + wb
  BY <1>1, SMT
<1> HIDE DEF a, wb
<1>4. t \in Nat /\ a = tw + r /\ r \in Nat /\ r < wb
  BY <1>1, <1>2, <1>3, DivMod, SMT
<1>5. wb * (k + 1) = kw + wb /\ wb * (t + 1) = tw + wb /\ tw \in Nat
  <2>1. t \in Nat
    BY <1>4
  <2> HIDE DEF r
  <2> QED
    BY <1>1, <2>1, SMT
<1>6. t < k + 1
  <2> DEFINE kk == wb * (k + 1)
  <2>1. tw < kk
    <3> HIDE DEF kw, tw, kk, r
    <3> QED
      BY <1>1, <1>3, <1>4, <1>5, SMT DEF kk
  <2>2. t \in Int /\ k + 1 \in Int
    BY <1>4, SMT
  <2> QED
    BY <1>1, <2>1, <2>2, Cancel
<1>7. p > 0 => t >= 1
  <2> SUFFICES ASSUME p > 0, t = 0 PROVE FALSE
    BY <1>4, SMT
  <2>1. tw = 0
    BY <1>1, SMT
  <2> HIDE DEF tw, r
  <2> QED
    BY <1>1, <1>3, <1>4, <2>1, SMT
<1> QED
  BY <1>2, <1>4, <1>6, <1>7, SMT DEF a, wb

\* The longer and the shorter of two.
LEMMA Longer ==
    ASSUME NEW a, NEW b, NEW k \in 1..(2 * N), a.n \in 1..k, b.n \in 1..k
    PROVE  /\ Vals!longer(a, b) \in 1..k /\ Vals!longer(a, b) \in 1..(2 * N)
           /\ a.n <= Vals!longer(a, b) /\ b.n <= Vals!longer(a, b)
           /\ Vals!shorter(a, b) \in 1..k /\ Vals!shorter(a, b) \in 1..(2 * N)
           /\ Vals!shorter(a, b) <= a.n /\ Vals!shorter(a, b) <= b.n
  BY BaseFacts, SMT DEF Vals!longer, Vals!shorter

\* A sum with room for its carry.
LEMMA ConcatenatedFits ==
    ASSUME NEW a, NEW b, Fits(a), Fits(b), NEW m, m = Vals!longer(a, b), m \in 1..N
    PROVE  Fits(Vals!concatenating_add(a, b)[1])
<1> DEFINE p == m * WordBits + 1
           n == Vals!to_limbs(p)
           x == a.v
           y == b.v
           s == AddedLimbs(x, y, n, 0)
<1>1. Vals!concatenating_add(a, b)[1] = Vals!U(s[n][1], n)
  BY DEF Vals!concatenating_add, Vals!fold_limbs, AddedLimbs, Vals!bits_precision,
         Vals!carrying_add, carrying_add, Vals!Limb, Limb, Vals!Lo, Lo, Vals!Hi, Hi, Vals!B, B
<1>2. n \in 1..(2 * N)
  <2> DEFINE k == m + 1
  <2>1. p \in Nat /\ p > 0 /\ k \in Nat /\ p <= k * WordBits /\ k <= 2 * N
    BY BaseFacts, WordBitsAssumption, SMT
  <2> HIDE DEF p, k
  <2>2. n \in 0..k /\ n >= 1
    BY <2>1, ToLimbs
  <2> HIDE DEF n
  <2> QED
    BY <2>1, <2>2, BaseFacts, SMT
<1>3. x \in Nat /\ y \in Nat /\ n \in 0..(2 * N)
  BY <1>2, BaseFacts, SMT DEF Fits
<1> HIDE DEF n, x, y
<1>4. s[n][1] \in Nat /\ s[n][1] < W[n]
  BY <1>3, AddedLimbsFits
<1> HIDE DEF s
<1> QED
  BY <1>1, <1>2, <1>4, BuiltFits

\* What overflows or underflows is cut off.
LEMMA CutSumFits ==
    ASSUME NEW a, NEW b, Fits(a), Fits(b)
    PROVE  /\ Fits(Vals!boxed_overflowing_add(a, b)[1])
           /\ Fits(Vals!boxed_underflowing_sub(a, b)[1])
           /\ Fits(Vals!boxed_wrapping_add(a, b)) /\ Fits(Vals!boxed_wrapping_sub(a, b))
<1> DEFINE k == Vals!shorter(a, b)
           c == Vals!leading(b, k)
<1>1. a.n \in 1..(2 * N) /\ b.n \in 1..(2 * N) /\ a.v \in Nat /\ b.v \in Nat /\ 2 * N \in 1..(2 * N)
  BY BaseFacts, SMT DEF Fits
<1>2. k \in 1..(2 * N) /\ k <= a.n
  BY <1>1, Longer
<1>3. c.n = k /\ c.v \in Nat
  <2>1. c = Vals!U(b.v % W[k], k)
    BY DEF Vals!leading
  <2>2. b.v % W[k] \in Nat
    <3>1. b.v \in Int
      BY <1>1, SMT
    <3> HIDE DEF k
    <3> QED
      BY <1>2, <3>1, CutFits
  <2> QED
    BY <2>1, <2>2 DEF Vals!U
<1> HIDE DEF k, c
<1>4. Vals!longer(a, c) \in 1..(2 * N)
  BY <1>1, <1>2, <1>3, Longer
<1>5. Fits(Vals!boxed_carrying_add(a, c, 0)[1]) /\ Fits(Vals!boxed_borrowing_sub(a, c, 0)[1])
  BY <1>1, <1>3, <1>4, SumFits
<1> QED
  BY <1>5 DEF Vals!boxed_overflowing_add, Vals!boxed_underflowing_sub, Vals!boxed_wrapping_add,
              Vals!boxed_wrapping_sub, k, c

\* A negation of an integer fits its limbs, whether the choice is taken or not.
LEMMA NegatedFits ==
    ASSUME NEW a, Fits(a), NEW choice
    PROVE  Fits(Vals!boxed_wrapping_neg(a, choice))
<1> DEFINE n == a.n
           x == a.v
           s == NegatedLimbs(x, x, n, 1)
<1>1. Vals!boxed_wrapping_neg(a, choice) = IF choice THEN Vals!U(s[n][1], n) ELSE a
  BY DEF Vals!boxed_wrapping_neg, Vals!fold_limbs, NegatedLimbs,
         Vals!carrying_add, carrying_add, Vals!Limb, Limb, Vals!Lo, Lo, Vals!Hi, Hi, Vals!B, B
<1>2. n \in 1..(2 * N) /\ n \in 0..(2 * N) /\ x \in Nat
  BY BaseFacts, SMT DEF Fits
<1> HIDE DEF n, x
<1>3. s[n][1] \in Nat /\ s[n][1] < W[n]
  BY <1>2, NegatedLimbsFits
<1> HIDE DEF s
<1> QED
  BY <1>1, <1>2, <1>3, BuiltFits

\* Products and quotients.
LEMMA ProductFits ==
    ASSUME NEW a, NEW b, Fits(a), Fits(b), NEW n \in 1..(2 * N)
    PROVE  /\ Fits(Vals!boxed_overflowing_mul(a, b, n)[1])
           /\ Fits(Vals!boxed_saturating_mul(a, b)) /\ Fits(Vals!boxed_checked_div(a, b)[1])
<1> DEFINE v == a.v * b.v
           m == a.n
<1>1. m \in 1..(2 * N) /\ a.v \in Nat /\ b.v \in Nat /\ v \in Int /\ a.v < W[m]
  BY BaseFacts, SMT DEF Fits
<1>2. ASSUME NEW k \in 1..(2 * N) PROVE Fits(Vals!boxed_overflowing_mul(a, b, k)[1])
  <2>1. Vals!boxed_overflowing_mul(a, b, k)[1] = Vals!U(v % W[k], k)
    BY DEF Vals!boxed_overflowing_mul
  <2> HIDE DEF v
  <2> QED
    BY <1>1, <2>1, CutFits
<1>3. Fits(Vals!boxed_saturating_mul(a, b))
  <2>1. W[m] - 1 \in Nat /\ W[m] - 1 < W[m]
    <3>1. m \in 0..(2 * N)
      BY <1>1, BaseFacts, SMT
    <3>2. W[m] \in Nat /\ W[m] > 0
      BY <3>1, WeightFacts
    <3> QED
      BY <3>2, SMT
  <2>2. Fits(Vals!U(W[m] - 1, m))
    BY <1>1, <2>1, BuiltFits
  <2>3. Fits(Vals!boxed_overflowing_mul(a, b, m)[1])
    BY <1>1, <1>2
  <2> QED
    BY <2>2, <2>3 DEF Vals!boxed_saturating_mul
<1>4. Fits(Vals!boxed_checked_div(a, b)[1])
  <2> DEFINE d == IF b.v = 0 THEN 1 ELSE b.v
             x == a.v
             q == x \div d
  <2>1. d \in Nat /\ d > 0
    BY <1>1, SMT
  <2>2. Vals!boxed_checked_div(a, b)[1] = Vals!U(q, m)
    BY DEF Vals!boxed_checked_div
  <2>3. q \in Nat /\ q <= x
    <3>0. x \in Int /\ x >= 0
      BY <1>1, SMT
    <3> HIDE DEF d, x
    <3>1. q \in Nat /\ x = d * q + (x % d) /\ x % d \in Nat
      BY <2>1, <3>0, DivMod
    <3> HIDE DEF q
    <3>2. q * 1 <= q * d
      BY <2>1, <3>1, Monotone, SMT
    <3>3. d * q = q * d /\ d * q \in Nat
      BY <2>1, <3>1, SMT
    <3> DEFINE g == d * q
               r == x % d
    <3>4. g \in Nat /\ r \in Nat /\ x = g + r /\ q <= g
      BY <3>1, <3>2, <3>3, SMT
    <3> HIDE DEF g, r, x
    <3> QED
      BY <3>1, <3>4, SMT
  <2>4. W[m] \in Nat
    BY <1>1, BaseFacts, WeightFacts, SMT
  <2>5. q < W[m]
    <3> HIDE DEF q, m
    <3> QED
      BY <1>1, <2>3, <2>4, SMT
  <2> HIDE DEF q
  <2> QED
    BY <1>1, <2>2, <2>3, <2>5, BuiltFits
<1> QED
  BY <1>2, <1>3, <1>4

\* Operations on the bits of words.
LEMMA WordBitOps ==
    ASSUME NEW x \in Word, NEW y \in Word
    PROVE  /\ Vals!limb_bitand(x, y) \in Word /\ Vals!limb_bitor(x, y) \in Word
           /\ Vals!limb_bitxor(x, y) \in Word /\ Vals!limb_not(x) \in Word
           /\ y % 2 = 1 => Vals!limb_bitor(x, y) % 2 = 1
<1> DEFINE z == AndWords(x, y, BitWeight, WordBits)
<1>1. Vals!limb_bitand(x, y) = z
  BY DEF Vals!limb_bitand, Vals!limb_bit, AndWords, BitOf
<1>2. /\ z \in Word /\ x + y - z \in Word /\ x + y - 2 * z \in Word /\ WordMAX - x \in Word
      /\ z \in Nat /\ z % 2 = (x % 2) * (y % 2)
  BY BitTableHere, WordsOfBits, AndIs
<1> HIDE DEF z
<1>3. Vals!limb_bitor(x, y) = x + y - z /\ Vals!limb_bitxor(x, y) = x + y - 2 * z
  BY <1>1 DEF Vals!limb_bitor, Vals!limb_bitxor
<1>4. Vals!limb_not(x) = WordMAX - x
  BY ValueOps DEF Vals!limb_not
<1>5. y % 2 = 1 => (x + y - z) % 2 = 1
  <2> SUFFICES ASSUME y % 2 = 1 PROVE (x + y - z) % 2 = 1
    OBVIOUS
  <2>1. x \in Nat /\ y \in Nat
    BY BaseFacts, SMT DEF Word
  <2>2. x % 2 \in 0..1
    BY <2>1, SMT
  <2>3. z % 2 = x % 2
    BY <1>2, <2>2, SMT
  <2> QED
    BY <1>2, <2>1, <2>3, SMT
<1> QED
  BY <1>1, <1>2, <1>3, <1>4, <1>5

\* An integer put together from words.
LEMMA WordsFit ==
    ASSUME NEW n \in 1..(2 * N), NEW f, \A k \in 0..(n - 1) : f[k] \in Word
    PROVE  Fits(Vals!U(Vals!FromLimbs(f, n), n))
<1>1. n \in 0..(2 * N)
  BY BaseFacts, SMT
<1>2. FromLimbs(f, n) \in Nat /\ FromLimbs(f, n) < W[n]
  BY <1>1, FromLimbsFits
<1> QED
  BY <1>2, ValueOps, BuiltFits

\* The limbs of an integer are words.
LEMMA LimbsAreWords ==
    ASSUME NEW v \in Nat, NEW n \in 1..(2 * N), NEW k \in 0..(n - 1)
    PROVE  Vals!Limb(v, k) \in Word
<1>1. k \in 0..(2 * N)
  BY BaseFacts, SMT
<1> QED
  BY <1>1, ValueOps, LimbType

\* Bits limb by limb.
LEMMA BitsFit ==
    ASSUME NEW a, NEW b, Fits(a), Fits(b)
    PROVE  /\ Fits(Vals!boxed_bitand(a, b)) /\ Fits(Vals!boxed_bitor(a, b))
           /\ Fits(Vals!boxed_bitxor(a, b)) /\ Fits(Vals!boxed_not(a))
           /\ Fits(Vals!boxed_bitor_assign(a, b))
           /\ Fits(Vals!uint_bitand(a, b)) /\ Fits(Vals!uint_bitor(a, b))
           /\ Fits(Vals!uint_bitxor(a, b)) /\ Fits(Vals!uint_not(a))
<1> DEFINE m == Vals!longer(a, b)
           p(k) == Vals!Limb(a.v, k)
           q(k) == Vals!Limb(b.v, k)
<1>1. /\ a.n \in 1..(2 * N) /\ b.n \in 1..(2 * N) /\ a.v \in Nat /\ b.v \in Nat
      /\ m \in 1..(2 * N)
  <2>1. a.n \in 1..(2 * N) /\ b.n \in 1..(2 * N) /\ a.v \in Nat /\ b.v \in Nat /\ 2 * N \in 1..(2 * N)
    BY BaseFacts, SMT DEF Fits
  <2> QED
    BY <2>1, Longer
<1> HIDE DEF m
<1>2. ASSUME NEW n \in 1..(2 * N), NEW k \in 0..(n - 1)
      PROVE  /\ p(k) \in Word /\ Vals!limb_bitand(p(k), q(k)) \in Word
             /\ Vals!limb_bitor(p(k), q(k)) \in Word /\ Vals!limb_bitxor(p(k), q(k)) \in Word
             /\ Vals!limb_not(p(k)) \in Word
  <2>1. p(k) \in Word /\ q(k) \in Word
    BY <1>1, LimbsAreWords
  <2> HIDE DEF p, q
  <2> QED
    BY <2>1, WordBitOps
<1>3. ASSUME NEW n \in 1..(2 * N)
      PROVE  /\ Fits(Vals!U(Vals!FromLimbs([k \in 0..(n - 1) |-> Vals!limb_bitand(p(k), q(k))], n), n))
             /\ Fits(Vals!U(Vals!FromLimbs([k \in 0..(n - 1) |-> Vals!limb_bitor(p(k), q(k))], n), n))
             /\ Fits(Vals!U(Vals!FromLimbs([k \in 0..(n - 1) |-> Vals!limb_bitxor(p(k), q(k))], n), n))
             /\ Fits(Vals!U(Vals!FromLimbs([k \in 0..(n - 1) |-> Vals!limb_not(p(k))], n), n))
  <2> DEFINE f == [k \in 0..(n - 1) |-> Vals!limb_bitand(p(k), q(k))]
             g == [k \in 0..(n - 1) |-> Vals!limb_bitor(p(k), q(k))]
             h == [k \in 0..(n - 1) |-> Vals!limb_bitxor(p(k), q(k))]
             j == [k \in 0..(n - 1) |-> Vals!limb_not(p(k))]
  <2>1. \A k \in 0..(n - 1) : f[k] \in Word /\ g[k] \in Word /\ h[k] \in Word /\ j[k] \in Word
    <3> HIDE DEF p, q
    <3> QED
      BY <1>2
  <2>2. Fits(Vals!U(Vals!FromLimbs(f, n), n)) /\ Fits(Vals!U(Vals!FromLimbs(g, n), n))
        /\ Fits(Vals!U(Vals!FromLimbs(h, n), n)) /\ Fits(Vals!U(Vals!FromLimbs(j, n), n))
    <3> HIDE DEF f, g, h, j
    <3> QED
      BY <2>1, WordsFit
  <2> QED
    BY <2>2
<1>4. Fits(Vals!boxed_bitand(a, b)) /\ Fits(Vals!boxed_bitor(a, b)) /\ Fits(Vals!boxed_bitxor(a, b))
  BY <1>1, <1>3 DEF Vals!boxed_bitand, Vals!boxed_bitor, Vals!boxed_bitxor, Vals!map_limbs, m
<1>5. Fits(Vals!uint_bitand(a, b)) /\ Fits(Vals!uint_bitor(a, b)) /\ Fits(Vals!uint_bitxor(a, b))
  BY <1>1, <1>3 DEF Vals!uint_bitand, Vals!uint_bitor, Vals!uint_bitxor, Vals!uint_limbs
<1>6. Fits(Vals!boxed_not(a)) /\ Fits(Vals!uint_not(a))
  BY <1>1, <1>3 DEF Vals!boxed_not, Vals!uint_not, Vals!uint_limbs
<1>7. Fits(Vals!boxed_bitor_assign(a, b))
  <2> DEFINE f == [k \in 0..(m - 1) |-> IF k < b.n THEN Vals!limb_bitor(p(k), q(k)) ELSE p(k)]
  <2>1. \A k \in 0..(m - 1) : f[k] \in Word
    <3> HIDE DEF p, q
    <3> QED
      BY <1>1, <1>2
  <2>2. Vals!boxed_bitor_assign(a, b) = Vals!U(Vals!FromLimbs(f, m), m)
    BY DEF Vals!boxed_bitor_assign, m
  <2> HIDE DEF f
  <2> QED
    BY <1>1, <2>1, <2>2, WordsFit
<1> QED
  BY <1>4, <1>5, <1>6, <1>7

\* The weights of the bits of a word are words.
LEMMA WordWeights ==
    ASSUME NEW k \in Nat
    PROVE  BitWeight[k % WordBits] \in Word /\ BitWeight[k % WordBits] - 1 \in Word
<1> DEFINE j == k % WordBits
           m == j + 1
<1>1. WordBits \in Nat /\ WordBits > 0
  BY WordBitsAssumption
<1>2. j \in Nat /\ j < WordBits
  BY <1>1, DivMod, SMT
<1> HIDE DEF j
<1>3. BitWeight[WordBits] = B /\ BitEnd \in Nat /\ WordBits <= BitEnd
  <2>1. BitWeight[WordBits] = B /\ BitEnd \in Nat
    BY BitTableHere, BitTop
  <2>2. 1 \in 0..(2 * N)
    BY BaseFacts, SMT
  <2>3. 1 * WordBits <= BitEnd
    BY <2>2, BitTableHere, BitsOfLimbs
  <2> QED
    BY <1>1, <2>1, <2>3, SMT
<1>4. m \in Nat /\ m <= WordBits /\ WordBits <= BitEnd /\ j <= BitEnd /\ j < BitEnd
  BY <1>1, <1>2, <1>3, SMT
<1> HIDE DEF m
<1>5. BitWeight[m] <= BitWeight[WordBits]
  BY <1>1, <1>4, BitTableHere, BitsGrow
<1>6. BitWeight[j] \in Nat /\ BitWeight[j] > 0 /\ BitWeight[m] = 2 * BitWeight[j]
  BY <1>2, <1>4, BitTableHere, BitFacts DEF m
<1>7. BitWeight[j] < B /\ B \in Nat
  BY <1>3, <1>5, <1>6, BaseFacts, SMT
<1>8. BitWeight[j] \in Word /\ BitWeight[j] - 1 \in Word
  BY <1>6, <1>7, SMT DEF Word
<1> QED
  BY <1>8 DEF j

\* Setting one bit, and clearing all from one up.
LEMMA SetBitsFit ==
    ASSUME NEW a, Fits(a), NEW p \in Nat, NEW bit
    PROVE  Fits(Vals!ref_set_bit(a, p, bit)) /\ Fits(Vals!ref_restrict_bits(a, p))
<1> DEFINE n == a.n
           w(k) == Vals!Limb(a.v, k)
           z == BitWeight[p % WordBits]
           mask(k) == IF k = p \div WordBits THEN z - 1 ELSE Vals!Mask(k < p \div WordBits)
           f == [k \in 0..(n - 1) |->
                    IF k # p \div WordBits THEN w(k)
                    ELSE IF bit = 1 THEN Vals!limb_bitor(w(k), z)
                                    ELSE Vals!limb_bitand(w(k), Vals!limb_not(z))]
           g == [k \in 0..(n - 1) |-> Vals!limb_bitand(w(k), mask(k))]
<1>1. n \in 1..(2 * N) /\ a.v \in Nat
  BY DEF Fits
<1>2. Vals!ref_set_bit(a, p, bit) = Vals!U(Vals!FromLimbs(f, n), n)
  BY DEF Vals!ref_set_bit
<1>3. Vals!ref_restrict_bits(a, p) = Vals!U(Vals!FromLimbs(g, n), n)
  BY DEF Vals!ref_restrict_bits
<1>4. z \in Word /\ z - 1 \in Word
  BY WordWeights
<1> HIDE DEF z
<1>5. ASSUME NEW k \in 0..(n - 1) PROVE f[k] \in Word /\ g[k] \in Word
  <2>1. w(k) \in Word
    BY <1>1, LimbsAreWords
  <2>2. mask(k) \in Word
    <3>1. \A c \in BOOLEAN : Vals!Mask(c) \in Word
      BY ValueOps, BaseFacts, SMT DEF Mask, WordMAX, Word
    <3>2. (k < p \div WordBits) \in BOOLEAN
      OBVIOUS
    <3> QED
      BY <1>4, <3>1, <3>2
  <2> HIDE DEF w, mask
  <2>3. Vals!limb_not(z) \in Word /\ Vals!limb_bitor(w(k), z) \in Word
    BY <1>4, <2>1, WordBitOps
  <2>4. Vals!limb_bitand(w(k), Vals!limb_not(z)) \in Word /\ Vals!limb_bitand(w(k), mask(k)) \in Word
    BY <2>1, <2>2, <2>3, WordBitOps
  <2> QED
    BY <2>1, <2>3, <2>4
<1> HIDE DEF n, f, g
<1> QED
  BY <1>1, <1>2, <1>3, <1>5, WordsFit

\* Shifts.
LEMMA ShiftFits ==
    ASSUME NEW a, Fits(a), NEW s \in Nat
    PROVE  Good(Vals!wrapping_shl(a, s)) /\ Good(Vals!wrapping_shr(a, s))
<1> DEFINE n == a.n
           x == a.v
           p == n * WordBits
           k == s % p
           b == BitWeight[k]
           q == x \div b
<1>1. n \in 1..(2 * N) /\ n \in 0..(2 * N) /\ x \in Nat /\ x < W[n] /\ N \in Nat
  BY BaseFacts, SMT DEF Fits
<1>2. p \in Nat /\ p > 0 /\ p <= BitEnd
  <2>1. p \in Nat /\ p <= BitEnd
    BY <1>1, BitTableHere, BitsOfLimbs
  <2>2. p > 0
    BY <1>1, WordBitsAssumption, SMT
  <2> QED
    BY <2>1, <2>2
<1> HIDE DEF n, x
<1>3. k \in Nat /\ k <= BitEnd
  <2> HIDE DEF p
  <2>1. k \in Nat /\ k < p
    BY <1>2, DivMod, SMT
  <2>2. BitEnd \in Nat
    BY BitTableHere, BitTop
  <2> HIDE DEF k
  <2> QED
    BY <1>2, <2>1, <2>2, SMT
<1> HIDE DEF k
<1>4. b \in Nat /\ b > 0
  BY <1>3, BitTableHere, BitFacts
<1> HIDE DEF b
<1>5. x * b \in Int
  BY <1>1, <1>4, SMT
<1>6. Fits(Vals!U((x * b) % W[n], n))
  <2> DEFINE v == x * b
  <2> HIDE DEF v
  <2>1. v \in Int
    BY <1>5 DEF v
  <2>2. Fits(Vals!U(v % W[n], n))
    BY <1>1, <2>1, CutFits
  <2> QED
    BY <2>2 DEF v
<1>7. Fits(Vals!U(q, n))
  <2>1. x \in Int /\ x >= 0
    BY <1>1, SMT
  <2>2. q \in Nat /\ x = b * q + (x % b) /\ x % b \in Nat
    BY <1>4, <2>1, DivMod
  <2> DEFINE r == x % b
             g == b * q
  <2> HIDE DEF q
  <2>3. q * 1 <= q * b /\ q * b = g /\ g \in Nat
    BY <1>4, <2>2, Monotone, SMT
  <2>4. W[n] \in Nat
    BY <1>1, WeightFacts
  <2> HIDE DEF r, g
  <2>5. q < W[n]
    BY <1>1, <2>2, <2>3, <2>4, SMT DEF r, g
  <2> QED
    BY <1>1, <2>2, <2>5, BuiltFits
<1>8. Vals!wrapping_shl(a, s) = Vals!As("wrapping", Vals!U((x * b) % W[n], n))
  BY DEF Vals!wrapping_shl, Vals!shl, Vals!bits_precision, n, x, p, k, b
<1>9. Vals!wrapping_shr(a, s) = Vals!As("wrapping", Vals!U(q, n))
  BY DEF Vals!wrapping_shr, Vals!shr, Vals!bits_precision, n, x, p, k, b
<1> QED
  BY <1>6, <1>7, <1>8, <1>9 DEF Vals!As, Good, Fits, Vals!Legal

\* The lowest limb of an integer, and one stored there.
LEMMA LowestHere ==
    ASSUME NEW a, Fits(a), NEW w \in Word
    PROVE  /\ Fits(Vals!set_limb(a, 0, w)) /\ Vals!set_limb(a, 0, w).v % 2 = w % 2
           /\ Vals!set_limb(a, 0, w).n = a.n
           /\ Vals!Limb(a.v, 0) \in Word
           /\ Vals!is_odd(a) <=> a.v % 2 = 1
<1> DEFINE n == a.n
           v == a.v
           z == SetLimb(v, 0, w)
<1>1. n \in 1..(2 * N) /\ v \in Nat /\ v < W[n]
  BY DEF Fits
<1>2. /\ Limb(v, 0) \in Word /\ Limb(v, 0) % 2 = v % 2
      /\ z \in Nat /\ z < W[n] /\ z % 2 = w % 2
  <2> HIDE DEF n, v
  <2> QED
    BY <1>1, LowestBit
<1>3. Vals!set_limb(a, 0, w) = Vals!U(z, n) /\ Vals!Limb(a.v, 0) = Limb(v, 0)
  BY ValueOps DEF Vals!set_limb
<1>4. Vals!is_odd(a) <=> a.v % 2 = 1
  BY <1>2, <1>3 DEF Vals!is_odd, Vals!lsb_to_choice
<1> HIDE DEF z
<1>5. Fits(Vals!U(z, n)) /\ Vals!U(z, n).v = z /\ Vals!U(z, n).n = n
  BY <1>1, <1>2, BuiltFits
<1> QED
  BY <1>2, <1>3, <1>4, <1>5

\* Zero, one, words and the greatest integer of n limbs.
LEMMA SmallFits ==
    ASSUME NEW n \in 1..(2 * N)
    PROVE  /\ Fits(Vals!U(0, n)) /\ Fits(Vals!U(1, n)) /\ Fits(Vals!U(W[n] - 1, n))
           /\ \A w \in Word : Fits(Vals!U(w, n))
           /\ 0 \in Word /\ 1 \in Word /\ WordMAX \in Word
<1>1. B \in Nat /\ B >= 2 /\ W[1] = B /\ 1 \in 0..n /\ n \in 0..(2 * N) /\ 1 \in 0..(2 * N)
  BY BaseFacts, FirstWeights, SMT
<1>2. B <= W[n] /\ W[n] \in Nat
  BY <1>1, WeightsGrow, WeightFacts
<1>3. 0 \in Word /\ 1 \in Word /\ WordMAX \in Word
  BY <1>1, SMT DEF Word, WordMAX
<1>4. \A w \in Word : w \in Nat /\ w < W[n]
  BY <1>1, <1>2, SMT DEF Word
<1>5. W[n] - 1 \in Nat /\ W[n] - 1 < W[n]
  BY <1>1, <1>2, SMT
<1>6. \A w \in Word : Fits(Vals!U(w, n))
  BY <1>4, BuiltFits
<1>7. Fits(Vals!U(W[n] - 1, n))
  BY <1>5, BuiltFits
<1> QED
  BY <1>3, <1>6, <1>7

\* The leading zeros of a word are at most its bits, and fewer unless it is zero.
LEMMA WordZeros == ZerosOfLimb([w \in Word |-> WordBits - Vals!bits(w)], WordBits)
<1> SUFFICES ASSUME NEW w \in Word
             PROVE  /\ WordBits - Vals!bits(w) \in Nat /\ WordBits - Vals!bits(w) <= WordBits
                    /\ w # 0 => WordBits - Vals!bits(w) < WordBits
  BY DEF ZerosOfLimb
<1>1. /\ WordBits \in Nat /\ WordBits > 0 /\ WordBits <= BitEnd /\ BitEnd \in Nat
      /\ BitWeight[WordBits] = B /\ BitWeight[0] = 1
      /\ w \in Nat /\ w < B /\ B \in Nat
  <2>1. WordBits \in Nat /\ WordBits > 0 /\ BitEnd \in Nat /\ BitWeight[WordBits] = B /\ BitWeight[0] = 1
    BY BitTableHere, BitTop
  <2>2. 1 \in 0..(2 * N) /\ w \in Nat /\ w < B /\ B \in Nat
    BY BaseFacts, SMT DEF Word
  <2>3. 1 * WordBits <= BitEnd
    BY <2>2, BitTableHere, BitsOfLimbs
  <2> QED
    BY <2>1, <2>2, <2>3, SMT
<1> DEFINE l == Vals!bits(w)
<1>2. IsLength(l, w, BitWeight, BitEnd)
  <2>1. \E k \in 0..BitEnd : IsLength(k, w, BitWeight, BitEnd)
    BY <1>1, BitTableHere, LengthExists
  <2>2. l = CHOOSE k \in 0..BitEnd : w < BitWeight[k] /\ (k = 0 \/ BitWeight[k - 1] <= w)
    BY DEF Vals!bits, BitEnd, Vals!bits_precision, bits_precision
  <2>3. \E k \in 0..BitEnd : w < BitWeight[k] /\ (k = 0 \/ BitWeight[k - 1] <= w)
    BY <2>1 DEF IsLength
  <2> HIDE DEF l
  <2>4. l \in 0..BitEnd /\ w < BitWeight[l] /\ (l = 0 \/ BitWeight[l - 1] <= w)
    BY <2>2, <2>3
  <2> QED
    BY <2>4 DEF IsLength
<1> HIDE DEF l
<1>3. l \in 0..BitEnd /\ w < BitWeight[l] /\ (l = 0 \/ BitWeight[l - 1] <= w)
  BY <1>2 DEF IsLength
<1>4. l <= WordBits
  <2> SUFFICES ASSUME l > WordBits PROVE FALSE
    BY <1>1, <1>3, SMT
  <2> DEFINE m == l - 1
  <2>1. m \in Nat /\ WordBits <= m /\ m <= BitEnd /\ l # 0
    BY <1>1, <1>3, SMT
  <2> HIDE DEF m
  <2>2. BitWeight[WordBits] <= BitWeight[m] /\ BitWeight[m] \in Nat
    BY <1>1, <2>1, BitTableHere, BitsGrow, BitFacts
  <2>3. BitWeight[m] <= w
    BY <1>3, <2>1 DEF m
  <2> QED
    BY <1>1, <2>2, <2>3, SMT
<1>5. w # 0 => l # 0
  BY <1>1, <1>3, SMT
<1>6. WordBits - l \in Nat /\ WordBits - l <= WordBits /\ (w # 0 => WordBits - l < WordBits)
  BY <1>1, <1>3, <1>4, <1>5, SMT
<1> QED
  BY <1>6 DEF l

\* What ref_leading_zeros counts.
LEMMA LeadingZerosCounted ==
    ASSUME NEW a, Fits(a)
    PROVE  \E more : CountFits(Vals!ref_leading_zeros(a), more, a.n, a.v, a.n, WordBits)
<1> DEFINE n == a.n
           v == a.v
           f == [k \in 0..(n - 1) |-> Vals!Limb(v, n - 1 - k)]
           c == [w \in Word |-> WordBits - Vals!bits(w)]
<1>1. n \in 1..(2 * N) /\ v \in Nat /\ v < W[n] /\ n \in Nat /\ n \in 0..(2 * N) /\ 0 \in 0..n
  BY BaseFacts, SMT DEF Fits
<1> HIDE DEF n, v
<1>2. \A k \in 0..(n - 1) : f[k] \in Word
  <2>1. ASSUME NEW k \in 0..(n - 1) PROVE Vals!Limb(v, n - 1 - k) \in Word
    <3>1. n - 1 - k \in 0..(n - 1)
      BY <1>1, SMT
    <3> QED
      BY <1>1, <3>1, LimbsAreWords
  <2> QED
    BY <2>1
<1>3. \A k \in 0..(n - 1) : f[k] = Limb(v, n - 1 - k)
  BY ValueOps
<1>4. Vals!FromTop(a) = f
  BY DEF Vals!FromTop, n, v
<1> HIDE DEF f
<1>5. ZerosOfLimb(c, WordBits)
  BY WordZeros
<1>6. PICK g : IsRecursion(g, Nat \X BOOLEAN, <<0, TRUE>>, n, AddingCount(f, n, c))
  <2> HIDE DEF c
  <2> QED
    BY <1>1, <1>2, <1>5, CountExists
<1>7. /\ g \in [0..n -> Nat \X BOOLEAN] /\ g[0] = <<0, TRUE>>
      /\ \A k \in 1..n : g[k] = AddingCount(f, n, c)[k][g[k - 1]]
  BY <1>6 DEF IsRecursion
<1> DEFINE sum == CHOOSE sum : sum = [k \in 0..n |->
              IF k = 0 THEN <<0, TRUE>>
              ELSE <<sum[k - 1][1] + (IF sum[k - 1][2] THEN WordBits - Vals!bits(f[k - 1]) ELSE 0),
                     sum[k - 1][2] /\ f[k - 1] = 0>>]
<1>8. Vals!ref_leading_zeros(a) = sum[n][1]
  BY <1>4 DEF Vals!ref_leading_zeros, Vals!count_limbs, Vals!limb_leading_zeros, Vals!is_zero, n
<1>9. g = [k \in 0..n |->
              IF k = 0 THEN <<0, TRUE>>
              ELSE <<g[k - 1][1] + (IF g[k - 1][2] THEN WordBits - Vals!bits(f[k - 1]) ELSE 0),
                     g[k - 1][2] /\ f[k - 1] = 0>>]
  <2>1. ASSUME NEW k \in 0..n, k # 0
        PROVE  g[k] = <<g[k - 1][1] + (IF g[k - 1][2] THEN WordBits - Vals!bits(f[k - 1]) ELSE 0),
                        g[k - 1][2] /\ f[k - 1] = 0>>
    <3>1. k \in 1..n /\ k \in Nat /\ k - 1 \in 0..n /\ k - 1 \in 0..(n - 1)
      BY <1>1, <2>1, SMT
    <3>2. g[k] = AddingCount(f, n, c)[k][g[k - 1]] /\ g[k - 1] \in Nat \X BOOLEAN
      BY <1>7, <3>1
    <3>3. c[f[k - 1]] = WordBits - Vals!bits(f[k - 1])
      BY <1>2, <3>1
    <3> HIDE DEF c
    <3>4. AddingCount(f, n, c)[k][g[k - 1]] =
             <<g[k - 1][1] + (IF g[k - 1][2] THEN c[f[k - 1]] ELSE 0), g[k - 1][2] /\ f[k - 1] = 0>>
      BY <3>1, <3>2 DEF AddingCount
    <3> QED
      BY <3>2, <3>3, <3>4
  <2> QED
    BY <1>7, <2>1
<1>10. sum = [k \in 0..n |->
              IF k = 0 THEN <<0, TRUE>>
              ELSE <<sum[k - 1][1] + (IF sum[k - 1][2] THEN WordBits - Vals!bits(f[k - 1]) ELSE 0),
                     sum[k - 1][2] /\ f[k - 1] = 0>>]
  BY <1>9
<1> HIDE DEF sum
<1>11. CountedLimbs(sum, f, n, c)
  <2>1. sum[0] = <<0, TRUE>>
    BY <1>1, <1>10
  <2>2. ASSUME NEW k \in 1..n
        PROVE  /\ sum[k][1] = sum[k - 1][1] + (IF sum[k - 1][2] THEN c[f[k - 1]] ELSE 0)
               /\ sum[k][2] <=> (sum[k - 1][2] /\ f[k - 1] = 0)
               /\ sum[k][2] \in BOOLEAN
    <3>1. k \in 0..n /\ k # 0 /\ k - 1 \in 0..(n - 1)
      BY <1>1, SMT
    <3> DEFINE d == WordBits - Vals!bits(f[k - 1])
               e == sum[k - 1][2] /\ f[k - 1] = 0
    <3>2. sum[k] = <<sum[k - 1][1] + (IF sum[k - 1][2] THEN d ELSE 0), e>>
      BY <1>10, <3>1
    <3>3. c[f[k - 1]] = d
      BY <1>2, <3>1
    <3>4. sum[k][1] = sum[k - 1][1] + (IF sum[k - 1][2] THEN d ELSE 0) /\ sum[k][2] = e
      BY <3>2
    <3> QED
      BY <3>3, <3>4
  <2> HIDE DEF c
  <2> QED
    BY <2>1, <2>2 DEF CountedLimbs
<1>12. CountFits(sum[n][1], sum[n][2], n, v, n, WordBits)
  <2>1. WordBits \in Nat /\ WordBits > 0
    BY WordBitsAssumption
  <2> HIDE DEF c
  <2> QED
    BY <1>1, <1>3, <1>5, <1>11, <2>1, CountedFits
<1> QED
  BY <1>8, <1>12 DEF n, v

\* An integer that is within p bits fits the limbs that they take.
LEMMA WithinFits ==
    ASSUME NEW a, Fits(a), NEW p \in Nat, Vals!is_within_bits(a, p),
           NEW t, t = Vals!to_limbs(p), t \in 0..(2 * N)
    PROVE  a.v < W[t] /\ a.v % W[t] = a.v
<1> DEFINE n == a.n
           v == a.v
           nw == n * WordBits
           cnt == Vals!ref_leading_zeros(a)
<1>1. n \in 0..(2 * N) /\ v \in Nat /\ v < W[n] /\ n \in Nat
  BY BaseFacts, SMT DEF Fits
<1>2. WordBits \in Nat /\ WordBits > 0 /\ t = (p + WordBits - 1) \div WordBits
  BY WordBitsAssumption DEF Vals!to_limbs
<1>3. p >= nw \/ p >= nw - cnt
  BY DEF Vals!is_within_bits, Vals!ref_bits, Vals!bits_precision
<1>4. PICK more : CountFits(cnt, more, n, v, n, WordBits)
  BY LeadingZerosCounted
<1> HIDE DEF n, v, cnt
<1>5. ASSUME p >= nw - cnt PROVE v < W[t]
  BY <1>1, <1>2, <1>4, <1>5, WithinBits
<1>6. ASSUME p >= nw PROVE v < W[t]
  <2>1. CountFits(0, FALSE, n, v, n, WordBits)
    <3>1. n \in 0..n /\ 0 + n * WordBits < n * WordBits + WordBits
      BY <1>1, <1>2, SMT
    <3> QED
      BY <1>1, <3>1 DEF CountFits
  <2>2. nw \in Nat
    BY <1>1, <1>2, SMT
  <2>3. p >= nw - 0
    <3> HIDE DEF nw
    <3> QED
      BY <1>6, <2>2, SMT
  <2> QED
    BY <1>1, <1>2, <2>1, <2>3, WithinBits
<1>7. v < W[t]
  BY <1>3, <1>5, <1>6
<1>8. W[t] \in Nat /\ W[t] > 0
  BY WeightFacts
<1>9. v % W[t] = v
  <2> DEFINE w == W[t]
  <2>1. w \in Nat /\ v < w /\ w > 0 /\ v \in Int /\ v \in 0..(w - 1)
    BY <1>1, <1>7, <1>8, SMT
  <2>2. v = w * 0 + v
    BY <2>1, SMT
  <2> HIDE DEF w
  <2>3. v % w = v
    BY <2>1, <2>2, DivisionIs
  <2> QED
    BY <2>3 DEF w
<1> QED
  BY <1>7, <1>9 DEF v

\* The assumption on the operands, and the precision of the longest integer.
LEMMA ValueLimbsHere ==
    /\ ValueLimbs \in 1..N /\ ValueLimbs \in 1..(2 * N) /\ ValueLimbs + 1 \in 1..(2 * N)
    /\ 1 \in 1..ValueLimbs /\ ValueLimbs \in Nat
    /\ \A n \in 1..ValueLimbs : ValueOperands(n) \subseteq 0..(W[n] - 1)
<1>1. /\ ValueLimbs \in 1..N
      /\ \A n \in 1..ValueLimbs : ValueOperands(n) \subseteq 0..(W[n] - 1)
  BY ValuesAssumption DEF Vals!ArgumentsFit
<1> QED
  BY <1>1, BaseFacts, SMT

\* Right-hand sides are good integers of their kind.
LEMMA RhsGood ==
    ASSUME NEW kind \in Vals!Kinds, NEW r \in Vals!Rhs[kind]
    PROVE  Good(r) /\ Fits(r) /\ r.kind = kind /\ r.n \in 1..ValueLimbs
           /\ Vals!Legal(kind, r.v)
<1> DEFINE some == IF kind = "checked" THEN BOOLEAN ELSE {TRUE}
           all(n) == [kind : {kind}, n : {n}, v : ValueOperands(n), some : some]
<1>0. Vals!Rhs[kind] = {u \in UNION {all(n) : n \in 1..ValueLimbs} : Vals!Legal(kind, u.v)}
  BY DEF Vals!Rhs
<1>1. PICK n \in 1..ValueLimbs : r.n = n /\ r.v \in ValueOperands(n) /\ r.kind = kind
  <2>1. r \in UNION {all(n) : n \in 1..ValueLimbs}
    BY <1>0
  <2>2. PICK n \in 1..ValueLimbs : r \in all(n)
    BY <2>1
  <2>3. r.n \in {n} /\ r.v \in ValueOperands(n) /\ r.kind \in {kind}
    BY <2>2
  <2> QED
    BY <2>3
<1>2. Vals!Legal(kind, r.v)
  BY <1>0
<1> HIDE DEF all
<1>3. n \in 1..(2 * N) /\ n \in 0..(2 * N)
  BY <1>1, ValueLimbsHere, BaseFacts, SMT
<1>4. W[n] \in Nat /\ W[n] > 0
  BY <1>3, WeightFacts
<1>5. r.v \in 0..(W[n] - 1)
  BY <1>1, ValueLimbsHere
<1>6. r.v \in Nat /\ r.v < W[n]
  BY <1>4, <1>5, SMT
<1> QED
  BY <1>1, <1>2, <1>3, <1>6 DEF Good, Fits

\* Wrapping an integer that fits.
LEMMA Wraps ==
    ASSUME NEW a, Fits(a), NEW kind, flag = 0 => Vals!Legal(kind, a.v), NEW some
    PROVE  Good(Vals!As(kind, a)) /\ Good(Vals!Opt(kind, a, some))
<1>1. /\ Vals!As(kind, a).v = a.v /\ Vals!As(kind, a).n = a.n /\ Vals!As(kind, a).kind = kind
      /\ Vals!Opt(kind, a, some).v = a.v /\ Vals!Opt(kind, a, some).n = a.n
      /\ Vals!Opt(kind, a, some).kind = kind
  BY DEF Vals!As, Vals!Opt
<1> QED
  BY <1>1 DEF Good, Fits

\* Integers, Wrapping and Checked promise nothing.
LEMMA WrapsPlain ==
    ASSUME NEW a, Fits(a), NEW kind \in {"uint", "wrapping", "checked"}, NEW some
    PROVE  Good(Vals!As(kind, a)) /\ Good(Vals!Opt(kind, a, some))
<1>1. Vals!Legal(kind, a.v)
  BY DEF Vals!Legal
<1> QED
  BY <1>1, Wraps

\* Whether 0 and 1 keep a promise.
LEMMA LegalSmall ==
    /\ \A kind : Vals!Legal(kind, 1)
    /\ \A v \in Nat : Vals!Legal("odd", v) => Vals!Legal("nz", v)
    /\ \A v : Vals!Legal("nz", v) <=> v # 0
    /\ \A v : Vals!Legal("odd", v) <=> v % 2 = 1
    /\ \A v, kind : kind \notin {"nz", "odd"} => Vals!Legal(kind, v)
<1>1. 1 % 2 = 1 /\ 0 % 2 # 1 /\ 1 # 0
  BY SMT
<1> QED
  BY <1>1 DEF Vals!Legal

\* New integers of a given precision.
LEMMA NewFits ==
    ASSUME NEW p \in 0..Vals!bits_precision(ValueLimbs)
    PROVE  /\ Fits(Vals!zero_with_precision(p)) /\ Fits(Vals!one_with_precision(p))
           /\ Fits(Vals!max_with_precision(p))
           /\ \A a : a.v \in Nat /\ Vals!to_limbs(p) > 0 => Fits(Vals!from_words_with_precision(a, p))
<1> DEFINE t == Vals!to_limbs(p)
           n == Vals!at_least_one(t)
<1>1. p \in Nat /\ p <= ValueLimbs * WordBits
  BY ValueLimbsHere, WordBitsAssumption, SMT DEF Vals!bits_precision
<1>2. t \in 0..ValueLimbs
  BY <1>1, ValueLimbsHere, ToLimbs
<1> HIDE DEF t
<1>3. n \in 1..(2 * N) /\ t \in 0..(2 * N) /\ (t # 0 => n = t /\ t \in 1..(2 * N)) /\ (t = 0 => n = 1)
  BY <1>2, ValueLimbsHere, BaseFacts, SMT DEF Vals!at_least_one
<1> HIDE DEF n
<1>4. Fits(Vals!U(0, n)) /\ Fits(Vals!U(1, n)) /\ Fits(Vals!U(W[n] - 1, n))
  BY <1>3, SmallFits
<1>5. Vals!zero_with_precision(p) = Vals!U(0, n)
  BY DEF Vals!zero_with_precision, n, t
<1>6. Vals!zero_with_precision(p).n = n
  BY <1>5 DEF Vals!U
<1>7. Fits(Vals!max_with_precision(p))
  <2>1. Vals!max_with_precision(p) = Vals!U(W[t] - 1, n)
    BY <1>6 DEF Vals!max_with_precision, t
  <2>2. CASE t = 0
    <3>1. W[t] - 1 = 0
      BY <2>2, FirstWeights, SMT
    <3> QED
      BY <1>4, <2>1, <3>1
  <2>3. CASE t # 0
    BY <1>3, <1>4, <2>1, <2>3
  <2> QED
    BY <2>2, <2>3
<1>8. ASSUME NEW a, a.v \in Nat, t > 0 PROVE Fits(Vals!from_words_with_precision(a, p))
  <2>1. t \in 1..(2 * N) /\ a.v \in Int
    BY <1>3, <1>8, SMT
  <2>2. Vals!from_words_with_precision(a, p) = Vals!U(a.v % W[t], t)
    BY DEF Vals!from_words_with_precision, t
  <2> QED
    BY <2>1, <2>2, CutFits
<1> QED
  BY <1>4, <1>5, <1>6, <1>7, <1>8 DEF Vals!one_with_precision, t

\* Another precision.
LEMMA ResizedFits ==
    ASSUME NEW a, Fits(a), NEW p \in 0..(Vals!bits_precision(ValueLimbs) + 1)
    PROVE  /\ Fits(Vals!resize_unchecked(a, p)) /\ Fits(Vals!resize_ref_unchecked(a, p))
           /\ Vals!is_within_bits(a, p) => Vals!resize_unchecked(a, p).v = a.v
<1> DEFINE t == Vals!to_limbs(p)
           n == Vals!at_least_one(t)
           k == ValueLimbs + 1
           v == a.v
<1>1. p \in Nat /\ k \in Nat /\ p <= k * WordBits
  BY ValueLimbsHere, WordBitsAssumption, SMT DEF Vals!bits_precision
<1>2. t \in 0..k
  <2> HIDE DEF k
  <2> QED
    BY <1>1, ToLimbs
<1>3. t \in 0..(2 * N)
  <2> HIDE DEF t
  <2> QED
    BY <1>2, ValueLimbsHere, BaseFacts, SMT
<1>4. v \in Int /\ v \in Nat
  BY SMT DEF Fits
<1>5. Vals!resize_unchecked(a, p) = Vals!U(v % W[t], n)
  BY DEF Vals!resize_unchecked
<1>6. Vals!resize_ref_unchecked(a, p) = Vals!U(v % W[n], n)
  BY DEF Vals!resize_ref_unchecked
<1>7. Vals!is_within_bits(a, p) => v % W[t] = v
  <2> HIDE DEF v
  <2> QED
    BY <1>1, <1>3, WithinFits DEF v
<1> HIDE DEF v, t
<1>8. n \in 1..(2 * N) /\ (t # 0 => n = t) /\ (t = 0 => n = 1)
  BY <1>3, BaseFacts, SMT DEF Vals!at_least_one
<1> HIDE DEF n
<1>9. Fits(Vals!U(v % W[n], n)) /\ v % W[n] \in Nat /\ v % W[n] < W[n]
  BY <1>4, <1>8, CutFits
<1>10. Fits(Vals!U(v % W[t], n))
  <2>1. CASE t = 0
    <3>1. v % W[t] = 0
      <4>1. W[t] = 1
        BY <2>1, FirstWeights
      <4>2. v % 1 = 0
        BY <1>4, SMT
      <4> QED
        BY <4>1, <4>2
    <3> QED
      BY <1>8, <3>1, SmallFits
  <2>2. CASE t # 0
    BY <1>8, <1>9, <2>2
  <2> QED
    BY <2>1, <2>2
<1>11. Vals!U(v % W[t], n).v = v % W[t]
  BY DEF Vals!U
<1> QED
  BY <1>5, <1>6, <1>7, <1>9, <1>10, <1>11 DEF v

----------------------------------------------------------------------------
(* What every operation of Values keeps.                                   *)

\* The invariant of Values.
ValuesKept == Good(res) /\ res.n <= ValueLimbs

\* What an operation stores, if not from an unchecked resize.
GoodAfter ==
    /\ Good(res') /\ res'.n <= ValueLimbs
    /\ flag' # 0 \/ flag = 0 \/ Vals!Legal(res'.kind, res'.v)

\* Then the invariant is kept.
LEMMA KeptAfter ==
    ASSUME GoodAfter
    PROVE  ValuesKept'
  BY DEF GoodAfter, ValuesKept, Good

\* What it says of the integer stored, with a right-hand side of kind kind.
LEMMA OperandsFit ==
    ASSUME ValuesKept, NEW kind \in Vals!Kinds, NEW r \in Vals!Rhs[kind]
    PROVE  /\ Fits(res) /\ Fits(r) /\ res.v \in Nat /\ r.v \in Nat
           /\ res.n \in 1..ValueLimbs /\ r.n \in 1..ValueLimbs
           /\ res.n \in 1..(2 * N) /\ r.n \in 1..(2 * N)
           /\ Vals!longer(res, r) \in 1..N /\ Vals!longer(res, r) \in 1..(2 * N)
           /\ res.n + r.n \in 1..(2 * N)
<1>1. Fits(res) /\ Fits(r) /\ r.n \in 1..ValueLimbs
  BY RhsGood DEF ValuesKept, Good
<1>2. res.v \in Nat /\ r.v \in Nat /\ res.n \in 1..(2 * N) /\ r.n \in 1..(2 * N)
  BY <1>1 DEF Fits
<1>3. res.n \in 1..ValueLimbs
  BY <1>2, ValueLimbsHere, SMT DEF ValuesKept
<1>4. Vals!longer(res, r) \in 1..ValueLimbs /\ Vals!longer(res, r) \in 1..(2 * N)
  BY <1>1, <1>3, ValueLimbsHere, Longer
<1>5. Vals!longer(res, r) \in 1..N
  BY <1>4, ValueLimbsHere, BaseFacts, SMT
<1>6. res.n + r.n \in 1..(2 * N)
  BY <1>1, <1>3, ValueLimbsHere, BaseFacts, SMT
<1> QED
  BY <1>1, <1>2, <1>3, <1>4, <1>5, <1>6

\* Sums.
LEMMA SumKeeps ==
    ASSUME ValuesKept, Vals!Sum
    PROVE  ValuesKept'
<1>1. ASSUME NEW r \in Vals!Rhs["uint"]
      PROVE  /\ \A c \in {0, 1, Vals!WordMAX} :
                    Good(Vals!As("uint", Vals!boxed_carrying_add(res, r, c)[1]))
             /\ Good(Vals!As("uint", Vals!concatenating_add(res, r)[1]))
             /\ Good(Vals!As("uint", Vals!boxed_overflowing_add(res, r)[1]))
             /\ \A b : Good(Vals!Opt("uint", Vals!boxed_overflowing_add(res, r)[1], b))
             /\ Good(Vals!As("uint", Vals!boxed_wrapping_add(res, r)))
  <2>1. /\ Fits(res) /\ Fits(r) /\ res.v \in Nat /\ r.v \in Nat
        /\ Vals!longer(res, r) \in 1..N /\ Vals!longer(res, r) \in 1..(2 * N)
    BY OperandsFit DEF Vals!Kinds
  <2>2. {0, 1, Vals!WordMAX} \subseteq Int
    BY ValueOps, BaseFacts, SMT DEF WordMAX
  <2>3. \A c \in {0, 1, Vals!WordMAX} : Fits(Vals!boxed_carrying_add(res, r, c)[1])
    BY <2>1, <2>2, SumFits
  <2>4. Fits(Vals!concatenating_add(res, r)[1])
    BY <2>1, ConcatenatedFits
  <2>5. Fits(Vals!boxed_overflowing_add(res, r)[1]) /\ Fits(Vals!boxed_wrapping_add(res, r))
    BY <2>1, CutSumFits
  <2> QED
    BY <2>3, <2>4, <2>5, WrapsPlain
<1>2. GoodAfter
  BY <1>1 DEF GoodAfter, ValuesKept, Vals!Sum, Vals!Reported, Vals!Return, Vals!Perform, Vals!Store
<1> QED
  BY <1>2, KeptAfter

\* Differences.
LEMMA DifferenceKeeps ==
    ASSUME ValuesKept, Vals!Difference
    PROVE  ValuesKept'
<1>1. ASSUME NEW r \in Vals!Rhs["uint"]
      PROVE  /\ \A c \in {0, Vals!WordMAX} :
                    Good(Vals!As("uint", Vals!boxed_borrowing_sub(res, r, c)[1]))
             /\ Good(Vals!As("uint", Vals!boxed_underflowing_sub(res, r)[1]))
             /\ \A b : Good(Vals!Opt("uint", Vals!boxed_underflowing_sub(res, r)[1], b))
             /\ Good(Vals!As("uint", Vals!boxed_wrapping_sub(res, r)))
  <2>1. /\ Fits(res) /\ Fits(r) /\ res.v \in Nat /\ r.v \in Nat
        /\ Vals!longer(res, r) \in 1..(2 * N)
    BY OperandsFit DEF Vals!Kinds
  <2>2. {0, Vals!WordMAX} \subseteq Int
    BY ValueOps, BaseFacts, SMT DEF WordMAX
  <2>3. \A c \in {0, Vals!WordMAX} : Fits(Vals!boxed_borrowing_sub(res, r, c)[1])
    BY <2>1, <2>2, SumFits
  <2>4. Fits(Vals!boxed_underflowing_sub(res, r)[1]) /\ Fits(Vals!boxed_wrapping_sub(res, r))
    BY <2>1, CutSumFits
  <2> QED
    BY <2>3, <2>4, WrapsPlain
<1>2. GoodAfter
  BY <1>1 DEF GoodAfter, ValuesKept, Vals!Difference, Vals!Reported, Vals!Return, Vals!Perform, Vals!Store
<1> QED
  BY <1>2, KeptAfter

\* Negations.
LEMMA NegationKeeps ==
    ASSUME ValuesKept, Vals!Negation
    PROVE  ValuesKept'
<1>1. ASSUME NEW choice PROVE Good(Vals!As("uint", Vals!boxed_wrapping_neg(res, choice)))
  BY NegatedFits, WrapsPlain DEF ValuesKept, Good
<1>2. GoodAfter
  BY <1>1 DEF GoodAfter, Vals!Negation, Vals!Return, Vals!Perform, Vals!Store
<1> QED
  BY <1>2, KeptAfter

\* Products.
LEMMA ProductKeeps ==
    ASSUME ValuesKept, Vals!Product
    PROVE  ValuesKept'
<1>1. ASSUME NEW r \in Vals!Rhs["uint"]
      PROVE  /\ Good(Vals!As("uint", Vals!boxed_overflowing_mul(res, r, res.n)[1]))
             /\ \A b : Good(Vals!Opt("uint", Vals!boxed_overflowing_mul(res, r, res.n)[1], b))
             /\ Good(Vals!As("uint", Vals!boxed_saturating_mul(res, r)))
             /\ Good(Vals!As("uint", Vals!boxed_overflowing_mul(res, r, res.n + r.n)[1]))
  <2>1. /\ Fits(res) /\ Fits(r) /\ res.n \in 1..(2 * N) /\ res.n + r.n \in 1..(2 * N)
    BY OperandsFit DEF Vals!Kinds
  <2>2. /\ Fits(Vals!boxed_overflowing_mul(res, r, res.n)[1]) /\ Fits(Vals!boxed_saturating_mul(res, r))
        /\ Fits(Vals!boxed_overflowing_mul(res, r, res.n + r.n)[1])
    BY <2>1, ProductFits
  <2> QED
    BY <2>2, WrapsPlain
<1>2. GoodAfter
  BY <1>1 DEF GoodAfter, ValuesKept, Vals!Product, Vals!Reported, Vals!Return, Vals!Perform, Vals!Store
<1> QED
  BY <1>2, KeptAfter

\* Quotients.
LEMMA QuotientKeeps ==
    ASSUME ValuesKept, Vals!Quotient
    PROVE  ValuesKept'
<1>1. ASSUME NEW k \in {"uint", "nz"}, NEW r \in Vals!Rhs[k]
      PROVE  /\ \A b : Good(Vals!Opt("uint", Vals!boxed_checked_div(res, r)[1], b))
             /\ \A kind \in {"uint", "wrapping"} :
                    Good(Vals!As(kind, Vals!boxed_checked_div(res, r)[1]))
  <2>1. /\ Fits(res) /\ Fits(r) /\ res.n \in 1..(2 * N)
    BY OperandsFit DEF Vals!Kinds
  <2>2. Fits(Vals!boxed_checked_div(res, r)[1])
    BY <2>1, ProductFits
  <2> QED
    BY <2>2, WrapsPlain
<1>2. GoodAfter
  BY <1>1 DEF GoodAfter, Vals!Quotient, Vals!Return, Vals!Perform, Vals!Store
<1> QED
  BY <1>2, KeptAfter

\* Bits limb by limb.
LEMMA BitwiseKeeps ==
    ASSUME ValuesKept, Vals!Bitwise \/ Vals!WrappingBitwise
    PROVE  ValuesKept'
<1>1. ASSUME NEW k \in {"uint", "wrapping"}, NEW r \in Vals!Rhs[k]
      PROVE  /\ Good(Vals!As(k, Vals!boxed_bitand(res, r))) /\ Good(Vals!As(k, Vals!boxed_bitor(res, r)))
             /\ Good(Vals!As(k, Vals!boxed_bitxor(res, r))) /\ Good(Vals!As(k, Vals!boxed_bitor_assign(res, r)))
             /\ Good(Vals!As(k, Vals!uint_bitand(res, r))) /\ Good(Vals!As(k, Vals!uint_bitor(res, r)))
             /\ Good(Vals!As(k, Vals!uint_bitxor(res, r)))
  <2>1. Fits(res) /\ Fits(r)
    BY OperandsFit DEF Vals!Kinds
  <2>2. /\ Fits(Vals!boxed_bitand(res, r)) /\ Fits(Vals!boxed_bitor(res, r))
        /\ Fits(Vals!boxed_bitxor(res, r)) /\ Fits(Vals!boxed_bitor_assign(res, r))
        /\ Fits(Vals!uint_bitand(res, r)) /\ Fits(Vals!uint_bitor(res, r))
        /\ Fits(Vals!uint_bitxor(res, r))
    BY <2>1, BitsFit
  <2> QED
    BY <2>2, WrapsPlain
<1>2. ASSUME NEW k \in {"uint", "wrapping"}
      PROVE  Good(Vals!As(k, Vals!boxed_not(res))) /\ Good(Vals!As(k, Vals!uint_not(res)))
  <2>1. Fits(Vals!boxed_not(res)) /\ Fits(Vals!uint_not(res))
    BY BitsFit DEF ValuesKept, Good
  <2> QED
    BY <2>1, WrapsPlain
<1>3. CASE Vals!Bitwise
  <2>1. GoodAfter
    BY <1>1, <1>2, <1>3 DEF GoodAfter, Vals!Bitwise, Vals!Return, Vals!Perform, Vals!Store
  <2> QED
    BY <2>1, KeptAfter
<1>4. CASE Vals!WrappingBitwise
  <2>1. GoodAfter
    BY <1>1, <1>2, <1>4 DEF GoodAfter, Vals!WrappingBitwise, Vals!Return, Vals!Perform, Vals!Store
  <2> QED
    BY <2>1, KeptAfter
<1> QED
  BY <1>3, <1>4

\* The operators of Wrapping.
LEMMA WrappingStepKeeps ==
    ASSUME ValuesKept, Vals!WrappingStep
    PROVE  ValuesKept'
<1>1. ASSUME NEW r \in Vals!Rhs["wrapping"]
      PROVE  /\ Good(Vals!wrapping_sum(res, r)) /\ Good(Vals!wrapping_difference(res, r))
             /\ Good(Vals!wrapping_product(res, r))
  <2>1. Fits(res) /\ Fits(r) /\ res.n \in 1..(2 * N)
    BY OperandsFit DEF Vals!Kinds
  <2>2. /\ Fits(Vals!boxed_wrapping_add(res, r)) /\ Fits(Vals!boxed_wrapping_sub(res, r))
        /\ Fits(Vals!boxed_overflowing_mul(res, r, res.n)[1])
    BY <2>1, CutSumFits, ProductFits
  <2> QED
    BY <2>2, WrapsPlain DEF Vals!wrapping_sum, Vals!wrapping_difference, Vals!wrapping_product
<1>2. Fits(res)
  BY DEF ValuesKept, Good
<1>3. Good(Vals!wrapping_negation(res))
  <2>1. Fits(Vals!boxed_wrapping_neg(res, TRUE))
    BY <1>2, NegatedFits
  <2> QED
    BY <2>1, WrapsPlain DEF Vals!wrapping_negation
<1>4. ASSUME NEW s \in 0..(2 * Vals!bits_precision(res.n))
      PROVE  Good(Vals!wrapping_shl(res, s)) /\ Good(Vals!wrapping_shr(res, s))
  <2>1. s \in Nat
    BY SMT
  <2> QED
    BY <1>2, <2>1, ShiftFits
<1>5. GoodAfter
  BY <1>1, <1>3, <1>4 DEF GoodAfter, Vals!WrappingStep, Vals!Return, Vals!Perform, Vals!Store
<1> QED
  BY <1>5, KeptAfter

\* Those of Checked.
LEMMA CheckedStepKeeps ==
    ASSUME ValuesKept, Vals!CheckedStep
    PROVE  ValuesKept'
<1>1. ASSUME NEW r \in Vals!Rhs["checked"]
      PROVE  /\ Good(Vals!checked_sum(res, r)) /\ Good(Vals!checked_difference(res, r))
             /\ Good(Vals!checked_product(res, r)) /\ Good(Vals!checked_quotient(res, r))
  <2>1. Fits(res) /\ Fits(r) /\ res.n \in 1..(2 * N)
    BY OperandsFit DEF Vals!Kinds
  <2>2. /\ Fits(Vals!boxed_overflowing_add(res, r)[1]) /\ Fits(Vals!boxed_underflowing_sub(res, r)[1])
        /\ Fits(Vals!boxed_overflowing_mul(res, r, res.n)[1]) /\ Fits(Vals!boxed_checked_div(res, r)[1])
    BY <2>1, CutSumFits, ProductFits
  <2> QED
    BY <2>2, WrapsPlain DEF Vals!checked_sum, Vals!checked_difference, Vals!checked_product,
                            Vals!checked_quotient, Vals!and_then
<1>2. GoodAfter
  BY <1>1 DEF GoodAfter, Vals!CheckedStep, Vals!Return, Vals!Perform, Vals!Store
<1> QED
  BY <1>2, KeptAfter

\* A product that does not overflow keeps the promise of both factors.
LEMMA WrappedProductKeeps ==
    ASSUME ValuesKept, Vals!WrappedProduct
    PROVE  ValuesKept'
<1>1. ASSUME NEW kind \in {"nz", "odd"}, NEW r \in Vals!Rhs[kind], res.kind = kind,
             ~ Vals!boxed_overflowing_mul(res, r, res.n)[2]
      PROVE  Good(Vals!As(kind, Vals!boxed_overflowing_mul(res, r, res.n)[1]))
  <2> DEFINE s == Vals!boxed_overflowing_mul(res, r, res.n)
             m == W[res.n]
             v == res.v * r.v
  <2>1. /\ Fits(res) /\ Fits(r) /\ res.n \in 1..(2 * N) /\ res.n \in 0..(2 * N)
        /\ res.v \in Nat /\ r.v \in Nat
    BY OperandsFit, BaseFacts, SMT DEF Vals!Kinds
  <2>2. (flag = 0 => Vals!Legal(kind, res.v)) /\ Vals!Legal(kind, r.v)
    BY <1>1, RhsGood DEF ValuesKept, Good, Vals!Kinds
  <2>3. Fits(s[1])
    BY <2>1, ProductFits
  <2>4. s[1].v = v % m /\ s[2] = (v >= m)
    BY DEF Vals!boxed_overflowing_mul, Vals!U
  <2>5. v \in Nat /\ m \in Nat /\ m > 0
    BY <2>1, WeightFacts, SMT
  <2>6. ~(v >= m)
    BY <1>1, <2>4
  <2>7. flag = 0 => Vals!Legal(kind, v)
    BY <1>1, <2>1, <2>2, LegalProduct DEF Vals!Legal
  <2> HIDE DEF s, m, v
  <2>8. v % m = v
    <3>1. v \in Int /\ v \in 0..(m - 1) /\ v = m * 0 + v
      BY <2>5, <2>6, SMT
    <3> QED
      BY <2>5, <3>1, DivisionIs
  <2>9. flag = 0 => Vals!Legal(kind, s[1].v)
    BY <2>4, <2>7, <2>8
  <2>10. Good(Vals!As(kind, s[1]))
    BY <2>3, <2>9, Wraps
  <2> QED
    BY <2>10 DEF s
<1>2. GoodAfter
  BY <1>1 DEF GoodAfter, ValuesKept, Vals!WrappedProduct, Vals!Ready, Vals!Return, Vals!Perform, Vals!Store
<1> QED
  BY <1>2, KeptAfter

\* New values.
LEMMA CreateKeeps ==
    ASSUME ValuesKept, Vals!Create
    PROVE  ValuesKept'
<1>0. Fits(res) /\ res.n \in 1..(2 * N)
  BY DEF ValuesKept, Good, Fits
<1>1. ASSUME NEW p \in 0..Vals!bits_precision(ValueLimbs)
      PROVE  /\ Good(Vals!As("uint", Vals!zero_with_precision(p)))
             /\ Good(Vals!As("uint", Vals!one_with_precision(p)))
             /\ Good(Vals!As("uint", Vals!max_with_precision(p)))
             /\ Vals!to_limbs(p) > 0 => \A r \in Vals!Rhs["uint"] :
                    Good(Vals!As("uint", Vals!from_words_with_precision(r, p)))
  <2>1. ASSUME NEW r \in Vals!Rhs["uint"] PROVE r.v \in Nat
    BY OperandsFit DEF Vals!Kinds
  <2>2. /\ Fits(Vals!zero_with_precision(p)) /\ Fits(Vals!one_with_precision(p))
        /\ Fits(Vals!max_with_precision(p))
        /\ Vals!to_limbs(p) > 0 => \A r \in Vals!Rhs["uint"] : Fits(Vals!from_words_with_precision(r, p))
    BY <2>1, NewFits
  <2> QED
    BY <2>2, WrapsPlain
<1>2. ASSUME NEW kind \in Vals!Kinds PROVE Good(Vals!default_of(kind))
  <2> DEFINE v == IF kind \in {"nz", "odd"} THEN 1 ELSE 0
  <2>1. 1 \in 1..(2 * N)
    BY BaseFacts, SMT
  <2>2. Fits(Vals!U(v, 1))
    BY <2>1, SmallFits
  <2>3. Vals!Legal(kind, v)
    BY LegalSmall
  <2>4. Vals!U(v, 1).v = v
    BY DEF Vals!U
  <2>5. Vals!default_of(kind) = Vals!As(kind, Vals!U(v, 1))
    BY DEF Vals!default_of
  <2> HIDE DEF v
  <2> QED
    BY <2>2, <2>3, <2>4, <2>5, Wraps
<1>3. ASSUME NEW w \in Vals!Word PROVE Good(Vals!As("uint", Vals!from_limb_like(w, res)))
  <2>1. w \in Word
    BY ValueOps
  <2>2. Fits(Vals!U(0, res.n))
    BY <1>0, SmallFits
  <2>3. Fits(Vals!set_limb(Vals!U(0, res.n), 0, w))
    BY <2>1, <2>2, LowestHere
  <2> QED
    BY <2>3, WrapsPlain DEF Vals!from_limb_like
<1>4. Good(Vals!As("uint", Vals!U(0, res.n))) /\ Good(Vals!As("uint", Vals!one_like(res)))
  <2>1. Fits(Vals!U(0, res.n)) /\ Fits(Vals!U(1, res.n))
    BY <1>0, SmallFits
  <2> QED
    BY <2>1, WrapsPlain DEF Vals!one_like
<1>5. GoodAfter
  BY <1>1, <1>2, <1>3, <1>4 DEF GoodAfter, Vals!Create, Vals!Return, Vals!Perform, Vals!Store
<1> QED
  BY <1>5, KeptAfter

\* A one in any number of limbs keeps every promise, and so do the integer that
\* does and what is put in its place if it does not.
LEMMA WrapsLegal ==
    ASSUME NEW a, Fits(a), NEW some
    PROVE  /\ Good(Vals!As("nz", Vals!one_like(a))) /\ Good(Vals!As("odd", Vals!one_like(a)))
           /\ Good(Vals!As("uint", a))
           /\ Good(Vals!new_nonzero(a)) /\ Good(Vals!into_nz(a)) /\ Good(Vals!to_nz_or_one(a))
           /\ Good(Vals!new_odd(a)) /\ Good(Vals!into_odd(a)) /\ Good(Vals!to_odd_or_one(a))
<1>1. a.n \in 1..(2 * N) /\ a.v \in Nat
  BY DEF Fits
<1>2. Fits(Vals!U(1, a.n)) /\ Vals!U(1, a.n).v = 1 /\ 1 \in Word
  BY <1>1, SmallFits DEF Vals!U
<1>3. /\ Vals!is_odd(a) <=> a.v % 2 = 1
      /\ Fits(Vals!set_limb(a, 0, 1)) /\ Vals!set_limb(a, 0, 1).v % 2 = 1
  <2>1. 1 % 2 = 1
    BY SMT
  <2> QED
    BY <1>2, <2>1, LowestHere
<1>4. Vals!set_limb(a, 0, 1).v # 0
  <2>1. 0 % 2 # 1
    BY SMT
  <2> QED
    BY <1>3, <2>1
<1>5. \A kind \in {"nz", "odd"} : \A b : /\ Good(Vals!As(kind, Vals!U(1, a.n)))
                                        /\ Good(Vals!Opt(kind, Vals!U(1, a.n), b))
  BY <1>2, LegalSmall, Wraps
<1>6. \A b : a.v # 0 => Good(Vals!As("nz", a)) /\ Good(Vals!Opt("nz", a, b))
  BY LegalSmall, Wraps
<1>7. \A b : a.v % 2 = 1 => Good(Vals!As("odd", a)) /\ Good(Vals!Opt("odd", a, b))
  BY LegalSmall, Wraps
<1>8. \A b : /\ Good(Vals!Opt("nz", Vals!set_limb(a, 0, 1), b))
             /\ Good(Vals!Opt("odd", Vals!set_limb(a, 0, 1), b))
  BY <1>3, <1>4, LegalSmall, Wraps
<1>9. Good(Vals!As("uint", a))
  BY WrapsPlain
<1>10. Good(Vals!new_nonzero(a)) /\ Good(Vals!into_nz(a)) /\ Good(Vals!to_nz_or_one(a))
  BY <1>5, <1>6, <1>8 DEF Vals!new_nonzero, Vals!into_nz, Vals!to_nz_or_one, Vals!one_like,
                          Vals!conditional_set_one
<1>11. Good(Vals!new_odd(a)) /\ Good(Vals!into_odd(a)) /\ Good(Vals!to_odd_or_one(a))
  BY <1>3, <1>5, <1>7, <1>8 DEF Vals!new_odd, Vals!into_odd, Vals!to_odd_or_one, Vals!one_like,
                                Vals!conditional_set_one
<1> QED
  BY <1>5, <1>9, <1>10, <1>11 DEF Vals!one_like

\* Wrapping and unwrapping.
LEMMA WrapKeeps ==
    ASSUME ValuesKept, Vals!Wrap
    PROVE  ValuesKept'
<1>1. Fits(res)
  BY DEF ValuesKept, Good
<1>2. /\ Good(Vals!new_nonzero(res)) /\ Good(Vals!into_nz(res)) /\ Good(Vals!to_nz_or_one(res))
      /\ Good(Vals!new_odd(res)) /\ Good(Vals!into_odd(res)) /\ Good(Vals!to_odd_or_one(res))
  BY <1>1, WrapsLegal
<1>3. /\ \A kind \in {"wrapping", "checked"} : Good(Vals!As(kind, res))
      /\ \A b : Good(Vals!Opt("uint", res, b))
  BY <1>1, WrapsPlain
<1>4. res.kind = "odd" => Good(Vals!As("nz", res))
  <2>1. res.kind = "odd" => (flag = 0 => Vals!Legal("nz", res.v))
    BY <1>1, LegalSmall DEF ValuesKept, Good, Fits
  <2> QED
    BY <1>1, <2>1, Wraps
<1>5. GoodAfter
  BY <1>2, <1>3, <1>4 DEF GoodAfter, Vals!Wrap, Vals!Ready, Vals!Return, Vals!Perform, Vals!Store
<1> QED
  BY <1>5, KeptAfter

\* Values read, unwrapped, drawn at random and from native integers.
LEMMA ReadKeeps ==
    ASSUME ValuesKept, Vals!Read
    PROVE  ValuesKept'
<1>1. ASSUME NEW r \in Vals!Rhs["uint"]
      PROVE  /\ \A a \in {Vals!read_nonzero(r), Vals!read_odd(r)} : a.some => Good(a)
             /\ \A a \in {Vals!new_unwrap(r), Vals!odd_from_hex(r)} : ~a[2] => Good(a[1])
             /\ Good(Vals!random_odd(r))
  <2>1. Fits(r) /\ r.v \in Nat
    BY OperandsFit DEF Vals!Kinds
  <2>2. Good(Vals!new_odd(r))
    BY <2>1, WrapsLegal
  <2>3. /\ r.v # 0 => Good(Vals!As("nz", r)) /\ Good(Vals!Opt("nz", r, TRUE))
        /\ r.v % 2 = 1 => Good(Vals!As("odd", r))
    BY <2>1, LegalSmall, Wraps
  <2>4. Vals!is_odd(r) <=> r.v % 2 = 1
    <3>1. 0 \in Word
      BY BaseFacts, SMT DEF Word
    <3> QED
      BY <2>1, <3>1, LowestHere
  <2>5. ASSUME Vals!read_nonzero(r).some PROVE Good(Vals!read_nonzero(r))
    <3>1. Vals!read_nonzero(r).some = (r.v # 0)
      BY DEF Vals!read_nonzero, Vals!Opt
    <3>2. r.v # 0
      BY <2>5, <3>1
    <3>3. Vals!Legal("nz", r.v)
      BY <3>2, LegalSmall
    <3> QED
      BY <2>1, <3>3, Wraps DEF Vals!read_nonzero
  <2>6. Good(Vals!random_odd(r))
    <3> DEFINE l == Vals!Limb(r.v, 0)
               w == Vals!limb_bitor(l, 1)
    <3>1. 1 \in Word /\ 1 % 2 = 1 /\ 0 % 2 # 1
      BY BaseFacts, SMT DEF Word
    <3>2. l \in Word
      BY <2>1, <3>1, LowestHere
    <3> HIDE DEF l
    <3>3. w \in Word /\ w % 2 = 1
      BY <3>1, <3>2, WordBitOps
    <3> HIDE DEF w
    <3>4. Fits(Vals!set_limb(r, 0, w)) /\ Vals!set_limb(r, 0, w).v % 2 = 1
      BY <2>1, <3>3, LowestHere
    <3>5. Good(Vals!As("odd", Vals!set_limb(r, 0, w)))
      BY <3>4, LegalSmall, Wraps
    <3> QED
      BY <3>5 DEF Vals!random_odd, w, l
  <2>7. /\ Vals!new_unwrap(r)[1] = Vals!As("nz", r) /\ Vals!new_unwrap(r)[2] = (r.v = 0)
        /\ Vals!odd_from_hex(r)[1] = Vals!As("odd", r) /\ Vals!odd_from_hex(r)[2] = (~Vals!is_odd(r))
    BY DEF Vals!new_unwrap, Vals!odd_from_hex
  <2>8. ~Vals!new_unwrap(r)[2] => Good(Vals!new_unwrap(r)[1])
    <3>1. CASE r.v = 0
      BY <2>7, <3>1
    <3>2. CASE r.v # 0
      BY <2>3, <2>7, <3>2
    <3> QED
      BY <3>1, <3>2
  <2>9. ~Vals!odd_from_hex(r)[2] => Good(Vals!odd_from_hex(r)[1])
    <3>1. CASE Vals!is_odd(r)
      BY <2>3, <2>4, <2>7, <3>1
    <3>2. CASE ~Vals!is_odd(r)
      BY <2>7, <3>2
    <3> QED
      BY <3>1, <3>2
  <2>10. Vals!read_odd(r) = Vals!new_odd(r)
    BY DEF Vals!read_odd
  <2> QED
    BY <2>2, <2>5, <2>6, <2>8, <2>9, <2>10
<1>2. ASSUME NEW w \in Vals!Word \ {0}, NEW n \in 1..ValueLimbs PROVE Good(Vals!from_native(w, n))
  <2>1. n \in 1..(2 * N) /\ w \in Word /\ w # 0
    BY ValueLimbsHere, ValueOps, BaseFacts, SMT
  <2>2. Fits(Vals!U(w, n)) /\ Vals!U(w, n).v = w
    BY <2>1, SmallFits DEF Vals!U
  <2>3. Good(Vals!As("nz", Vals!U(w, n)))
    BY <2>1, <2>2, LegalSmall, Wraps
  <2> QED
    BY <2>3 DEF Vals!from_native
<1>3. GoodAfter
  BY <1>1, <1>2 DEF GoodAfter, ValuesKept, Vals!Read, Vals!Return, Vals!Perform, Vals!Store
<1> QED
  BY <1>3, KeptAfter

\* Clearing.
LEMMA ZeroizeKeeps ==
    ASSUME ValuesKept, Vals!Zeroize
    PROVE  ValuesKept'
<1>1. ASSUME NEW kind \in {"uint", "nz", "odd"}
      PROVE  Good(Vals!As(kind, Vals!zeroized(res, kind)))
  <2>1. res.n \in 1..(2 * N) /\ Fits(res)
    BY DEF ValuesKept, Good, Fits
  <2>2. Fits(Vals!U(0, res.n))
    BY <2>1, SmallFits
  <2> QED
    BY <2>1, <2>2, WrapsLegal, WrapsPlain DEF Vals!zeroized
<1>2. GoodAfter
  BY <1>1 DEF GoodAfter, Vals!Zeroize, Vals!Return, Vals!Perform, Vals!Store
<1> QED
  BY <1>2, KeptAfter

\* One of two.
LEMMA ChooseKeeps ==
    ASSUME ValuesKept, Vals!Choose
    PROVE  ValuesKept'
<1>1. ASSUME NEW kind \in {"uint", "nz", "odd", "wrapping"}, NEW r \in Vals!Rhs[kind],
             NEW choice \in BOOLEAN, res.kind = kind
      PROVE  /\ ~(res.n < r.n) => Good(Vals!As(kind, Vals!ct_assign(res, r, choice)))
             /\ Good(Vals!ct_select(res, r, choice))
  <2>1. kind \in Vals!Kinds
    BY DEF Vals!Kinds
  <2>2. /\ Good(res) /\ Good(r) /\ Fits(res) /\ Fits(r) /\ Vals!Legal(kind, r.v)
        /\ flag = 0 => Vals!Legal(kind, res.v)
    BY <1>1, <2>1, RhsGood DEF ValuesKept, Good
  <2>3. res.n \in 1..(2 * N) /\ r.n \in 1..(2 * N)
    BY <2>2 DEF Fits
  <2>4. ASSUME ~(res.n < r.n) PROVE Good(Vals!As(kind, Vals!ct_assign(res, r, choice)))
    <3>1. r.n <= res.n
      BY <2>3, <2>4, SMT
    <3>2. r.v \in Nat /\ r.v < W[res.n]
      BY <2>2, <2>3, <3>1, FitsMore
    <3>3. Fits(Vals!U(r.v, res.n)) /\ Vals!U(r.v, res.n).v = r.v
      BY <2>3, <3>2, BuiltFits
    <3>4. Good(Vals!As(kind, Vals!U(r.v, res.n))) /\ Good(Vals!As(kind, res))
      BY <2>2, <3>3, Wraps
    <3> QED
      BY <3>4 DEF Vals!ct_assign
  <2> QED
    BY <2>2, <2>4 DEF Vals!ct_select
<1>2. GoodAfter
  BY <1>1 DEF GoodAfter, ValuesKept, Vals!Choose, Vals!Ready, Vals!Return, Vals!Perform, Vals!Store
<1> QED
  BY <1>2, KeptAfter

\* An unchecked resize that breaks the promise of a wrapper marks what it leaves.
LEMMA TruncateKeeps ==
    ASSUME ValuesKept, NEW form, NEW kind, NEW p, NEW a, Fits(a), Vals!Truncate(form, kind, p, a)
    PROVE  ValuesKept'
<1> DEFINE u == Vals!As(kind, a)
<1>1. u.v = a.v /\ u.n = a.n /\ u.kind = kind
  BY DEF Vals!As
<1>2. res' = u /\ u.n <= ValueLimbs /\ flag' = IF Vals!Legal(u.kind, u.v) THEN 0 ELSE 1
  BY DEF Vals!Truncate, Vals!Store
<1> HIDE DEF u
<1>3. Fits(u)
  BY <1>1 DEF Fits
<1>4. flag' = 0 => Vals!Legal(u.kind, u.v)
  BY <1>2
<1>5. Fits(res') /\ res'.n <= ValueLimbs /\ (flag' = 0 => Vals!Legal(res'.kind, res'.v))
  BY <1>2, <1>3, <1>4
<1> QED
  BY <1>5 DEF ValuesKept, Good

\* Another precision.
LEMMA ResizeKeeps ==
    ASSUME ValuesKept, Vals!Resize
    PROVE  ValuesKept'
<1>1. ASSUME NEW kind \in {"uint", "nz", "odd"}, NEW p \in 0..(Vals!bits_precision(ValueLimbs) + 1),
             res.kind = kind
      PROVE  /\ Fits(Vals!resize_unchecked(res, p)) /\ Fits(Vals!resize_ref_unchecked(res, p))
             /\ Vals!is_within_bits(res, p) => Good(Vals!As(kind, Vals!resize_unchecked(res, p)))
             /\ Good([res EXCEPT !.some = FALSE])
             /\ kind = "uint" => Good(Vals!As("uint", Vals!resize_ref_unchecked(res, p)))
  <2>1. Fits(res) /\ (flag = 0 => Vals!Legal(kind, res.v))
    BY <1>1 DEF ValuesKept, Good
  <2>2. /\ Fits(Vals!resize_unchecked(res, p)) /\ Fits(Vals!resize_ref_unchecked(res, p))
        /\ Vals!is_within_bits(res, p) => Vals!resize_unchecked(res, p).v = res.v
    BY <2>1, ResizedFits
  <2>3. Good([res EXCEPT !.some = FALSE])
    <3> DEFINE u == [res EXCEPT !.some = FALSE]
    <3>1. u.n = res.n /\ u.v = res.v /\ u.kind = res.kind
      OBVIOUS
    <3> HIDE DEF u
    <3>2. Good(u)
      BY <2>1, <1>1, <3>1 DEF Good, Fits
    <3> QED
      BY <3>2 DEF u
  <2>4. Vals!is_within_bits(res, p) =>
            (flag = 0 => Vals!Legal(kind, Vals!resize_unchecked(res, p).v))
    BY <2>1, <2>2
  <2>5. Vals!is_within_bits(res, p) => Good(Vals!As(kind, Vals!resize_unchecked(res, p)))
    BY <2>2, <2>4, Wraps
  <2>6. Good(Vals!As("uint", Vals!resize_ref_unchecked(res, p)))
    BY <2>2, WrapsPlain
  <2> QED
    BY <2>2, <2>3, <2>5, <2>6
<1> DEFINE
      Unchecked(kind, p) == Vals!Truncate("unchecked", kind, p, Vals!resize_unchecked(res, p))
      RefUnchecked(kind, p) == Vals!Truncate("ref_unchecked", kind, p, Vals!resize_ref_unchecked(res, p))
      Try(kind, p) ==
          Vals!Return("resize", "try", Vals!NoRhs, p,
                  IF Vals!is_within_bits(res, p) THEN Vals!As(kind, Vals!resize_unchecked(res, p))
                                                 ELSE [res EXCEPT !.some = FALSE])
      Operator(kind, p) ==
          LET over == ~Vals!is_within_bits(res, p)
          IN  Vals!Perform("resize", "operator", Vals!NoRhs, p, <<>>, over,
                       IF over THEN res ELSE Vals!As(kind, Vals!resize_unchecked(res, p)))
      Precision(kind, p) ==
          /\ kind = "uint"
          /\ \E op \in {"widen", "shorten"} :
               LET over == IF op = "widen" THEN p < Vals!bits_precision(res.n) ELSE p > Vals!bits_precision(res.n)
               IN  Vals!Perform(op, "operator", Vals!NoRhs, p, <<>>, over,
                            IF over THEN res ELSE Vals!As("uint", Vals!resize_ref_unchecked(res, p)))
<1>2. \E kind \in {"uint", "nz", "odd"} : Vals!Ready(kind) /\
        \E p \in 0..(Vals!bits_precision(ValueLimbs) + 1) :
          \/ Unchecked(kind, p)
          \/ RefUnchecked(kind, p)
          \/ Try(kind, p)
          \/ Operator(kind, p)
          \/ Precision(kind, p)
  BY DEF Vals!Resize
<1>3. ASSUME NEW kind \in {"uint", "nz", "odd"}, NEW p \in 0..(Vals!bits_precision(ValueLimbs) + 1),
             Vals!Ready(kind), Unchecked(kind, p)
      PROVE  ValuesKept'
  BY <1>1, <1>3, TruncateKeeps DEF Vals!Ready
<1>4. ASSUME NEW kind \in {"uint", "nz", "odd"}, NEW p \in 0..(Vals!bits_precision(ValueLimbs) + 1),
             Vals!Ready(kind), RefUnchecked(kind, p)
      PROVE  ValuesKept'
  BY <1>1, <1>4, TruncateKeeps DEF Vals!Ready
<1>5. ASSUME NEW kind \in {"uint", "nz", "odd"}, NEW p \in 0..(Vals!bits_precision(ValueLimbs) + 1),
             Vals!Ready(kind), Try(kind, p)
      PROVE  ValuesKept'
  <2>1. GoodAfter
    BY <1>1, <1>5 DEF GoodAfter, ValuesKept, Vals!Perform, Vals!Store, Vals!Return, Vals!Ready
  <2> QED
    BY <2>1, KeptAfter
<1>6. ASSUME NEW kind \in {"uint", "nz", "odd"}, NEW p \in 0..(Vals!bits_precision(ValueLimbs) + 1),
             Vals!Ready(kind), Operator(kind, p)
      PROVE  ValuesKept'
  <2>1. GoodAfter
    BY <1>1, <1>6 DEF GoodAfter, ValuesKept, Vals!Perform, Vals!Store, Vals!Return, Vals!Ready
  <2> QED
    BY <2>1, KeptAfter
<1>7. ASSUME NEW kind \in {"uint", "nz", "odd"}, NEW p \in 0..(Vals!bits_precision(ValueLimbs) + 1),
             Vals!Ready(kind), Precision(kind, p)
      PROVE  ValuesKept'
  <2>1. GoodAfter
    BY <1>1, <1>7 DEF GoodAfter, ValuesKept, Vals!Perform, Vals!Store, Vals!Return, Vals!Ready
  <2> QED
    BY <2>1, KeptAfter
<1> HIDE DEF Unchecked, RefUnchecked, Try, Operator, Precision
<1> QED
  BY <1>2, <1>3, <1>4, <1>5, <1>6, <1>7

\* Bits set and cleared.
LEMMA SetBitsKeeps ==
    ASSUME ValuesKept, Vals!SetBits
    PROVE  ValuesKept'
<1>1. ASSUME NEW p \in 0..(Vals!bits_precision(res.n) + 1), NEW bit
      PROVE  /\ Good(Vals!As("uint", Vals!ref_set_bit(res, p, bit)))
             /\ Good(Vals!As("uint", Vals!ref_restrict_bits(res, p)))
  <2>1. p \in Nat /\ Fits(res)
    BY SMT DEF ValuesKept, Good
  <2>2. Fits(Vals!ref_set_bit(res, p, bit)) /\ Fits(Vals!ref_restrict_bits(res, p))
    BY <2>1, SetBitsFit
  <2> QED
    BY <2>2, WrapsPlain
<1>2. GoodAfter
  BY <1>1 DEF GoodAfter, ValuesKept, Vals!SetBits, Vals!Return, Vals!Perform, Vals!Store
<1> QED
  BY <1>2, KeptAfter

\* Questions change nothing.
LEMMA QueryKeeps ==
    ASSUME ValuesKept, Vals!Query \/ Vals!Continue
    PROVE  ValuesKept'
<1>1. GoodAfter
  BY DEF GoodAfter, ValuesKept, Vals!Query, Vals!Continue, Vals!Perform, Vals!Store
<1> QED
  BY <1>1, KeptAfter

\* No operation but an unchecked resize breaks the promise of a wrapper.
LEMMA ValuesKeep ==
    ASSUME ValuesKept, Vals!Next
    PROVE  ValuesKept'
<1>1. CASE Vals!Continue \/ Vals!Query
  BY <1>1, QueryKeeps
<1>2. CASE Vals!Sum \/ Vals!Difference \/ Vals!Negation \/ Vals!Product \/ Vals!Quotient
  BY <1>2, SumKeeps, DifferenceKeeps, NegationKeeps, ProductKeeps, QuotientKeeps
<1>3. CASE Vals!Bitwise \/ Vals!WrappingStep \/ Vals!WrappingBitwise \/ Vals!CheckedStep
  BY <1>3, BitwiseKeeps, WrappingStepKeeps, CheckedStepKeeps
<1>4. CASE Vals!WrappedProduct \/ Vals!Create \/ Vals!Wrap \/ Vals!Read \/ Vals!Zeroize
  BY <1>4, WrappedProductKeeps, CreateKeeps, WrapKeeps, ReadKeeps, ZeroizeKeeps
<1>5. CASE Vals!Choose \/ Vals!Resize \/ Vals!SetBits
  BY <1>5, ChooseKeeps, ResizeKeeps, SetBitsKeeps
<1> QED
  BY <1>1, <1>2, <1>3, <1>4, <1>5 DEF Vals!Next

----------------------------------------------------------------------------
(* The promises of the wrappers, in every behaviour.                       *)

ValuesInv == family = "values" => ValuesKept

\* The families are told apart.
LEMMA ValuesInitOK ==
    ASSUME Init
    PROVE  ValuesInv
<1> SUFFICES ASSUME family = "values" PROVE ValuesKept
  BY DEF ValuesInv
<1>1. Vals!Init
  BY DEF Init
<1>2. res = Vals!As("uint", Vals!U(0, 1))
  BY <1>1 DEF Vals!Init
<1>3. 1 \in 1..(2 * N) /\ 1 <= ValueLimbs
  BY BaseFacts, ValueLimbsHere, SMT
<1>4. Good(res) /\ res.n = 1
  BY <1>2, <1>3, SmallFits, WrapsPlain DEF Vals!As, Vals!U
<1> QED
  BY <1>3, <1>4 DEF ValuesKept

\* Every integer fits its limbs, and a NonZero is never zero and an Odd never even,
\* whatever was done before to the value: unless resize_unchecked of a NonZero or an
\* Odd, which looks at nothing, has made it so and nothing since has made it legal.
THEOREM ValuesInductive == Spec => []ValuesInv
<1>1. Init => ValuesInv
  BY ValuesInitOK
<1>2. ValuesInv /\ [Next \/ Returned]_vars => ValuesInv'
  <2> SUFFICES ASSUME ValuesInv, [Next \/ Returned]_vars PROVE ValuesInv'
    OBVIOUS
  <2>1. CASE family' = "values" /\ Next
    <3>1. family = "values" /\ Vals!Next
      BY <2>1 DEF Next
    <3>2. ValuesKept
      BY <3>1 DEF ValuesInv
    <3> QED
      BY <3>1, <3>2, ValuesKeep DEF ValuesInv
  <2>2. CASE UNCHANGED vars
    <3>1. family' = family /\ res' = res /\ flag' = flag
      BY <2>2 DEF vars, loop
    <3> QED
      BY <3>1 DEF ValuesInv, ValuesKept, Good
  <2>3. CASE family' # "values"
    BY <2>3 DEF ValuesInv
  <2> QED
    BY <2>1, <2>2, <2>3 DEF Returned
<1> QED
  BY <1>1, <1>2, PTL DEF Spec

\* So only an unchecked resize breaks a wrapper.
THEOREM ValuesHold == Spec => []WrappersHold
<1>1. ValuesInv => WrappersHold
  <2> SUFFICES ASSUME ValuesInv, family = "values" PROVE Vals!WrappersHold
    BY DEF WrappersHold
  <2>1. ValuesKept
    BY DEF ValuesInv
  <2>2. /\ res.n \in 1..(2 * N) /\ res.v \in Nat /\ res.v < W[res.n]
        /\ flag = 0 => Vals!Legal(res.kind, res.v)
    BY <2>1 DEF ValuesKept, Good, Fits
  <2>3. res.n \in 0..(2 * N) /\ res.n >= 1
    BY <2>2, BaseFacts, SMT
  <2>4. W[res.n] \in Nat
    BY <2>3, WeightFacts
  <2>5. res.v \in 0..(W[res.n] - 1)
    BY <2>2, <2>4, SMT
  <2> QED
    BY <2>2, <2>3, <2>5 DEF Vals!WrappersHold
<1> QED
  BY <1>1, ValuesInductive, PTL

=============================================================================
