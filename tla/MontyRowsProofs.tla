--------------------------- MODULE MontyRowsProofs ---------------------------
(***************************************************************************)
(* Montgomery multiplication, for every word base, number of limbs,        *)
(* modulus and pair of factors: the accumulator is exact and bounded, the  *)
(* corrections of the callers are the right ones, the error of an almost   *)
(* Montgomery product obeys the first conjecture of mul.rs, and the rows   *)
(* implement MontyProduct.                                                 *)
(***************************************************************************)
EXTENDS MontyRows, LimbsProofs

\* The phase follows the row counter.
PhaseOK == (pc = "rows") <=> (i < N)

\* What the callers' corrections leave, in terms of the accumulator.
ResultIs ==
    pc = "done" =>
        /\ caller = "amm" => res = IF acc < R THEN acc ELSE acc - m
        /\ caller = "mul" => res = IF acc < m THEN acc ELSE acc - m

\* The inductive invariant.
Inv == TypeOK /\ RowsExact /\ AccBound /\ PhaseOK /\ ResultIs

----------------------------------------------------------------------------
(* The rows.                                                               *)

\* A row keeps the accumulator exact and below y + m.
LEMMA RowStep ==
    ASSUME TypeOK, RowsExact, AccBound, Row
    PROVE  /\ acc' \in Nat /\ q' \in Nat
           /\ acc' * W[i + 1] = (x % W[i + 1]) * y + q' * m
           /\ q' < W[i + 1]
           /\ acc' < y + m
           /\ B * acc' = acc + Limb(x, i) * y + RowMultiple(Limb(x, i)) * m
<1> DEFINE xi == Limb(x, i)
           u  == RowMultiple(xi)
<1>1. /\ x \in Nat /\ y \in Nat /\ m \in Nat /\ k \in Nat
      /\ acc \in Nat /\ q \in Nat /\ i \in 0..(2 * N - 1)
      /\ IsModNegInv(k, m) /\ B \in Nat /\ B > 0
  BY BaseFacts, SMT DEF TypeOK, Row, Uint, Word
<1>2. acc * W[i] = (x % W[i]) * y + q * m /\ q < W[i] /\ acc < y + m
  BY DEF RowsExact, AccBound
<1>3. xi \in Word /\ xi * y \in Nat
  <2>1. i \in 0..(2 * N)
    BY <1>1, BaseFacts, SMT
  <2>2. xi \in Word
    BY <1>1, <2>1, LimbType
  <2> QED
    BY <1>1, <2>2, SMT DEF Word
<1>4. u \in Word /\ \E z \in Nat : acc + xi * y + u * m = B * z
  <2> DEFINE s == acc + xi * y
  <2>1. u = ((s % B) * k) % B /\ s \in Nat
    BY <1>1, <1>3, SMT DEF RowMultiple, wrapping_mul, Lo
  <2> HIDE DEF s, u
  <2>2. u \in Word /\ \E z \in Nat : s + u * m = B * z
    <3>1. k \in Nat /\ m \in Nat /\ IsModNegInv(k, m)
      BY <1>1
    <3> QED
      BY <2>1, <3>1, ClearsLowLimb
  <2> QED
    BY <2>2 DEF s
<1> HIDE DEF u
<1>5. PICK z \in Nat : B * z = acc + xi * y + u * m
  BY <1>4
<1>6. q + u * W[i] \in Nat /\ ExactRows(x, y, m, z, q + u * W[i], i + 1)
  <2>1. ExactRows(x, y, m, acc, q, i) /\ RowGives(x, y, m, acc, i, u, z)
    BY <1>2, <1>5 DEF ExactRows, RowGives, xi
  <2> QED
    BY <1>1, <1>4, <2>1, RowOfProduct
<1>7. acc' = (acc + xi * y + u * m) \div B /\ q' = q + u * W[i]
  BY DEF Row, u
<1> HIDE DEF xi
<1>8. acc' = z
  <2>1. B * z + 0 \in Int /\ z \in Int /\ 0 \in 0..(B - 1)
    BY <1>1, SMT
  <2>2. z = (B * z + 0) \div B
    BY <1>1, <2>1, DivisionIs
  <2>3. acc + xi * y + u * m = B * z + 0
    BY <1>1, <1>5, SMT
  <2> QED
    BY <1>7, <2>2, <2>3
<1> QED
  BY <1>5, <1>6, <1>7, <1>8 DEF xi, u, ExactRows
----------------------------------------------------------------------------
(* The invariant.                                                          *)

\* Before the first row the accumulator is empty and the sum of no rows.
LEMMA InitInv == Init => Inv
<1> SUFFICES ASSUME Init PROVE Inv
  OBVIOUS
<1>1. TypeOK
  BY BaseFacts, SMT DEF Init, TypeOK, Uint
<1>2. RowsExact
  <2>1. W[0] = 1 /\ x \in Nat /\ y \in Nat /\ m \in Nat
    BY WeightAssumption, BaseFacts, SMT DEF Init, Uint
  <2>2. x % 1 = 0
    BY <2>1, DivMod, SMT
  <2> QED
    BY <2>1, <2>2, SMT DEF Init, RowsExact
<1>3. AccBound
  <2>1. m > 0
    BY BaseFacts, SMT DEF Init, Uint
  <2> QED
    BY <2>1, BaseFacts, SMT DEF Init, AccBound, Uint
<1>4. PhaseOK /\ ResultIs
  BY BaseFacts, SMT DEF Init, PhaseOK, ResultIs
<1> QED
  BY <1>1, <1>2, <1>3, <1>4 DEF Inv

\* The ranges the steps below need.
LEMMA Ranges ==
    ASSUME Inv
    PROVE  /\ x \in Nat /\ y \in Nat /\ m \in Nat /\ acc \in Nat /\ q \in Nat
           /\ x < R /\ y < R /\ m < R /\ m \in Uint
           /\ acc < R + m /\ acc < y + m
           /\ R \in Nat /\ R > 0 /\ N \in Nat
    BY BaseFacts, SMT DEF Inv, TypeOK, AccBound, Uint

\* One iteration of the outer loop keeps the invariant: the limb dropped is
\* zero, and the new accumulator is below y + m again.
LEMMA RowInv == Inv /\ Row => Inv'
<1> SUFFICES ASSUME Inv, Row PROVE Inv'
  OBVIOUS
<1>1. /\ acc' \in Nat /\ q' \in Nat
      /\ acc' * W[i + 1] = (x % W[i + 1]) * y + q' * m
      /\ q' < W[i + 1]
      /\ acc' < y + m
  BY RowStep DEF Inv
<1>2. UNCHANGED <<caller, x, y, m, k, res>> /\ i' = i + 1
  BY DEF Row, params
<1>3. i \in 0..N /\ i < N
  BY DEF Inv, TypeOK, Row
<1>4. TypeOK'
  BY <1>1, <1>2, <1>3, Ranges, SMT DEF Inv, TypeOK, Row
<1>5. RowsExact' /\ AccBound'
  BY <1>1, <1>2 DEF RowsExact, AccBound
<1>6. PhaseOK' /\ ResultIs'
  BY <1>2, <1>3, Ranges, SMT DEF Row, PhaseOK, ResultIs
<1> QED
  BY <1>4, <1>5, <1>6 DEF Inv

\* The corrections of the callers touch the result only.
LEMMA CorrectInv == Inv /\ (AlmostCorrect \/ Correct) => Inv'
<1> SUFFICES ASSUME Inv, AlmostCorrect \/ Correct PROVE Inv'
  OBVIOUS
<1>1. UNCHANGED <<caller, x, y, m, k, acc, i, q>> /\ pc = "correct" /\ pc' = "done"
  BY DEF AlmostCorrect, Correct, params
<1>2. /\ caller = "amm" => res' = IF acc < R THEN acc ELSE acc - m
      /\ caller = "mul" => res' = IF acc < m THEN acc ELSE acc - m
  <2>1. CASE AlmostCorrect
    BY <2>1, Ranges, OverflowSubValue DEF AlmostCorrect, OutLimbs, OverCarry
  <2>2. CASE Correct
    BY <2>2, Ranges, TrySubValue DEF Correct, OutLimbs, OverCarry
  <2> QED
    BY <2>1, <2>2
<1>3. res' \in Uint
  <2>1. caller \in {"amm", "mul"}
    BY DEF Inv, TypeOK
  <2> QED
    BY <2>1, <1>2, Ranges, SMT DEF Uint
<1>4. TypeOK'
  BY <1>1, <1>3 DEF Inv, TypeOK
<1>5. RowsExact' /\ AccBound'
  BY <1>1 DEF Inv, RowsExact, AccBound
<1>6. PhaseOK' /\ ResultIs'
  BY <1>1, <1>2 DEF Inv, PhaseOK, ResultIs
<1> QED
  BY <1>4, <1>5, <1>6 DEF Inv

\* Every step of the multiplication, stuttering included, keeps the invariant.
LEMMA NextInv == Inv /\ [Next]_vars => Inv'
<1> SUFFICES ASSUME Inv, [Next]_vars PROVE Inv'
  OBVIOUS
<1>1. CASE Row
  BY <1>1, RowInv
<1>2. CASE AlmostCorrect \/ Correct
  BY <1>2, CorrectInv
<1>3. CASE UNCHANGED vars
  BY <1>3 DEF Inv, TypeOK, RowsExact, AccBound, PhaseOK, ResultIs, vars
<1> QED
  BY <1>1, <1>2, <1>3 DEF Next, Returned

\* The inductive invariant holds throughout.
THEOREM Invariance == Spec => []Inv
<1> QED
  BY InitInv, NextInv, PTL DEF Spec

----------------------------------------------------------------------------
(* What follows for the callers.                                           *)

\* Every multiplication row keeps the types of the variables: the accumulator
\* fits in N limbs and one bit, the result in N limbs.
THEOREM TypeCorrect == Spec => []TypeOK
<1>1. Inv => TypeOK
  BY DEF Inv
<1> QED
  BY <1>1, Invariance, PTL

\* No division by the word base loses anything, and the meta-carry is one bit,
\* for any modulus and any factors of N limbs.
THEOREM RowsAreExact == Spec => [](RowsExact /\ AccBound)
<1>1. Inv => RowsExact /\ AccBound
  BY DEF Inv
<1> QED
  BY <1>1, Invariance, PTL

\* Once the rows are done, acc*R = x*y + q*m with q below R.
LEMMA ProductEquation ==
    Inv /\ pc # "rows" => acc * R = x * y + q * m /\ q < R
<1> SUFFICES ASSUME Inv, pc # "rows"
             PROVE  acc * R = x * y + q * m /\ q < R
  OBVIOUS
<1>1. i = N
  BY Ranges, SMT DEF Inv, PhaseOK, TypeOK
<1>2. x % R = x
  BY Ranges, DivisionIs, SMT
<1> QED
  BY <1>1, <1>2 DEF Inv, RowsExact, R

\* A factor below a multiple of m bounds the accumulator by the next multiple.
LEMMA FactorBoundsProduct ==
    ASSUME Inv, pc # "rows", NEW c \in Nat, x < c * m \/ y < c * m
    PROVE  acc < (c + 1) * m
<1>1. acc * R = x * y + q * m /\ q < R
  BY ProductEquation
<1>2. m * q < m * R
  BY <1>1, Ranges, SMT DEF Inv, TypeOK
<1>3. x * y <= R * (c * m)
  <2>1. CASE x < c * m
    <3>1. y * x <= y * (c * m)
      BY <2>1, Ranges, Monotone, SMT
    <3>2. (c * m) * y <= (c * m) * R
      BY Ranges, Monotone, SMT
    <3> QED
      BY <3>1, <3>2, Ranges, SMT
  <2>2. CASE y < c * m
    <3>1. x * y <= x * (c * m)
      BY <2>2, Ranges, Monotone, SMT
    <3>2. (c * m) * x <= (c * m) * R
      BY Ranges, Monotone, SMT
    <3> QED
      BY <3>1, <3>2, Ranges, SMT
  <2> QED
    BY <2>1, <2>2
<1>4. R * acc < R * ((c + 1) * m)
  <2>1. R * ((c + 1) * m) = R * (c * m) + m * R
    BY Ranges, SMT
  <2>2. R * acc = x * y + m * q
    BY <1>1, Ranges, SMT
  <2>3. x * y \in Int /\ m * q \in Int /\ R * (c * m) \in Int /\ m * R \in Int
    BY Ranges, SMT
  <2> QED
    BY <2>1, <2>2, <2>3, <1>2, <1>3, SMT
<1> QED
  BY <1>4, Ranges, Cancel, SMT

\* One reduced factor is enough for a reduced product.
THEOREM ProductReduced == Spec => []MulReduced
<1>1. Inv => MulReduced
  <2> SUFFICES ASSUME Inv, pc = "done", caller = "mul", x < m \/ y < m
               PROVE  res < m
    BY DEF MulReduced
  <2>1. acc < (1 + 1) * m
    <3>1. x < 1 * m \/ y < 1 * m
      BY Ranges, SMT
    <3> QED
      BY <3>1, FactorBoundsProduct
  <2>2. res = IF acc < m THEN acc ELSE acc - m
    BY DEF Inv, ResultIs
  <2> QED
    BY <2>1, <2>2, Ranges, SMT
<1> QED
  BY <1>1, Invariance, PTL

\* The modulus is positive: it is odd.
LEMMA ModulusPositive ==
    ASSUME Inv
    PROVE  m \in Nat /\ m > 0
<1>1. m \in Nat /\ m % 2 = 1
  BY Ranges DEF Inv, TypeOK
<1>2. 0 % 2 = 0
  BY SMT
<1> QED
  BY <1>1, <1>2, SMT

\* Whatever the caller subtracts, its result is x*y/R modulo m.
THEOREM Congruence == Spec => []ResultCongruent
<1>1. Inv => ResultCongruent
  <2> SUFFICES ASSUME Inv, pc = "done"
               PROVE  (res * R) % m = (x * y) % m
    BY DEF ResultCongruent
  <2>1. acc * R = x * y + q * m
    BY ProductEquation
  <2>2. PICK c \in {0, 1} : res = acc - c * m
    <3>1. res = acc \/ res = acc - m
      BY DEF Inv, ResultIs, TypeOK
    <3>2. acc - 0 * m = acc /\ acc - 1 * m = acc - m
      BY Ranges, SMT
    <3> QED
      BY <3>1, <3>2
  <2> DEFINE t == x * y
             d == t \div m
             e == t % m
             h == d + q - c * R
  <2>3. t \in Nat /\ h \in Int /\ d \in Int /\ e \in 0..(m - 1) /\ t = m * d + e
    <3>1. t \in Nat
      BY Ranges, SMT
    <3>2. m \in Nat /\ m > 0
      BY ModulusPositive
    <3> HIDE DEF t
    <3>3. d \in Int /\ e \in Nat /\ e < m /\ t = m * d + e
      BY <3>1, <3>2, DivMod
    <3> HIDE DEF d, e
    <3>4. h \in Int
      BY <3>3, <2>2, Ranges, SMT
    <3> QED
      BY <3>1, <3>2, <3>3, <3>4, SMT
  <2>4. res * R = m * h + e
    <3> HIDE DEF t, d, e
    <3>1. res * R = acc * R - (c * m) * R
      BY <2>2, Ranges, SMT
    <3>2. acc * R = t + q * m
      BY <2>1 DEF t
    <3> QED
      BY <3>1, <3>2, <2>2, <2>3, Ranges, SMT
  <2>5. res * R \in Int
    BY <2>2, Ranges, SMT
  <2> HIDE DEF t, d, e, h
  <2>6. (res * R) % m = e
    BY <2>3, <2>4, <2>5, ModulusPositive, DivisionIs
  <2> QED
    BY <2>6 DEF e, t
<1> QED
  BY <1>1, Invariance, PTL

\* The error of an almost Montgomery product against either factor.
LEMMA ErrorOfFactor ==
    ASSUME Inv, pc = "done", caller = "amm", NEW z \in Nat, z = x \/ z = y
    PROVE  f(res) <= f(z) + 1
<1> DEFINE fz == z \div m
           rz == z % m
           fr == res \div m
           rr == res % m
<1>1. m \in Nat /\ m > 0
  BY ModulusPositive
<1>2. fz \in Nat /\ rz \in Nat /\ rz < m /\ z = m * fz + rz
  BY <1>1, DivMod, SMT
<1>3. res \in Nat /\ res <= acc
  BY Ranges, SMT DEF Inv, ResultIs, TypeOK, Uint
<1>4. fr \in Nat /\ rr \in Nat /\ res = m * fr + rr
  BY <1>1, <1>3, DivMod, SMT
<1> HIDE DEF fz, rz, fr, rr
<1>5. z < (fz + 1) * m
  BY <1>1, <1>2, SMT
<1>6. acc < (fz + 1 + 1) * m
  <2>1. fz + 1 \in Nat
    BY <1>2, SMT
  <2>2. x < (fz + 1) * m \/ y < (fz + 1) * m
    BY <1>5
  <2> QED
    BY <2>1, <2>2, FactorBoundsProduct
<1>7. m * fr < m * (fz + 1 + 1)
  <2>1. (fz + 1 + 1) * m = m * (fz + 1 + 1) /\ m * (fz + 1 + 1) \in Int
    BY <1>1, <1>2, SMT
  <2>2. m * fr \in Int /\ m * fr <= res
    BY <1>1, <1>4, SMT
  <2> QED
    BY <2>1, <2>2, <1>3, <1>6, Ranges, SMT
<1>8. fr < fz + 1 + 1
  BY <1>1, <1>2, <1>4, <1>7, Cancel, SMT
<1>9. fr <= fz + 1
  BY <1>2, <1>4, <1>8, SMT
<1> QED
  BY <1>9 DEF fr, fz, f

\* The comment's first conjecture (mul.rs): the error of an almost Montgomery
\* product is at most that of its better factor, plus one.
THEOREM ErrorBound == Spec => []AmmErrorBound
<1>1. Inv => AmmErrorBound
  BY ErrorOfFactor, Ranges DEF AmmErrorBound
<1> QED
  BY <1>1, Invariance, PTL

\* The rows implement MontyProduct: seen from outside, a multiplication is one
\* step that yields x*y/R plus a multiple of the modulus.
THEOREM Refinement == Spec => ImplementsProduct
<1> DEFINE p == IF pc = "rows" THEN -1 ELSE acc
<1>1. Init => Promise!ProductInit
  BY DEF Init, Uint, R, Promise!ProductInit, Promise!NotYet, Promise!Uint,
         Promise!R
<1>2. Inv /\ Inv' /\ [Next]_vars => [Promise!Multiply]_<<x, y, m, p>>
  <2> SUFFICES ASSUME Inv, Inv', [Next]_vars
               PROVE  Promise!Multiply \/ UNCHANGED <<x, y, m, p>>
    OBVIOUS
  <2>1. CASE Row
    <3>1. UNCHANGED <<x, y, m>> /\ pc = "rows"
      BY <2>1 DEF Row, params
    <3>2. CASE pc' = "rows"
      BY <3>1, <3>2
    <3>3. CASE pc' = "correct"
      <4>1. acc' * R = x * y + q' * m /\ q' < R
        <5>1. pc' # "rows"
          BY <3>3
        <5>2. (Inv /\ pc # "rows" => acc * R = x * y + q * m /\ q < R)'
          BY ProductEquation, PTL
        <5> QED
          BY <5>1, <5>2, <3>1 DEF R
      <4>2. acc' \in 0..(2 * R) /\ q' \in 0..(R - 1)
        BY <4>1, SMT, BaseFacts DEF Inv, TypeOK
      <4> QED
        BY <3>1, <3>3, <4>1, <4>2
           DEF Promise!Multiply, Promise!IsRedc, Promise!NotYet, Promise!args,
               Promise!R, R
    <3> QED
      BY <2>1, <3>2, <3>3 DEF Row
  <2>2. CASE AlmostCorrect \/ Correct
    BY <2>2 DEF AlmostCorrect, Correct, params
  <2>3. CASE UNCHANGED vars
    BY <2>3 DEF vars
  <2> QED
    BY <2>1, <2>2, <2>3 DEF Next, Returned
<1> QED
  BY <1>1, <1>2, Invariance, PTL DEF Spec, ImplementsProduct, Promise!ProductSpec
==============================================================================
