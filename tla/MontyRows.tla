----------------------------- MODULE MontyRows -----------------------------
(***************************************************************************)
(* Montgomery multiplication one row at a time                             *)
(* (src/src/modular/mul.rs, montgomery_multiply_inner) and the final       *)
(* corrections of its callers.                                             *)
(*                                                                         *)
(* One step is one iteration of the outer loop: add x[i]*y, add the        *)
(* multiple u of the modulus that clears the lowest limb, drop that limb.  *)
(* acc is the accumulator (meta_carry, out), of N limbs and a carry.       *)
(* The inner loop is the subject of module Fios, which implements this     *)
(* one.                                                                    *)
(***************************************************************************)
EXTENDS ModOps

VARIABLES
    caller,   \* "amm": almost_montgomery_mul; "mul": mul_montgomery_form
    x, y, m,  \* the factors and the odd modulus
    k,        \* mod_neg_inv, the inverse of -m modulo the word base
    acc,      \* the accumulator
    i,        \* the row
    res,      \* the caller's result
    pc,       \* "rows", "correct" or "done"
    q         \* history: the multiple of m added so far, divided by nothing

params == <<caller, x, y, m, k>>
vars   == <<caller, x, y, m, k, acc, i, res, pc, q>>

Init ==
    /\ caller \in {"amm", "mul"}
    /\ x \in Uint /\ y \in Uint
    /\ m \in Uint /\ m % 2 = 1
    /\ k \in Word /\ IsModNegInv(k, m)
    /\ acc = 0 /\ i = 0 /\ res = 0 /\ q = 0
    /\ pc = "rows"

\* Slip: the multiple is computed from the product alone.
RowMultipleOfProduct(xi) == wrapping_mul(Lo(xi * y), k)

\* Slip: the multiple is not cut down to a word.
RowMultipleWide(xi) == Lo(acc + xi * y) * k

\* The multiple of the modulus whose addition clears the lowest limb.
RowMultiple(xi) == wrapping_mul(Lo(acc + xi * y), k)

\* Slip: one row too many.
RowBeyond ==
    /\ pc = "rows" /\ i <= N
    /\ LET xi == Limb(x, i)
           u  == RowMultiple(xi)
       IN  /\ acc' = (acc + xi * y + u * m) \div B
           /\ q' = q + u * W[i]
    /\ i' = i + 1
    /\ pc' = IF i = N THEN "correct" ELSE "rows"
    /\ UNCHANGED <<params, res>>

\* Slip: the limbs of x are taken from the top.
RowReversed ==
    /\ pc = "rows" /\ i < N
    /\ LET xi == Limb(x, N - 1 - i)
           u  == RowMultiple(xi)
       IN  /\ acc' = (acc + xi * y + u * m) \div B
           /\ q' = q + u * W[i]
    /\ i' = i + 1
    /\ pc' = IF i + 1 = N THEN "correct" ELSE "rows"
    /\ UNCHANGED <<params, res>>

Row ==
    /\ pc = "rows" /\ i < N
    /\ LET xi == Limb(x, i)
           u  == RowMultiple(xi)
       IN  /\ acc' = (acc + xi * y + u * m) \div B
           /\ q' = q + u * W[i]
    /\ i' = i + 1
    /\ pc' = IF i + 1 = N THEN "correct" ELSE "rows"
    /\ UNCHANGED <<params, res>>

\* The accumulator as the callers see it: the limbs and the carry limb.
OutLimbs      == acc % R
OverCarry == acc \div R

\* Slip: the overflow is dropped and nothing subtracted.
AlmostUncorrected ==
    /\ pc = "correct" /\ caller = "amm"
    /\ res' = OutLimbs
    /\ pc' = "done"
    /\ UNCHANGED <<params, acc, i, q>>

\* almost_montgomery_mul subtracts the modulus only if the product overflowed.
AlmostCorrect ==
    /\ pc = "correct" /\ caller = "amm"
    /\ res' = UintConditionalBorrowingSub(OutLimbs, m, lsb_to_choice(OverCarry))[1]
    /\ pc' = "done"
    /\ UNCHANGED <<params, acc, i, q>>

\* Slip: the modulus is subtracted on overflow only.
CorrectOverflowOnly ==
    /\ pc = "correct" /\ caller = "mul"
    /\ res' = UintConditionalBorrowingSub(OutLimbs, m, lsb_to_choice(OverCarry))[1]
    /\ pc' = "done"
    /\ UNCHANGED <<params, acc, i, q>>

\* mul_montgomery_form and square_montgomery_form reduce once.
Correct ==
    /\ pc = "correct" /\ caller = "mul"
    /\ res' = TrySubWithCarry(OutLimbs, OverCarry, m)[1]
    /\ pc' = "done"
    /\ UNCHANGED <<params, acc, i, q>>

Returned == pc = "done" /\ UNCHANGED vars

Next == Row \/ AlmostCorrect \/ Correct \/ Returned

Spec == Init /\ [][Next]_vars
----------------------------------------------------------------------------
\* The variables have their types.
TypeOK ==
    /\ caller \in {"amm", "mul"}
    /\ x \in Uint /\ y \in Uint
    /\ m \in Uint /\ m % 2 = 1
    /\ k \in Word /\ IsModNegInv(k, m)
    /\ acc \in 0..(2 * R - 1) /\ i \in 0..N
    /\ res \in Uint /\ q \in Nat
    /\ pc \in {"rows", "correct", "done"}

\* After i rows the accumulator, moved up by i limbs, is the product by the
\* low i limbs of x plus q times the modulus, and q has at most i limbs: every
\* division by the word base was exact.
RowsExact ==
    /\ acc * W[i] = (x % W[i]) * y + q * m
    /\ q < W[i]

\* The accumulator never reaches y + m, so that out and a meta-carry of one
\* bit hold it whatever the (unreduced) factors.
AccBound == acc < y + m

\* f(z) of the comment on almost_montgomery_mul: the number of subtractions of
\* the modulus that fully reduce z.
f(z) == z \div m

\* Both callers return a number congruent to x*y/R modulo m.
ResultCongruent ==
    pc = "done" => (res * R) % m = (x * y) % m

\* The comment's first conjecture (mul.rs, "if f(x) = k and f(y) = n, then
\* f(AMM(x, y)) <= min(k, n) + 1"): the error of an almost Montgomery product
\* is that of the better factor, plus one.
AmmErrorBound ==
    (pc = "done" /\ caller = "amm") =>
        /\ f(res) <= f(x) + 1
        /\ f(res) <= f(y) + 1

\* One reduced factor is enough for mul_montgomery_form to return a reduced
\* product: the single subtraction of try_sub_with_carry never leaves it at m
\* or above, and its carry never hides a borrow.
MulReduced ==
    (pc = "done" /\ caller = "mul" /\ (x < m \/ y < m)) => res < m

\* Once the rows are done the accumulator is what MontyProduct promises.
Promise == INSTANCE MontyProduct
               WITH prod <- IF pc = "rows" THEN -1 ELSE acc
ImplementsProduct == Promise!ProductSpec
============================================================================
