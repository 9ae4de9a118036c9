------------------------------- MODULE Limbs -------------------------------
(***************************************************************************)
(* Words, limbs and fixed-width integers: src/src/primitives.rs,           *)
(* src/src/word.rs and the limb wrappers of src/src/limb/.                 *)
(*                                                                         *)
(* A word is a number below the base B = 2^Word::BITS.  An integer of N    *)
(* limbs (Uint, UintRef, BoxedUint) is represented by its value; limb i of *)
(* x is the digit Limb(x, i), and storing into limb i is SetLimb.  Every   *)
(* operator wraps where the machine word wraps.                            *)
(***************************************************************************)
EXTENDS Integers

CONSTANTS
    HalfB,  \* half of the word base: 2^(Word::BITS - 1)
    N,      \* the number of limbs of an integer (LIMBS, nlimbs())
    W       \* W[i] is the weight B^i of limb i, up to double width

B == 2 * HalfB

ASSUME BaseAssumption   == HalfB \in Nat \ {0}
ASSUME LimbsAssumption  == N \in Nat \ {0}
ASSUME WeightAssumption == /\ W \in [0..(2 * N) -> Nat \ {0}]
                           /\ W[0] = 1
                           /\ \A i \in 0..(2 * N - 1) : W[i + 1] = B * W[i]

\* The table that every configuration gives W as its value.
Weights == [i \in 0..(2 * N) |-> B ^ i]

(***************************************************************************)
(* R = Uint::MAX + 1, the Montgomery radix of the N-limb routines.         *)
(***************************************************************************)
R == W[N]

\* 2^n, in the form that proofs can unfold.
PowerOfTwo(n) == LET p[e \in 0..n] == IF e = 0 THEN 1 ELSE 2 * p[e - 1] IN p[n]

Word     == 0..(B - 1)
WideWord == 0..(B * B - 1)
Uint     == 0..(R - 1)

WordMAX == B - 1

Limb(x, i)       == (x \div W[i]) % B

SetLimb(x, i, v) == x + (v - Limb(x, i)) * W[i]

\* The integer whose limbs are f[0], ..., f[n - 1].
FromLimbs(f, n) ==
    LET sum[i \in 0..n] == IF i = 0 THEN 0 ELSE sum[i - 1] + f[i - 1] * W[i - 1]
    IN  sum[n]

\* `w as Word` and `w >> Word::BITS` of a wide word.
Lo(w) == w % B
Hi(w) == w \div B

\* Limb::select(ZERO, MAX, choice) and `x & mask` for such a mask.
Mask(choice)      == IF choice THEN WordMAX ELSE 0
Masked(x, choice) == IF choice THEN x ELSE 0

\* word::select_word(a, b, choice): b when the choice is truthy.
Select(a, b, choice) == IF choice THEN b ELSE a

----------------------------------------------------------------------------
(* Each operation on two words returns the pair <<word, carry or borrow>>. *)

carrying_add(lhs, rhs, carry) ==
    LET ret == lhs + rhs + carry IN <<Lo(ret), Hi(ret)>>

overflowing_add(lhs, rhs) ==
    <<(lhs + rhs) % B, IF lhs + rhs >= B THEN 1 ELSE 0>>

\* Slip: the borrow is returned as a bit and not as a mask.
borrowing_sub_bit(lhs, rhs, borrow) ==
    LET d == lhs - rhs - (borrow \div HalfB)
    IN  <<d % B, IF d < 0 THEN 1 ELSE 0>>

\* Only the top bit of the incoming borrow is looked at; the borrow returned
\* is the mask 0 or MAX.
borrowing_sub(lhs, rhs, borrow) ==
    LET top  == borrow \div HalfB
        ret1 == (lhs - top) % B
        b2   == lhs < top
        b1   == ret1 < rhs
    IN  <<(ret1 - rhs) % B, Mask(b1 \/ b2)>>

widening_mul(lhs, rhs) == <<Lo(lhs * rhs), Hi(lhs * rhs)>>

\* The sum is computed in a wide word, which the code's comment says cannot
\* overflow; the reduction modulo B*B is what the width would do if it did.
carrying_mul_add(lhs, rhs, addend, carry) ==
    LET ret == (lhs * rhs + addend + carry) % (B * B) IN <<Lo(ret), Hi(ret)>>

wrapping_mul(lhs, rhs) == (lhs * rhs) % B
wrapping_add(lhs, rhs) == (lhs + rhs) % B
wrapping_sub(lhs, rhs) == (lhs - rhs) % B

\* Limb::is_nonzero, Limb::is_zero, lsb_to_choice.
is_zero(w)       == w = 0
is_nonzero(w)    == w # 0
lsb_to_choice(w) == w % 2 = 1

\* What the parameters of a Montgomery modulus hold in mod_neg_inv: the inverse
\* of -m modulo the word base, of the lowest limb of the odd modulus m.
IsModNegInv(k, m) == (k * m) % B = B - 1
----------------------------------------------------------------------------
(***************************************************************************)
(* What the carry-propagating routines on N-limb integers promise, stated  *)
(* on whole values: the routines of src/src/uint/{add,sub,neg,mul_mod}.rs  *)
(* and their in-place forms in src/src/uint/ref_type/.                     *)
(*                                                                         *)
(* CarryChain models the same routines limb by limb and shows that each of *)
(* its loops computes the operator given here; the modules built on whole  *)
(* integers (ModOps, SpecialMod) use these operators.                      *)
(***************************************************************************)
\* The bit of an incoming borrow limb that the subtraction looks at.
BorrowBit(borrow) == borrow \div HalfB

UintCarryingAdd(a, b, carry) ==
    LET s == a + b + carry IN <<s % R, s \div R>>

UintOverflowingAddLimb(a, carry) ==
    LET s == a + carry IN <<s % R, s \div R>>

\* A borrow is returned as the mask 0 or MAX.
UintBorrowingSub(a, b, borrow) ==
    LET d == a - b - BorrowBit(borrow) IN <<d % R, Mask(d < 0)>>

\* The same for a right-hand side of a single limb (borrowing_sub_assign_limb).
UintBorrowingSubLimb(a, limb, borrow) == UintBorrowingSub(a, limb, borrow)

\* Returns a Choice rather than a limb.
UintConditionalBorrowingSub(a, b, choice) ==
    LET d == a - Masked(b, choice) IN <<d % R, d < 0>>

UintConditionalAdd(a, b, carry, choice) ==
    UintCarryingAdd(a, Masked(b, choice), carry)

UintCarryingNeg(a) == <<(R - a) % R, a = 0>>

UintMacByLimb(a, b, c, carry) ==
    LET s == a + b * c + carry IN <<s % R, s \div R>>

UintWrappingAdd(a, b) == UintCarryingAdd(a, b, 0)[1]
UintWrappingSub(a, b) == UintBorrowingSub(a, b, 0)[1]

UintSaturatingAdd(a, b) ==
    LET res == UintCarryingAdd(a, b, 0)
    IN  Select(res[1], R - 1, lsb_to_choice(res[2]))

UintSaturatingSub(a, b) ==
    LET res == UintBorrowingSub(a, b, 0)
    IN  Select(res[1], 0, res[2] # 0)

----------------------------------------------------------------------------
(***************************************************************************)
(* What the schoolbook routines leave in a buffer of on limbs, as sums of  *)
(* rows that are each cut off at the end of the buffer.  Schoolbook shows  *)
(* that the loops of src/src/uint/mul/schoolbook.rs compute these sums;    *)
(* Karatsuba falls back on them.                                           *)
(***************************************************************************)
Min2(a, b) == IF a < b THEN a ELSE b

\* The rows of limbs 0 to rows - 1 of x times y.
CutRows(x, y, on, rows) ==
    LET sum[r \in 0..rows] ==
          IF r = 0 THEN 0
          ELSE sum[r - 1] + (IF r > on THEN 0
                             ELSE Limb(x, r - 1) * (y % W[on - r + 1]) * W[r - 1])
    IN  sum[rows]

\* The products of limbs r > s of x, for r below rows.
CrossRows(x, rows) ==
    LET sum[r \in 0..rows] ==
          IF r = 0 THEN 0
          ELSE sum[r - 1] + Limb(x, r - 1) * (x % W[r - 1]) * W[r - 1]
    IN  sum[rows]

\* The squares of limbs from to to - 1 of x.
DiagonalSquares(x, from, to) ==
    LET sum[r \in from..to] ==
          IF r = from THEN 0
          ELSE sum[r - 1] + Limb(x, r - 1) * Limb(x, r - 1) * W[2 * (r - 1)]
    IN  sum[to]

\* schoolbook::wrapping_mul_add, its buffer and carry as one integer.
CutProduct(x, xn, y, on, out) == out + CutRows(x, y, on, xn)

\* schoolbook::wrapping_square likewise: only the rows below the diagonal are
\* cut off.
CutSquare(x, xn, on) ==
    2 * (CrossRows(x, xn) % W[on]) + DiagonalSquares(x, 0, Min2((on + 1) \div 2, xn))

\* Such a sum as the pair of the buffer and the carry limb.
Split(sum, on) == <<sum % W[on], (sum \div W[on]) % B>>
============================================================================
