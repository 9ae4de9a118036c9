------------------------------- MODULE ModOps -------------------------------
(***************************************************************************)
(* The modular corrections that follow an addition, a subtraction or a     *)
(* Montgomery multiplication, on whole integers, and the Montgomery        *)
(* routines built on them:                                                 *)
(* src/src/uint/{add_mod,sub_mod,neg_mod}.rs, src/src/modular/div_by_2.rs  *)
(* and the boxed corrections of src/src/uint/boxed/.                       *)
(***************************************************************************)
EXTENDS Limbs

(***************************************************************************)
(* try_sub_with_carry: subtract rhs from (carry, a) unless that wraps.     *)
(* The subtraction is reverted when it borrows and there is no carry to    *)
(* take the borrow from.  Returns the value and, as the new carry, what    *)
(* the carry could not take of the borrow.                                 *)
(***************************************************************************)
TrySubWithCarry(a, carry, rhs) ==
    LET sub    == UintBorrowingSub(a, rhs, 0)
        revert == lsb_to_choice(sub[2]) /\ is_zero(carry)
        taken  == Select(sub[2], 0, revert)
    IN  <<Select(sub[1], a, revert), borrowing_sub(carry, 0, taken)[2]>>

AddMod(a, b, p) ==
    LET s == UintCarryingAdd(a, b, 0) IN TrySubWithCarry(s[1], s[2], p)[1]

\* The sum of a with itself is a shift left by one, whose carry is a's top bit.
UintShl1(a) == <<(2 * a) % R, (2 * a) \div R>>

DoubleMod(a, p) ==
    LET s == UintShl1(a) IN TrySubWithCarry(s[1], s[2], p)[1]

\* Slip: the modulus is added back whatever the borrow.
SubModAlwaysAdding(a, b, p) == UintWrappingAdd(UintWrappingSub(a, b), p)

\* The borrow of the last limb masks the modulus that is added back.
SubMod(a, b, p) ==
    LET sub == UintBorrowingSub(a, b, 0)
    IN  UintWrappingAdd(sub[1], Masked(p, sub[2] # 0))

\* Slip: zero is not singled out.
NegModOfZero(a, p) == UintWrappingSub(p, a)

NegMod(a, p) ==
    LET ret == UintWrappingSub(p, a) IN Select(ret, 0, a = 0)

(***************************************************************************)
(* The boxed routines correct in place: subtract p, then add it back when  *)
(* the subtraction borrowed and there was no carry.                        *)
(***************************************************************************)
\* Slip: p is added back on a borrow even when there was a carry.
SubAssignModIgnoringCarry(a, carry, p) ==
    LET sub == UintBorrowingSub(a, p, 0)
    IN  UintConditionalAdd(sub[1], p, 0, sub[2] # 0)[1]

SubAssignModWithCarry(a, carry, p) ==
    LET sub  == UintBorrowingSub(a, p, 0)
        mask == carry = 0 /\ sub[2] # 0
    IN  UintConditionalAdd(sub[1], p, 0, mask)[1]

BoxedAddMod(a, b, p) ==
    LET s == UintCarryingAdd(a, b, 0) IN SubAssignModWithCarry(s[1], s[2], p)

BoxedDoubleMod(a, p) ==
    LET s == UintShl1(a) IN SubAssignModWithCarry(s[1], s[2], p)

BoxedSubMod(a, b, p) ==
    LET sub == UintBorrowingSub(a, b, 0)
    IN  UintConditionalAdd(sub[1], p, 0, sub[2] # 0)[1]

(***************************************************************************)
(* Halving modulo an odd p: the carry of a + p becomes the top bit.        *)
(***************************************************************************)
\* Slip: the carry of the addition is not shifted in.
DivBy2LosingCarry(a, p) ==
    Select(a, UintWrappingAdd(a, p), a % 2 = 1) \div 2

DivBy2(a, p) ==
    LET is_odd == a % 2 = 1
        if_odd == UintCarryingAdd(a, p, 0)
        carry  == Select(0, if_odd[2], is_odd)
        half   == Select(a, if_odd[1], is_odd) \div 2
    IN  half + (IF is_nonzero(carry) THEN R \div 2 ELSE 0)
-----------------------------------------------------------------------------
(***************************************************************************)
(* The Montgomery routines on whole integers                               *)
(* (src/src/modular/{mul,reduction,monty_params}.rs).  The loops they are  *)
(* made of are the subject of MontyRows, Redc and Retrieve, which show     *)
(* that each leaves in its accumulator what Acc says.                      *)
(***************************************************************************)
\* Slip: the multiple is not cut down to N limbs.
ClearingWide(t, m) == R + CHOOSE q \in 0..(R - 1) : (t + q * m) % R = 0

\* The accumulator (carry, out) of a multiplication with x*y = t, or of a
\* reduction of t: the multiple of m below R*m that clears t modulo R is
\* added, and the low N limbs, now zero, are dropped.
Clearing(t, m) == CHOOSE q \in 0..(R - 1) : (t + q * m) % R = 0
Acc(t, m)      == (t + Clearing(t, m) * m) \div R

\* The limbs and the carry of an accumulator.
Out(acc)  == acc % R
Over(acc) == acc \div R

\* Slip: m is subtracted on overflow only.
mul_montgomery_form_overflow_only(a, b, m) ==
    LET acc == Acc(a * b, m)
    IN  UintConditionalBorrowingSub(Out(acc), m, Over(acc) # 0)[1]

\* mul_montgomery_form and square_montgomery_form; with four limbs the latter
\* squares first and reduces with montgomery_reduction, to the same effect.
mul_montgomery_form(a, b, m) ==
    LET acc == Acc(a * b, m) IN TrySubWithCarry(Out(acc), Over(acc), m)[1]

square_montgomery_form(a, m) == mul_montgomery_form(a, a, m)

\* almost_montgomery_mul subtracts m only when the product overflowed.
almost_montgomery_mul(a, b, m) ==
    LET acc == Acc(a * b, m)
    IN  UintConditionalBorrowingSub(Out(acc), m, Over(acc) # 0)[1]

\* Slip: only one subtraction.
almost_montgomery_reduce_once(z, m) == TrySubWithCarry(z, 0, m)[1]

\* almost_montgomery_reduce subtracts m at most twice.
almost_montgomery_reduce(z, m) ==
    LET once == TrySubWithCarry(z, 0, m)[1] IN TrySubWithCarry(once, 0, m)[1]

\* montgomery_retrieve does not look for a carry, nor correct.
montgomery_retrieve(a, m) == Out(Acc(a, m))

(***************************************************************************)
(* square_repeat_montgomery_form: n multiplications whose results are left *)
(* in almost Montgomery form, the last one corrected twice.                *)
(***************************************************************************)
\* base after each of n squarings of a, as almost_montgomery_square leaves it.
AlmostSquares(a, n, m) ==
    LET base[j \in 0..n] == IF j = 0 THEN a
                            ELSE almost_montgomery_mul(base[j - 1], base[j - 1], m)
    IN  base

\* Slip: the last product is corrected once.
square_repeat_corrected_once(a, n, m) ==
    LET base == AlmostSquares(a, n, m)
        acc  == Acc(base[n - 1] * base[n - 1], m)
    IN  IF n = 0 THEN a ELSE TrySubWithCarry(Out(acc), Over(acc), m)[1]

square_repeat_montgomery_form(a, n, m) ==
    LET base == AlmostSquares(a, n, m)
        acc  == Acc(base[n - 1] * base[n - 1], m)
        once == TrySubWithCarry(Out(acc), Over(acc), m)
    IN  CASE n = 0 -> a
          [] n = 1 -> square_montgomery_form(a, m)
          [] n > 1 -> TrySubWithCarry(once[1], once[2], m)[1]

(***************************************************************************)
(* The parameters FixedMontyParams::new computes from a modulus.           *)
(***************************************************************************)
\* R mod m, from the remainder of Uint::MAX; when m divides R, which for an odd
\* m means m = 1, the sum reaches m.
ParamOne(m) ==
    LET one == UintWrappingAdd((R - 1) % m, 1) IN Select(one, 0, one = m)

ParamR2(m) == (ParamOne(m) * ParamOne(m)) % m
=============================================================================
