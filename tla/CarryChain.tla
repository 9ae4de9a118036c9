----------------------------- MODULE CarryChain -----------------------------
(***************************************************************************)
(* The loops that carry or borrow from limb to limb: the Uint routines of  *)
(* src/src/uint/{add,sub,neg,mul_mod}.rs and the in-place UintRef routines *)
(* of src/src/uint/ref_type/{add,sub}.rs.                                  *)
(*                                                                         *)
(* A behaviour is one call.  An in-place routine reads limb i of the       *)
(* destination it is overwriting; the others build a new array of limbs    *)
(* that starts at zero.  One step is one iteration of the loop.            *)
(***************************************************************************)
EXTENDS Limbs

VARIABLES
    op,       \* the routine
    inplace,  \* does it overwrite its left operand?
    a,        \* the left operand as passed
    b,        \* the right operand (a single limb for the *_limb routines)
    mul,      \* the multiplier limb of the multiply-accumulate routines
    choice,   \* the choice of the conditional routines
    cin,      \* the carry or borrow limb passed in
    out,      \* the destination
    carry,    \* the running carry or borrow
    i         \* the loop index

vars == <<op, inplace, a, b, mul, choice, cin, out, carry, i>>
call == <<op, inplace, a, b, mul, choice, cin>>

AddOps == {"carrying_add", "conditional_add", "overflowing_add_limb",
           "mac_by_limb", "carrying_neg"}
SubOps == {"borrowing_sub", "conditional_borrowing_sub", "borrowing_sub_limb"}

(***************************************************************************)
(* Calls the program can make.  `overflowing_add_limb` is given its limb   *)
(* as the carry.  `carrying_neg` is never in place and starts from carry   *)
(* 1; the conditional subtraction starts from borrow 0.                    *)
(***************************************************************************)
LegalCall ==
    /\ op = "carrying_neg" => ~inplace /\ cin = 1
    /\ op = "conditional_borrowing_sub" => cin = 0
    /\ op \in {"conditional_add", "borrowing_sub_limb"} => inplace
    /\ op \in {"carrying_neg", "overflowing_add_limb"} => b = 0
    /\ op = "borrowing_sub_limb" => b \in Word
    /\ op \notin {"conditional_add", "conditional_borrowing_sub"} => choice
    /\ op # "mac_by_limb" => mul = 0

Init ==
    /\ op \in AddOps \cup SubOps
    /\ inplace \in BOOLEAN
    /\ a \in Uint
    /\ b \in Uint
    /\ mul \in Word
    /\ choice \in BOOLEAN
    /\ cin \in Word
    /\ LegalCall
    /\ out = IF inplace THEN a ELSE 0
    /\ carry = cin
    /\ i = 0

\* Limb i of the left operand, as the loop reads it.
Src == Limb(IF inplace THEN out ELSE a, i)

\* Slip: the carry out of the first limb is forgotten.
StoreLosingCarry(pair) ==
    /\ out' = SetLimb(out, i, pair[1])
    /\ carry' = IF i = 0 THEN 0 ELSE pair[2]
    /\ i' = i + 1
    /\ UNCHANGED call

Store(pair) ==
    /\ out' = SetLimb(out, i, pair[1])
    /\ carry' = pair[2]
    /\ i' = i + 1
    /\ UNCHANGED call

CarryingAdd ==
    /\ op = "carrying_add" /\ i < N
    /\ Store(carrying_add(Src, Limb(b, i), carry))

ConditionalAdd ==
    /\ op = "conditional_add" /\ i < N
    /\ Store(carrying_add(Src, Select(0, Limb(b, i), choice), carry))

OverflowingAddLimb ==
    /\ op = "overflowing_add_limb" /\ i < N
    /\ Store(overflowing_add(Src, carry))

MacByLimb ==
    /\ op = "mac_by_limb" /\ i < N
    /\ Store(carrying_mul_add(Limb(b, i), mul, Src, carry))

CarryingNeg ==
    /\ op = "carrying_neg" /\ i < N
    /\ LET r == (WordMAX - Src) + carry IN Store(<<Lo(r), Hi(r)>>)

BorrowingSub ==
    /\ op = "borrowing_sub" /\ i < N
    /\ Store(borrowing_sub(Src, Limb(b, i), carry))

ConditionalBorrowingSub ==
    /\ op = "conditional_borrowing_sub" /\ i < N
    /\ Store(borrowing_sub(Src, Masked(Limb(b, i), choice), carry))

\* Slip: rhs is not cleared after the first limb.
BorrowingSubLimbRepeated ==
    /\ op = "borrowing_sub_limb" /\ i < N
    /\ Store(borrowing_sub(Src, b, carry))

\* rhs is cleared after the first limb.
BorrowingSubLimb ==
    /\ op = "borrowing_sub_limb" /\ i < N
    /\ Store(borrowing_sub(Src, IF i = 0 THEN b ELSE 0, carry))

\* The loop has ended and the routine has returned.
Returned == i = N /\ UNCHANGED vars

Next == \/ CarryingAdd \/ ConditionalAdd \/ OverflowingAddLimb \/ MacByLimb
        \/ CarryingNeg \/ BorrowingSub \/ ConditionalBorrowingSub
        \/ BorrowingSubLimb \/ Returned

Spec == Init /\ [][Next]_vars

----------------------------------------------------------------------------
(***************************************************************************)
(* What the caller receives, and what Limbs says it is.                    *)
(***************************************************************************)
Result == CASE op = "carrying_neg"              -> <<out, lsb_to_choice(carry)>>
            [] op = "conditional_borrowing_sub" -> <<out, lsb_to_choice(carry)>>
            [] OTHER                            -> <<out, carry>>

Promise ==
    CASE op = "carrying_add"         -> UintCarryingAdd(a, b, cin)
      [] op = "conditional_add"      -> UintConditionalAdd(a, b, cin, choice)
      [] op = "overflowing_add_limb" -> UintOverflowingAddLimb(a, cin)
      [] op = "mac_by_limb"          -> UintMacByLimb(a, b, mul, cin)
      [] op = "carrying_neg"         -> UintCarryingNeg(a)
      [] op = "borrowing_sub"        -> UintBorrowingSub(a, b, cin)
      [] op = "borrowing_sub_limb"   -> UintBorrowingSubLimb(a, b, cin)
      [] op = "conditional_borrowing_sub" ->
                                   UintConditionalBorrowingSub(a, b, choice)

\* The left operand, and what is added to or taken from it, in the low j limbs.
LeftLow(j) == IF op = "carrying_neg" THEN W[j] - 1 - (a % W[j]) ELSE a % W[j]
RightLow(j) ==
    CASE op = "mac_by_limb"        -> (b % W[j]) * mul
      [] op = "borrowing_sub_limb" -> IF j = 0 THEN 0 ELSE b
      [] OTHER                     -> Masked(b % W[j], choice)

\* After a first iteration an addition carries at most 2 (primitives.rs says
\* "0, 1, or 2"; 2 needs a carry-in above 1), a negation at most 1, and a
\* subtraction hands on a mask of all zeros or all ones.
CarryShape ==
    i > 0 => /\ op \in {"carrying_add", "conditional_add"} =>
                    carry <= 2 /\ (cin <= 1 => carry <= 1)
             /\ op \in {"overflowing_add_limb", "carrying_neg"} => carry <= 1
             /\ op \in SubOps => carry \in {0, WordMAX}

\* The variables have their types: every running carry fits in a limb and has
\* the range its callers rely on.
TypeOK ==
    /\ op \in AddOps \cup SubOps
    /\ inplace \in BOOLEAN /\ choice \in BOOLEAN
    /\ a \in Uint /\ b \in Uint /\ mul \in Word /\ cin \in Word
    /\ out \in Uint /\ carry \in Word /\ i \in 0..N
    /\ CarryShape

\* Whatever the routine, the limbs written so far and the running carry or
\* borrow are together the exact sum or difference of the limbs read so far
\* and the carry passed in: no carry is lost, doubled or put one limb off.
PrefixExact ==
    IF op \in AddOps
      THEN (out % W[i]) + carry * W[i] = LeftLow(i) + RightLow(i) + cin
      ELSE (out % W[i]) - BorrowBit(carry) * W[i]
             = LeftLow(i) - RightLow(i) - BorrowBit(cin)

\* An in-place routine has not yet disturbed a limb it still has to read, and
\* the others have written nothing above the loop index.
UnreadIntact ==
    out \div W[i] = IF inplace THEN a \div W[i] ELSE 0

\* A call that has gone through all its limbs returns exactly what Limbs
\* says of it on whole integers.
ResultCorrect == i = N => Result = Promise
============================================================================
