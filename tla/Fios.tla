-------------------------------- MODULE Fios --------------------------------
(***************************************************************************)
(* montgomery_multiply_inner (src/src/modular/mul.rs) limb by limb: finely *)
(* integrated operand scanning with wide words.                            *)
(*                                                                         *)
(* Within row i, limb j - 1 of out is overwritten with the limb just       *)
(* computed while limbs j and up still hold the accumulator of the row     *)
(* before; the running carry is a word and one bit, and the bit that       *)
(* leaves the top of a row is kept in meta_carry for the next.  All sums   *)
(* are sums of wide words, which wrap at B*B.                              *)
(***************************************************************************)
EXTENDS Limbs

VARIABLES
    x, y, m, k,  \* the factors, the odd modulus and mod_neg_inv
    out,         \* the accumulator's limbs
    meta_carry,  \* the carry out of the row before (a wide word)
    i, j,        \* the row and the limb
    u,           \* the row's multiple of the modulus
    carry,       \* the row's running carry (a wide word)
    pc,          \* "row", "limb", "top" or "done"
    acc, q       \* history: (meta_carry, out) and the sum of the multiples of
                 \* m, as they were when the row began

params == <<x, y, m, k>>
vars   == <<x, y, m, k, out, meta_carry, i, j, u, carry, pc, acc, q>>

wide(w) == w % (B * B)

\* a.overflowing_add(b) of wide words.
wide_overflowing_add(a, b) ==
    <<wide(a + b), IF a + b >= B * B THEN 1 ELSE 0>>

\* Slip: the sum is not shifted down.
CarryUnshifted(sum) == sum[2] * B + sum[1]

\* ((c as WideWord) << Word::BITS) | (a >> Word::BITS)
CarryOf(sum) == sum[2] * B + Hi(sum[1])

Init ==
    /\ x \in Uint /\ y \in Uint
    /\ m \in Uint /\ m % 2 = 1
    /\ k \in Word /\ IsModNegInv(k, m)
    /\ out = 0 /\ meta_carry = 0
    /\ i = 0 /\ j = 0 /\ u = 0 /\ carry = 0
    /\ pc = "row"
    /\ acc = 0 /\ q = 0

xi == Limb(x, i)

\* x[i]*y[j] + A[j], which the code's comment bounds by 2^128 - 2^64.
Axy(jj) == xi * Limb(y, jj) + Limb(out, jj)

StartRow ==
    /\ pc = "row"
    /\ LET axy == wide(Axy(0))
       IN  /\ u' = wrapping_mul(Lo(axy), k)
           /\ carry' = CarryOf(wide_overflowing_add(u' * Limb(m, 0), axy))
    /\ j' = 1
    /\ pc' = IF N = 1 THEN "top" ELSE "limb"
    /\ UNCHANGED <<params, out, meta_carry, i, acc, q>>

NextLimb ==
    /\ pc = "limb"
    /\ LET axy == wide(Axy(j))
           umc == wide(u * Limb(m, j) + carry)
           ab  == wide_overflowing_add(axy, umc)
       IN  /\ out' = SetLimb(out, j - 1, Lo(ab[1]))
           /\ carry' = CarryOf(ab)
    /\ j' = j + 1
    /\ pc' = IF j + 1 = N THEN "top" ELSE "limb"
    /\ UNCHANGED <<params, meta_carry, i, u, acc, q>>

Top ==
    /\ pc = "top"
    /\ LET c == wide(carry + meta_carry)
       IN  /\ out' = SetLimb(out, N - 1, Lo(c))
           /\ meta_carry' = Hi(c)
           /\ carry' = c
           /\ acc' = out' + Hi(c) * R
    /\ q' = q + u * W[i]
    /\ i' = i + 1
    /\ pc' = IF i + 1 = N THEN "done" ELSE "row"
    /\ UNCHANGED <<params, j, u>>

Returned == pc = "done" /\ UNCHANGED vars

Next == StartRow \/ NextLimb \/ Top \/ Returned

Spec == Init /\ [][Next]_vars
----------------------------------------------------------------------------
\* The variables have their types.
TypeOK ==
    /\ x \in Uint /\ y \in Uint
    /\ m \in Uint /\ m % 2 = 1
    /\ k \in Word /\ IsModNegInv(k, m)
    /\ out \in Uint /\ meta_carry \in WideWord /\ carry \in WideWord
    /\ i \in 0..N /\ j \in 0..N /\ u \in Word
    /\ pc \in {"row", "limb", "top", "done"}
    /\ acc \in 0..(2 * R - 1) /\ q \in Uint

\* No wide addition of the loop that is meant to fit overflows (the bounds in
\* the comments of mul.rs), and what leaves a row is one bit.
WideSumsFit ==
    /\ pc \in {"row", "limb"} => Axy(IF pc = "row" THEN 0 ELSE j) <= B * B - B
    /\ pc = "limb" => u * Limb(m, j) + carry < B * B
    /\ pc = "top"  => carry + meta_carry < B * B
    /\ pc \in {"limb", "top"} => carry <= 2 * B - 2
    /\ meta_carry <= 1

\* In the middle of a row the limbs written and the running carry are, one
\* limb down, exactly the low j limbs of accumulator + x[i]*y + u*m, and the
\* limbs not yet read are still those of the row before.
RowPrefixExact ==
    pc \in {"limb", "top"} =>
        /\ B * ((out % W[j - 1]) + carry * W[j - 1])
             = (acc % W[j]) + xi * (y % W[j]) + u * (m % W[j])
        /\ out \div W[j] = (acc % R) \div W[j]
        /\ meta_carry = acc \div R
============================================================================
