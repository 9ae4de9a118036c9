-------------------------------- MODULE Redc --------------------------------
(***************************************************************************)
(* montgomery_reduction (src/src/modular/reduction.rs): the double-width   *)
(* operand is split in two N-limb halves, lower and upper, that the inner  *)
(* loop walks across while it adds u * modulus at limb i.  The limb that   *)
(* each row clears is not written back, and the carry out of the top of a  *)
(* row waits in meta_carry for the next limb of upper.                     *)
(***************************************************************************)
EXTENDS ModOps

VARIABLES
    t,             \* history: the operand passed, a wide integer
    m, k,          \* the odd modulus and mod_neg_inv
    lower, upper,  \* the halves
    meta_carry,    \* the carry out of the row before (a limb)
    i, j,          \* the row and the limb
    u, carry,      \* the row's multiple of the modulus and running carry
    pc,            \* "row", "lower", "upper", "top", "correct" or "done"
    q              \* history: the sum of the multiples of m of finished rows

vars == <<t, m, k, lower, upper, meta_carry, i, j, u, carry, pc, q>>
params == <<t, m, k>>

Init ==
    /\ t \in 0..(W[2 * N] - 1)
    /\ m \in Uint /\ m % 2 = 1
    /\ k \in Word /\ IsModNegInv(k, m)
    /\ lower = t % R /\ upper = t \div R
    /\ meta_carry = 0 /\ i = 0 /\ j = 0 /\ u = 0 /\ carry = 0 /\ q = 0
    /\ pc = "row"

\* The inner loops leave the lower half when i + j reaches N.
LoopFor(jj) == IF jj < N - i THEN "lower" ELSE IF jj < N THEN "upper" ELSE "top"

StartRow ==
    /\ pc = "row"
    /\ u' = wrapping_mul(Limb(lower, i), k)
    /\ carry' = carrying_mul_add(u', Limb(m, 0), Limb(lower, i), 0)[2]
    /\ j' = 1
    /\ pc' = LoopFor(1)
    /\ UNCHANGED <<params, lower, upper, meta_carry, i, q>>

LowerLimb ==
    /\ pc = "lower"
    /\ LET p == carrying_mul_add(u, Limb(m, j), Limb(lower, i + j), carry)
       IN  /\ lower' = SetLimb(lower, i + j, p[1])
           /\ carry' = p[2]
    /\ j' = j + 1
    /\ pc' = LoopFor(j + 1)
    /\ UNCHANGED <<params, upper, meta_carry, i, u, q>>

UpperLimb ==
    /\ pc = "upper"
    /\ LET p == carrying_mul_add(u, Limb(m, j), Limb(upper, i + j - N), carry)
       IN  /\ upper' = SetLimb(upper, i + j - N, p[1])
           /\ carry' = p[2]
    /\ j' = j + 1
    /\ pc' = LoopFor(j + 1)
    /\ UNCHANGED <<params, lower, meta_carry, i, u, q>>

\* Slip: the meta-carry is taken from the row's own carry.
TopMisplacingMeta ==
    /\ pc = "top"
    /\ LET s == carrying_add(Limb(upper, i), carry, 0)
       IN  /\ upper' = SetLimb(upper, i, s[1])
           /\ meta_carry' = s[2]
    /\ q' = q + u * W[i]
    /\ i' = i + 1
    /\ pc' = IF i + 1 = N THEN "correct" ELSE "row"
    /\ UNCHANGED <<params, lower, j, u, carry>>

Top ==
    /\ pc = "top"
    /\ LET s == carrying_add(Limb(upper, i), carry, meta_carry)
       IN  /\ upper' = SetLimb(upper, i, s[1])
           /\ meta_carry' = s[2]
    /\ q' = q + u * W[i]
    /\ i' = i + 1
    /\ pc' = IF i + 1 = N THEN "correct" ELSE "row"
    /\ UNCHANGED <<params, lower, j, u, carry>>

\* montgomery_reduction returns the upper half, reduced once.
Correct ==
    /\ pc = "correct"
    /\ upper' = TrySubWithCarry(upper, meta_carry, m)[1]
    /\ pc' = "done"
    /\ UNCHANGED <<params, lower, meta_carry, i, j, u, carry, q>>

Returned == pc = "done" /\ UNCHANGED vars

Next == StartRow \/ LowerLimb \/ UpperLimb \/ Top \/ Correct \/ Returned

Spec == Init /\ [][Next]_vars
----------------------------------------------------------------------------
\* The variables have their types: the meta-carry, which the code keeps in a
\* limb, is one bit whatever the operand.
TypeOK ==
    /\ t \in 0..(W[2 * N] - 1)
    /\ m \in Uint /\ m % 2 = 1
    /\ k \in Word /\ IsModNegInv(k, m)
    /\ lower \in Uint /\ upper \in Uint /\ q \in Uint
    /\ meta_carry \in {0, 1} /\ u \in Word /\ carry \in Word
    /\ i \in 0..N /\ j \in 0..N
    /\ pc \in {"row", "lower", "upper", "top", "correct", "done"}

\* The limbs still alive before row i: those of lower from i up, and upper.
Alive == (lower - (lower % W[i])) + upper * R + meta_carry * W[N + i]

\* Before each row the live limbs and the meta-carry are exactly the operand
\* plus q times the modulus: the limbs that were not written back were zero,
\* and no carry was lost where the loop crosses from lower to upper.
RowsExact ==
    pc \in {"row", "correct"} => Alive = t + q * m

\* In the middle of a row the same holds once the part of u*m that was added
\* is counted: limb i itself is dead, limbs i+1 .. i+j-1 are new.
RowPrefixExact ==
    pc \in {"lower", "upper", "top"} =>
        (lower - (lower % W[i + 1])) + upper * R + carry * W[i + j]
            + meta_carry * W[N + i]
          = t + q * m + u * (m % W[j]) * W[i]

\* The result is t/R modulo m, reduced whenever t < m*R (every product of a
\* reduced and an arbitrary factor).
ResultReduced ==
    pc = "done" => /\ (upper * R) % m = t % m
                   /\ t < m * R => upper < m
=============================================================================
