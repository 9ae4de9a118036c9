------------------------------ MODULE Retrieve ------------------------------
(***************************************************************************)
(* montgomery_retrieve_inner (src/src/modular/reduction.rs): the product   *)
(* by one, in place.  No carry variable exists: the carry of limb j is     *)
(* parked in out[j - 1], where the next multiply-accumulate picks it up    *)
(* and leaves the finished limb, parking its own carry in out[j].          *)
(***************************************************************************)
EXTENDS Limbs

VARIABLES
    x, m, k,  \* the Montgomery form, the odd modulus and mod_neg_inv
    out,      \* the accumulator's limbs, with the parked carry among them
    i, j,     \* the row and the limb
    u,        \* the row's multiple of the modulus
    pc,       \* "row", "limb" or "done"
    acc, q    \* history: out and the sum of the multiples of m, between rows

params == <<x, m, k>>
vars   == <<x, m, k, out, i, j, u, pc, acc, q>>

(***************************************************************************)
(* montgomery_retrieve asserts x < m in debug builds; the inner routine is *)
(* public and takes any x.                                                 *)
(***************************************************************************)
Init ==
    /\ x \in Uint
    /\ m \in Uint /\ m % 2 = 1
    /\ k \in Word /\ IsModNegInv(k, m)
    /\ out = 0 /\ i = 0 /\ j = 0 /\ u = 0
    /\ pc = "row"
    /\ acc = 0 /\ q = 0

xi == Limb(x, i)

\* The bookkeeping at the end of a row.
EndOfRow(uu, newout) ==
    /\ acc' = newout
    /\ q' = q + uu * W[i]
    /\ i' = i + 1
    /\ pc' = IF i + 1 = N THEN "done" ELSE "row"

\* Slip: the limb of x is not added.
StartRowWithoutX ==
    /\ pc = "row"
    /\ u' = wrapping_mul(wrapping_add(Limb(out, 0), xi), k)
    /\ out' = SetLimb(out, 0,
                      carrying_mul_add(u', Limb(m, 0), 0, Limb(out, 0))[2])
    /\ j' = 1
    /\ IF N = 1 THEN EndOfRow(u', out')
                ELSE pc' = "limb" /\ UNCHANGED <<acc, q, i>>
    /\ UNCHANGED params

StartRow ==
    /\ pc = "row"
    /\ u' = wrapping_mul(wrapping_add(Limb(out, 0), xi), k)
    /\ out' = SetLimb(out, 0,
                      carrying_mul_add(u', Limb(m, 0), xi, Limb(out, 0))[2])
    /\ j' = 1
    /\ IF N = 1 THEN EndOfRow(u', out')
                ELSE pc' = "limb" /\ UNCHANGED <<acc, q, i>>
    /\ UNCHANGED params

NextLimb ==
    /\ pc = "limb"
    /\ LET p == carrying_mul_add(u, Limb(m, j), Limb(out, j), Limb(out, j - 1))
       IN  out' = SetLimb(SetLimb(out, j - 1, p[1]), j, p[2])
    /\ j' = j + 1
    /\ IF j + 1 = N THEN EndOfRow(u, out') ELSE UNCHANGED <<pc, acc, q, i>>
    /\ UNCHANGED <<params, u>>

Returned == pc = "done" /\ UNCHANGED vars

Next == StartRow \/ NextLimb \/ Returned

Spec == Init /\ [][Next]_vars
----------------------------------------------------------------------------
\* The variables have their types.
TypeOK ==
    /\ x \in Uint
    /\ m \in Uint /\ m % 2 = 1
    /\ k \in Word /\ IsModNegInv(k, m)
    /\ out \in Uint /\ u \in Word /\ i \in 0..N /\ j \in 0..N
    /\ pc \in {"row", "limb", "done"}
    /\ acc \in Uint /\ q \in Uint

\* In the middle of a row limb j - 1 is the parked carry: with the limbs below
\* it, it is one limb down the low j limbs of accumulator + x[i] + u*m, and
\* the limbs from j up are still those of the row before.
ParkedCarryExact ==
    pc = "limb" =>
        /\ B * (out % W[j]) = (acc % W[j]) + xi + u * (m % W[j])
        /\ out \div W[j] = acc \div W[j]

\* The result needs no correction: it is x/R, reduced, for every x that is not
\* a nonzero multiple of the modulus, in particular whenever x < m.
NeedsNoCorrection ==
    pc = "done" => /\ (out * R) % m = x % m
                   /\ (x % m # 0 \/ x = 0) => out < m
                   /\ out <= m
============================================================================
