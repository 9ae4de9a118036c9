---------------------------- MODULE MontyProduct ----------------------------
(***************************************************************************)
(* What a Montgomery multiplication promises (the comment on               *)
(* montgomery_multiply_inner in src/src/modular/mul.rs):                   *)
(* "x*y*R^-1 mod modulus + a*modulus".                                     *)
(*                                                                         *)
(* The product x*y is cleared modulo R by adding a multiple q < R of the   *)
(* modulus, and divided by R.  The result is one step of this abstract     *)
(* specification; MontyRows takes it row by row, Fios limb by limb.        *)
(***************************************************************************)
EXTENDS Limbs

VARIABLES
    x, y,  \* the factors: any N-limb integers, reduced or not
    m,     \* the odd modulus
    prod   \* NotYet, or the unreduced product

args == <<x, y, m>>

NotYet == -1

\* out is (t + q*m)/R for some q below R.
IsRedc(t, out) == \E q \in 0..(R - 1) : out * R = t + q * m

ProductInit == /\ x \in Uint /\ y \in Uint
               /\ m \in Uint /\ m % 2 = 1
               /\ prod = NotYet

Multiply == /\ prod = NotYet
            /\ prod' \in 0..(2 * R)
            /\ IsRedc(x * y, prod')
            /\ UNCHANGED args

ProductSpec == ProductInit /\ [][Multiply]_<<x, y, m, prod>>
=============================================================================
