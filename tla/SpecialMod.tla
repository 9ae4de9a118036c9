----------------------------- MODULE SpecialMod -----------------------------
(***************************************************************************)
(* Arithmetic modulo the special moduli MAX + 1 - c, c a limb:             *)
(* add_mod_special, sub_mod_special, neg_mod_special, mul_mod_special of   *)
(* Uint (src/src/uint/*_mod.rs) and of BoxedUint (src/src/uint/boxed/),    *)
(* which compute the same values.                                          *)
(***************************************************************************)
EXTENDS Limbs

CONSTANTS
    Regs,  \* the integers the caller holds
    Cs     \* the values of c considered

VARIABLES
    c,    \* the limb that makes the modulus special
    reg,  \* the integers, reduced modulo MAX + 1 - c
    call  \* history: the last call, as in ResidueRing

vars == <<c, reg, call>>

\* The modulus, which the program never builds.
p == R - c

\* `carry.wrapping_sub(1) & c`: c if there was no carry, nothing if it was 1.
UnlessCarried(carry) == Masked(c, wrapping_sub(carry, 1) = WordMAX)

\* c is passed as the carry in; it is taken back unless the sum overflowed.
AddModSpecial(a, b) ==
    LET s == UintCarryingAdd(a, b, c)
    IN  UintWrappingSub(s[1], UnlessCarried(s[2]))

SubModSpecial(a, b) ==
    LET s == UintBorrowingSub(a, b, 0)
    IN  UintWrappingSub(s[1], Masked(c, s[2] # 0))

NegModSpecial(a) == SubModSpecial(0, a)

(***************************************************************************)
(* Algorithm 14.47 of the Handbook of Applied Cryptography.  A single limb *)
(* is reduced by mul_rem instead.  `carry + 1` is a limb: it wraps (the    *)
(* Uint version panics there when overflow checks are compiled in).        *)
(***************************************************************************)
\* Slip: the second correction is left out.
MulModSpecialOnce(a, b) ==
    LET lo  == (a * b) % R
        hi  == (a * b) \div R
        mac == UintMacByLimb(lo, hi, c, 0)
    IN  UintWrappingAdd(mac[1], (mac[2] * c) % R)

MulModSpecial(a, b) ==
    IF N = 1
      THEN (a * b) % wrapping_sub(0, c)
      ELSE LET lo  == (a * b) % R
               hi  == (a * b) \div R
               mac == UintMacByLimb(lo, hi, c, 0)
               fix == UintCarryingAdd(mac[1], wrapping_add(mac[2], 1) * c, 0)
           IN  UintWrappingSub(fix[1], UnlessCarried(fix[2]))

Init ==
    /\ c \in Cs
    /\ reg \in [Regs -> 0..(p - 1)]
    /\ call = <<"none", 0, 0, 0>>

Assign(op, d, s, v) ==
    /\ reg' = [reg EXCEPT ![d] = v]
    /\ call' = <<op, d, s, 0>>
    /\ UNCHANGED c

Add(d, s) == Assign("add", d, s, AddModSpecial(reg[d], reg[s]))
Sub(d, s) == Assign("sub", d, s, SubModSpecial(reg[d], reg[s]))
Neg(d, s) == Assign("neg", d, s, NegModSpecial(reg[s]))
Mul(d, s) == Assign("mul", d, s, MulModSpecial(reg[d], reg[s]))

Next == \E d \in Regs, s \in Regs :
            Add(d, s) \/ Sub(d, s) \/ Neg(d, s) \/ Mul(d, s)

Spec == Init /\ [][Next]_vars
----------------------------------------------------------------------------
\* The documented assumptions suffice: `self + rhs < 2p` for the addition
\* (where the sum with c may carry 2), `self - rhs in [-p, p)` for the
\* subtraction; neither operand has to be reduced.
AddSubSpecialAssumption ==
    \A r \in Regs, b \in Uint :
        LET a == (reg[r] + b) % R
        IN  /\ a + b < 2 * p => AddModSpecial(a, b) = (a + b) % p
            /\ (a - b >= -p /\ a - b < p) =>
                   SubModSpecial(a, b) = (a - b) % p

\* mul_mod_special documents "`p = MAX+1-c` where `c` is small enough to fit
\* in a single Limb" and no other restriction: the product of any integer,
\* reduced or not, with a reduced one is reduced by the two corrections.
MulSpecialCorrect ==
    \A r \in Regs, b \in Uint :
        MulModSpecial(reg[r], b) = (reg[r] * b) % p
=============================================================================
