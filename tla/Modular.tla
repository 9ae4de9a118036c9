------------------------------ MODULE Modular ------------------------------
(***************************************************************************)
(* Registers of integers kept reduced modulo p by the modular operations   *)
(* of Uint and BoxedUint (src/src/uint/{add_mod,sub_mod,neg_mod}.rs,       *)
(* src/src/uint/boxed/) and by halving (src/src/modular/div_by_2.rs).      *)
(* When the modulus has the special form MAX + 1 - c the caller may also   *)
(* use the routines of SpecialMod, which are given c and never see the     *)
(* modulus, between the general ones.                                      *)
(*                                                                         *)
(* Each call is given what the calls before it produced, as in a caller's  *)
(* program; the type (fixed or boxed) is chosen once.                      *)
(***************************************************************************)
EXTENDS ModOps

CONSTANTS
    Regs,  \* the integers the caller holds
    Cs     \* the limbs c considered of a modulus MAX + 1 - c

ASSUME CsAssumption == Cs \subseteq Word \ {0}

VARIABLES
    p,      \* the modulus, any nonzero integer
    boxed,  \* BoxedUint rather than Uint?
    reg,    \* the integers
    call,   \* history: the last call, as in ResidueRing
    c       \* 0 when the modulus is not used as a special one

vars == <<p, boxed, reg, call>>

Init ==
    /\ p \in Uint \ {0}
    /\ boxed \in BOOLEAN
    /\ reg \in [Regs -> 0..(p - 1)]
    /\ call = <<"none", 0, 0, 0>>

Assign(op, d, s, v) ==
    /\ reg' = [reg EXCEPT ![d] = v]
    /\ call' = <<op, d, s, 0>>
    /\ UNCHANGED <<p, boxed>>

Add(d, s) ==
    Assign("add", d, s, IF boxed THEN BoxedAddMod(reg[d], reg[s], p)
                                 ELSE AddMod(reg[d], reg[s], p))

Double(d, s) ==
    Assign("double", d, s, IF boxed THEN BoxedDoubleMod(reg[s], p)
                                    ELSE DoubleMod(reg[s], p))

Sub(d, s) ==
    Assign("sub", d, s, IF boxed THEN BoxedSubMod(reg[d], reg[s], p)
                                 ELSE SubMod(reg[d], reg[s], p))

Neg(d, s) == Assign("neg", d, s, NegMod(reg[s], p))

\* Halving needs an Odd modulus.
Halve(d, s) == p % 2 = 1 /\ Assign("half", d, s, DivBy2(reg[s], p))

Next == \E d \in Regs, s \in Regs :
            Add(d, s) \/ Double(d, s) \/ Sub(d, s) \/ Neg(d, s) \/ Halve(d, s)

\* The general calls alone; ModularSpec adds those for a special modulus.
Spec == Init /\ [][Next]_vars

Special == INSTANCE SpecialMod

ModularInit ==
    /\ Init
    /\ c \in {0} \cup Cs
    /\ c # 0 => p = R - c

ModularNext ==
    \/ Next /\ UNCHANGED c
    \/ c # 0 /\ Special!Next /\ UNCHANGED <<p, boxed>>

ModularSpec == ModularInit /\ [][ModularNext]_<<vars, c>>
----------------------------------------------------------------------------
\* The variables have their types; the integers stay reduced.
TypeOK ==
    /\ p \in Uint \ {0}
    /\ boxed \in BOOLEAN
    /\ reg \in [Regs -> 0..(p - 1)]

\* Every call is the ring operation: the carry out of the top limb and the
\* borrow of the correction never cancel wrongly, for every modulus up to the
\* full width (where sums overflow) and for both types.
Ring == INSTANCE ResidueRing
            WITH m <- p, Numbers <- {}, Counts <- {}
ImplementsRing == Ring!RingSpec

\* The correction after an addition needs no more than its documented
\* assumption, "self + rhs as unbounded integer is < 2p": the operands
\* themselves may be unreduced, up to the whole width.
AddModAssumption ==
    \A r \in Regs, b \in Uint :
        LET a == (reg[r] + b) % R
        IN  a + b < 2 * p => /\ AddMod(a, b, p) = (a + b) % p
                             /\ SubAssignModWithCarry((a + b) % R,
                                                      (a + b) \div R, p)
                                  = (a + b) % p

\* And a subtraction no more than "self - rhs as unbounded signed integer is
\* in [-p, p)".
SubModAssumption ==
    \A r \in Regs, b \in Uint :
        LET a == (reg[r] + b) % R
        IN  (a - b >= -p /\ a - b < p) =>
                /\ SubMod(a, b, p) = (a - b) % p
                /\ BoxedSubMod(a, b, p) = (a - b) % p

\* Each special routine needs no more than its documented assumption: the sum
\* below 2p (where the sum with c may carry 2), the difference in [-p, p), and
\* nothing at all of one factor of a product, for any limb c of a modulus of
\* two limbs.
SpecialAssumptions ==
    c # 0 => Special!AddSubSpecialAssumption /\ Special!MulSpecialCorrect
============================================================================
