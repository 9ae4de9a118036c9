----------------------------- MODULE ResidueRing -----------------------------
(***************************************************************************)
(* What every modular type of the crate promises: registers that hold      *)
(* residues, and calls that are the operations of the ring of integers     *)
(* modulo m.  Modular, SpecialMod and MontyForm implement it with limbs.   *)
(***************************************************************************)
EXTENDS Integers

CONSTANTS
    Regs,     \* the registers: values the caller holds
    Numbers,  \* the integers the caller may bring in
    Counts    \* how often it may ask to square

VARIABLES
    m,    \* the modulus
    reg,  \* the residue in each register
    call  \* the last call: <<operation, destination, source, number>>

NoCall == <<"none", 0, 0, 0>>

Residues == 0..(m - 1)

Half(u) == CHOOSE w \in Residues : (w + w) % m = u

Apply(op, u, v) ==
    CASE op = "add"    -> (u + v) % m
      [] op = "sub"    -> (u - v) % m
      [] op = "mul"    -> (u * v) % m
      [] op = "double" -> (2 * v) % m
      [] op = "neg"    -> (-v) % m
      [] op = "square" -> (v * v) % m
      [] op = "half"   -> Half(v)
      [] op = "copy"   -> v
      [] op = "zero"   -> 0
      [] op = "one"    -> 1 % m

Ops == {"add", "sub", "mul", "double", "neg", "square", "half", "copy",
        "zero", "one"}

RingInit == /\ m \in Nat \ {0}
            /\ reg \in [Regs -> Residues]
            /\ call = NoCall

Perform(op, d, s) ==
    /\ call' = <<op, d, s, 0>>
    /\ op = "half" => m % 2 = 1
    /\ reg' = [reg EXCEPT ![d] = Apply(op, reg[d], reg[s])]
    /\ UNCHANGED m

\* An integer of any size is brought into a register.
Load(d, v) ==
    /\ call' = <<"load", d, 0, v>>
    /\ reg' = [reg EXCEPT ![d] = v % m]
    /\ UNCHANGED m

\* Squaring n times over.
RepeatedSquare(v, n) ==
    LET sq[j \in 0..n] == IF j = 0 THEN v ELSE (sq[j - 1] * sq[j - 1]) % m
    IN  sq[n]

Raise(d, s, n) ==
    /\ call' = <<"square_repeat", d, s, n>>
    /\ reg' = [reg EXCEPT ![d] = RepeatedSquare(reg[s], n)]
    /\ UNCHANGED m

RingNext == \E d \in Regs :
                \/ \E op \in Ops, s \in Regs : Perform(op, d, s)
                \/ \E v \in Numbers : Load(d, v)
                \/ \E s \in Regs, n \in Counts : Raise(d, s, n)

RingSpec == RingInit /\ [][RingNext]_<<m, reg, call>>
==============================================================================
