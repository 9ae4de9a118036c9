------------------------------ MODULE MontyPow ------------------------------
(***************************************************************************)
(* Windowed exponentiation in Montgomery form (src/src/modular/pow.rs):    *)
(* multi_exponentiate_montgomery_form_internal, constant or variable time, *)
(* and pow_montgomery_form_amm, whose intermediate values are left in      *)
(* almost Montgomery form.                                                 *)
(*                                                                         *)
(* One step is the squarings at the head of a window, or the product by    *)
(* the table entry of one base.                                            *)
(***************************************************************************)
EXTENDS ModOps, Sequences

CONSTANTS
    BITS,       \* Limb::BITS
    WINDOW,     \* the bits of a window
    RHS_LIMBS,  \* the limbs of an exponent
    Moduli,     \* the odd moduli considered
    Inputs(_)   \* for a modulus, the sequences of <<form, exponent>> considered

ASSUME WindowAssumption == /\ BITS \in Nat /\ WINDOW \in Nat \ {0}
                           /\ B = PowerOfTwo(BITS)
                           /\ BITS % WINDOW = 0
ASSUME ExponentAssumption == RHS_LIMBS \in 1..(2 * N)
ASSUME InputsAssumption ==
    /\ Moduli \subseteq {n \in Uint : n % 2 = 1}
    /\ \A n \in Moduli :
           Inputs(n) \subseteq Seq((0..(n - 1)) \X (0..(W[RHS_LIMBS] - 1)))
                                   \ {<<>>}

VARIABLES
    variant,     \* "ct", "vartime" or "amm"
    m,           \* params.modulus
    bases_and_exponents,  \* the bases, in Montgomery form, and their exponents
    bits,        \* exponent_bits as passed
    powers,      \* the table of each base
    z,           \* the accumulated power
    limb_num, window_num,  \* the window at hand
    i,           \* the base at hand
    pc           \* "start", "window", "multiply" or "done"

params == <<variant, m, bases_and_exponents, bits>>
vars   == <<variant, m, bases_and_exponents, bits, powers, z, limb_num,
            window_num, i, pc>>

K     == Len(bases_and_exponents)
Bases == 1..K
x(b)  == bases_and_exponents[b][1]
e(b)  == bases_and_exponents[b][2]

WINDOW_COUNT    == PowerOfTwo(WINDOW)
BITS_PER_WINDOW == BITS \div WINDOW

one == ParamOne(m)

\* Both routines cut exponent_bits down to the exponent's precision.
exponent_bits == IF bits > RHS_LIMBS * BITS THEN RHS_LIMBS * BITS ELSE bits

\* pow_init: where the highest window is, and the bits of it that count.
starting_limb        == (exponent_bits - 1) \div BITS
starting_bit_in_limb == (exponent_bits - 1) % BITS
starting_window      == starting_bit_in_limb \div WINDOW
starting_window_bits == (starting_bit_in_limb % WINDOW) + 1

AtStart == limb_num = starting_limb /\ window_num = starting_window

\* Slip: the bits above exponent_bits are left in.
idx_unmasked(b) ==
    (Limb(e(b), limb_num) \div PowerOfTwo(window_num * WINDOW)) % WINDOW_COUNT

\* (w >> (window_num * WINDOW)) & WINDOW_MASK, masked again in the first window.
idx(b) ==
    (Limb(e(b), limb_num) \div PowerOfTwo(window_num * WINDOW))
        % (IF AtStart THEN PowerOfTwo(starting_window_bits) ELSE WINDOW_COUNT)

(***************************************************************************)
(* The tables: compute_powers multiplies powers[n-1] by x and reduces; the *)
(* almost Montgomery variant keeps the running product unreduced.          *)
(***************************************************************************)
MontyMul(a, b) == IF variant = "amm" THEN almost_montgomery_mul(a, b, m)
                                     ELSE mul_montgomery_form(a, b, m)

compute_powers(base) ==
    LET p[n \in 0..(WINDOW_COUNT - 1)] ==
            IF n = 0 THEN one ELSE IF n = 1 THEN base
            ELSE MontyMul(p[n - 1], base)
    IN  p

Init ==
    /\ variant \in {"ct", "vartime", "amm"}
    /\ m \in Moduli
    /\ bases_and_exponents \in Inputs(m)
    /\ variant = "amm" => K = 1
    /\ bits \in 0..(RHS_LIMBS * BITS + 1)
    /\ powers = <<>> /\ z = 0
    /\ limb_num = 0 /\ window_num = 0 /\ i = 0
    /\ pc = "start"

\* No bits, no table: the answer is one.
ReturnOne ==
    /\ pc = "start" /\ exponent_bits = 0
    /\ z' = one
    /\ pc' = "done"
    /\ UNCHANGED <<params, powers, limb_num, window_num, i>>

Start ==
    /\ pc = "start" /\ exponent_bits > 0
    /\ powers' = [b \in Bases |-> compute_powers(x(b))]
    /\ z' = one
    /\ limb_num' = starting_limb /\ window_num' = starting_window
    /\ pc' = "window"
    /\ UNCHANGED <<params, i>>

\* The squarings of a window but the first: square_repeat_montgomery_form, or
\* square_amm_assign WINDOW times over.
Squared(v) ==
    IF variant = "amm" THEN AlmostSquares(v, WINDOW, m)[WINDOW]
    ELSE square_repeat_montgomery_form(v, WINDOW, m)

Window ==
    /\ pc = "window"
    /\ z' = IF AtStart THEN z ELSE Squared(z)
    /\ i' = 1
    /\ pc' = "multiply"
    /\ UNCHANGED <<params, powers, limb_num, window_num>>

\* After the last base, the next window; after the lowest one, the end, where
\* the almost Montgomery variant reduces.
NextWindow(newz) ==
    IF window_num > 0 \/ limb_num > 0
      THEN /\ IF window_num > 0
                THEN window_num' = window_num - 1 /\ UNCHANGED limb_num
                ELSE /\ window_num' = BITS_PER_WINDOW - 1
                     /\ limb_num' = limb_num - 1
           /\ z' = newz
           /\ pc' = "window"
      ELSE /\ z' = IF variant = "amm" THEN almost_montgomery_reduce(newz, m)
                                      ELSE newz
           /\ pc' = "done"
           /\ UNCHANGED <<limb_num, window_num>>

\* Slip: every product is by an entry of the first base's table.
MultipliedByFirst ==
    IF variant = "vartime" /\ idx(i) = 0 THEN z
    ELSE MontyMul(z, powers[1][idx(i)])

\* The variable-time variant skips an index of zero.
Multiplied ==
    IF variant = "vartime" /\ idx(i) = 0 THEN z
    ELSE MontyMul(z, powers[i][idx(i)])

Multiply ==
    /\ pc = "multiply"
    /\ i' = i + 1
    /\ IF i < K
         THEN /\ z' = Multiplied
              /\ UNCHANGED <<limb_num, window_num, pc>>
         ELSE NextWindow(Multiplied)
    /\ UNCHANGED <<params, powers>>

Returned == pc = "done" /\ UNCHANGED vars

Next == ReturnOne \/ Start \/ Window \/ Multiply \/ Returned

Spec == Init /\ [][Next]_vars
-----------------------------------------------------------------------------
\* The variables have their types.
TypeOK ==
    /\ variant \in {"ct", "vartime", "amm"} /\ m \in Moduli
    /\ bases_and_exponents \in Inputs(m)
    /\ pc = "start" \/ exponent_bits = 0 \/
           powers \in [Bases -> [0..(WINDOW_COUNT - 1) -> Uint]]
    /\ z \in Uint
    /\ limb_num \in 0..(RHS_LIMBS - 1)
    /\ window_num \in 0..(BITS_PER_WINDOW - 1)
    /\ i \in 0..(K + 1)
    /\ pc \in {"start", "window", "multiply", "done"}

\* The residue a form stands for: form * R^-1 modulo m.
Residue(form) == CHOOSE v \in 0..(m - 1) : (v * R) % m = form % m

\* The n-th power of v modulo m, and the product of what the bases stand for,
\* each raised to its own exponent.
PowerMod(v, n) ==
    LET f[j \in 0..n] == IF j = 0 THEN 1 % m ELSE (f[j - 1] * v) % m IN f[n]
ProductOfPowers(n) ==
    LET f[b \in 0..K] ==
            IF b = 0 THEN 1 % m
            ELSE (f[b - 1] * PowerMod(Residue(x(b)), n[b])) % m
    IN  f[K]

\* The part of an exponent the call was asked to look at, and of that the part
\* above bit lo.
Considered(b)  == e(b) % PowerOfTwo(exponent_bits)
Above(b, lo)   == Considered(b) \div PowerOfTwo(lo)
LowBit         == limb_num * BITS + window_num * WINDOW

\* Before and within each window z stands for the product of the bases raised
\* to the exponents' bits above the windows still to come, shifted up by the
\* squarings already made; a base whose turn is over has this window's bits in.
\* The indices of limbs and windows stay in their ranges.
PrefixPower == TypeOK /\
    (pc \in {"window", "multiply"} =>
        LET Done(b) ==
                IF pc = "multiply"
                  THEN IF b < i THEN Above(b, LowBit)
                       ELSE Above(b, LowBit + WINDOW) * WINDOW_COUNT
                  ELSE Above(b, LowBit + WINDOW)
        IN  z % m = (ProductOfPowers([b \in Bases |-> Done(b)]) * R) % m)

\* The power returned: exponent_bits of each exponent and no more, for any
\* split of those bits over limbs and windows.
ResultIsPower ==
    pc = "done" =>
        z % m = (ProductOfPowers([b \in Bases |-> Considered(b)]) * R) % m

\* The almost Montgomery variant may reduce with two subtractions because its
\* table's entries need one at most, and every product by an entry two.
AmmErrorsBounded ==
    (variant = "amm" /\ pc \in {"window", "multiply"}) =>
        /\ \A n \in 0..(WINDOW_COUNT - 1) : powers[1][n] \div m <= 1
        /\ pc = "window" => z \div m <= 2

\* What is returned is reduced, in constant time and in almost Montgomery form.
\* (Of the variable-time routine this is not claimed: after a zero window it
\* returns what square_repeat_montgomery_form leaves, see MontyForm.)
ResultReduced ==
    (pc = "done" /\ variant # "vartime") => z < m
=============================================================================
