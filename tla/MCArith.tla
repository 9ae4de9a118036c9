------------------------------ MODULE MCArith ------------------------------
(* Arith for TLC: the integers of n limbs that each family is given, all of *)
(* them where they are few, else those whose limbs are zero or all ones and *)
(* some about halves and fractions of W[n].                                 *)
EXTENDS Arith, FiniteSets

All(n) == 0..(W[n] - 1)

Corners(n) == {v \in All(n) : \A k \in 0..(n - 1) : Limb(v, k) \in {0, B - 1}}
Between(n) == {1, 2, ((2 * W[n]) \div 5) + 1, W[n] \div 2, (W[n] \div 2) - 1}

MCSchoolValues(n) == Corners(n) \cup Between(n)
MCKaratsubaValues(n) ==
    {0, 1, W[n] - 1, W[n - 1] * (B - 1), W[n] \div 2, (W[n] \div 5) + 1,
     W[(n + 1) \div 2] - 1, ((W[n] \div 7) * 3) + 1}
MCFewValues(n) == IF n < 3 THEN All(n) ELSE Corners(n) \cup Between(n)
MCAllValues(n) == IF n < 6 THEN All(n) ELSE Corners(n)

MCInvertValues(n) ==
    IF n < 3 THEN All(n)
    ELSE {0, 1, W[n] - 1} \cup {(j * ((W[n] \div 13) + 1)) % W[n] : j \in 1..16}

\* The first without a target in reach that is not halved again; of the others the
\* first limbs are one, two and three at once.
MCInvertWidths == {<<1, 2>>, <<2, 2>>, <<3, 3>>}

\* Limbs of the low dividend, the dividend and the divisor.
MCShapes == {<<0, 1, 1>>, <<0, 3, 1>>, <<0, 1, 2>>, <<0, 2, 2>>, <<0, 3, 2>>,
             <<0, 2, 3>>, <<0, 3, 3>>, <<0, 4, 3>>, <<1, 2, 1>>, <<2, 2, 2>>, <<1, 3, 2>>,
             <<1, 3, 3>>}
============================================================================
