----------------------------- MODULE MCMontyPow -----------------------------
(* MontyPow for TLC: chosen moduli, forms and exponents. *)
EXTENDS MontyPow

\* 77 and 125 have one leading zero of eight; 125 needs the second subtraction
\* of the almost Montgomery variant, for the exponents 26, 27 and 39.
SomeModuli == {1, 9, 77, 125}

\* Exponents that end or begin with zero windows, fill them, or change at a
\* window or limb boundary.
Exponents == {0, 1, 3, 4, 15, 16, 26, 27, 39, 64, 129, 208, 255}

SomeForms(n) == IF n = 125 THEN {0, 1, 3, 60, 74, 103, 109, 124}
                           ELSE {r \in 0..(n - 1) : n < 10 \/ r % 9 = 4}

\* Single bases and, for one modulus, pairs whose exponents differ in length.
Single(n) == {<<p>> : p \in SomeForms(n) \X Exponents}
Pairs     == {<<p, q>> : p, q \in {2, 5, 6} \X {0, 6, 16, 129, 255}}
SomeInputs(n) == Single(n) \cup IF n = 9 THEN Pairs ELSE {}
=============================================================================
