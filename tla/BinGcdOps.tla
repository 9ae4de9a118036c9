----------------------------- MODULE BinGcdOps -----------------------------
(***************************************************************************)
(* The binary gcd algorithm's step, the summaries it may run on and the    *)
(* matrices that record what it did:                                       *)
(* src/src/modular/bingcd/{gcd,compact,matrix,extension}.rs and            *)
(* partial_binxgcd of xgcd.rs.                                             *)
(***************************************************************************)
EXTENDS Bits

MinOf(x, y) == IF x < y THEN x ELSE y
MaxOf(x, y) == IF x < y THEN y ELSE x
AbsOf(x)    == IF x < 0 THEN -x ELSE x

\* Slip: the swap is not accounted for (reciprocity is forgotten).
bingcd_step_no_reciprocity(a, b) ==
    LET a_odd == a % 2 = 1
        diff  == a - Masked(b, a_odd)
        swap  == diff < 0
        b_new == Select(b, a, swap)
    IN  [a |-> AbsOf(diff) \div 2, b |-> b_new, a_odd |-> a_odd, swap |-> swap,
         jacobi_neg |-> b_new % 8 \in {2, 3, 4, 5}]

\* Slip: b is left as it is when a is the smaller one.
bingcd_step_no_swap(a, b) ==
    LET a_odd == a % 2 = 1
        diff  == a - Masked(b, a_odd)
    IN  [a |-> AbsOf(diff) \div 2, b |-> b, a_odd |-> a_odd, swap |-> diff < 0,
         jacobi_neg |-> b % 8 \in {2, 3, 4, 5}]

\* b is odd.  a becomes |a - b| / 2 or a / 2, b the smaller of the two.
\* jacobi_neg says whether the step changes the sign of the Jacobi symbol.
bingcd_step(a, b) ==
    LET a_odd == a % 2 = 1
        diff  == a - Masked(b, a_odd)
        swap  == diff < 0
        b_new == Select(b, a, swap)
    IN  [a |-> AbsOf(diff) \div 2, b |-> b_new, a_odd |-> a_odd, swap |-> swap,
         jacobi_neg |-> (swap /\ a % 4 = 3 /\ b % 4 = 3)
                          # (b_new % 8 \in {2, 3, 4, 5})]

\* Slip: the low half of the summary is one bit short.
compact_short(x, n, K) ==
    ((x \div 2 ^ (n - K)) % 2 ^ K) * 2 ^ K + (x % 2 ^ (K - 1))

\* The K bits of x below bit n on top of its lowest K bits.
compact(x, n, K) == ((x \div 2 ^ (n - K)) % 2 ^ K) * 2 ^ K + (x % 2 ^ K)
----------------------------------------------------------------------------
(***************************************************************************)
(* DividedPatternMatrix: four magnitudes whose signs alternate, plus where *)
(* the pattern says so on the diagonal, else off it, to be divided by 2^k. *)
(* k_upper_bound counts the steps.                                         *)
(***************************************************************************)
UNIT == [m00 |-> 1, m01 |-> 0, m10 |-> 0, m11 |-> 1, pattern |-> TRUE,
         k |-> 0, k_upper_bound |-> 0]

swap_rows(m) == [m EXCEPT !.m00 = m.m10, !.m10 = m.m00,
                          !.m01 = m.m11, !.m11 = m.m01, !.pattern = ~@]

\* Since the signs alternate the magnitudes are added.
subtract_bottom_row_from_top(m, n) ==
    [m EXCEPT !.m00 = (@ + m.m10) % W[n], !.m01 = (@ + m.m11) % W[n]]

conditional_double_bottom_row(m, double, n) ==
    IF double THEN [m EXCEPT !.m10 = (2 * @) % W[n], !.m11 = (2 * @) % W[n],
                             !.k = @ + 1, !.k_upper_bound = @ + 1]
              ELSE [m EXCEPT !.k_upper_bound = @ + 1]

\* s holds a, b and the matrix, of n limbs.
binxgcd_step(s, halt_at_zero, n) ==
    LET r       == bingcd_step(s.a, s.b)
        swapped == IF r.swap THEN swap_rows(s.matrix) ELSE s.matrix
        reduced == IF r.a_odd THEN subtract_bottom_row_from_top(swapped, n)
                              ELSE swapped
    IN  [a |-> r.a, b |-> r.b,
         matrix |-> conditional_double_bottom_row(
                        reduced, r.a # 0 \/ ~halt_at_zero, n)]

\* The steps work on a and b in the other order.
Turned(s) == [a |-> s.b, b |-> s.a, matrix |-> swap_rows(s.matrix)]

partial_binxgcd(a, b, iterations, halt_at_zero, n) ==
    LET s[i \in 0..iterations] ==
            IF i = 0 THEN Turned([a |-> a, b |-> b, matrix |-> UNIT])
                     ELSE binxgcd_step(s[i - 1], halt_at_zero, n)
    IN  Turned(s[iterations])
----------------------------------------------------------------------------
(* ExtendedInt: two's complement integers of one limb more than Uint.      *)

ExtR == W[N + 1]

Wrapped(v) == ((v + ExtR \div 2) % ExtR) - ExtR \div 2

NegIf(v, negate) == IF negate THEN Wrapped(-v) ELSE v

\* The magnitude is shifted.
div_2k(v, k) == IF v < 0 THEN -((-v) \div 2 ^ k) ELSE v \div 2 ^ k

dropped_abs(v) == AbsOf(v) % R

\* PatternMatrix::extended_apply_to
applied(m, a, b) ==
    <<NegIf(Wrapped(m.m00 * a - m.m01 * b), ~m.pattern),
      NegIf(Wrapped(m.m11 * b - m.m10 * a), ~m.pattern)>>

\* DividedPatternMatrix::extended_apply_to(_vartime)
extended_apply_to(m, a, b) ==
    LET v == applied(m, a, b) IN <<div_2k(v[1], m.k), div_2k(v[2], m.k)>>

\* The product of x and a matrix entry; the bit below the sign must hold it.
ext_mul(x, entry, negative) ==
    LET abs == (AbsOf(x) * entry) % (ExtR \div 2)
    IN  NegIf(abs, (x < 0) # negative)

mul_int_matrix(m, s) ==
    LET p == m.pattern
        top(x, y)    == Wrapped(ext_mul(x, m.m00, ~p) + ext_mul(y, m.m01, p))
        bottom(x, y) == Wrapped(ext_mul(x, m.m10, p) + ext_mul(y, m.m11, ~p))
    IN  [m00 |-> top(s.m00, s.m10), m01 |-> top(s.m01, s.m11),
         m10 |-> bottom(s.m00, s.m10), m11 |-> bottom(s.m01, s.m11),
         k |-> m.k + s.k, k_upper_bound |-> m.k_upper_bound + s.k_upper_bound]

\* The pattern is voted on, by the top row unless it is zero.
votes(s) ==
    \/ s.m00 > 0 \/ s.m01 < 0
    \/ s.m00 = 0 /\ s.m01 = 0 /\ (s.m10 < 0 \/ s.m11 > 0)

to_pattern_matrix(s) ==
    [m00 |-> AbsOf(s.m00), m01 |-> AbsOf(s.m01), m10 |-> AbsOf(s.m10),
     m11 |-> AbsOf(s.m11), pattern |-> votes(s),
     k |-> s.k, k_upper_bound |-> s.k_upper_bound]
============================================================================
