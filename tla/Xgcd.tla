-------------------------------- MODULE Xgcd --------------------------------
(***************************************************************************)
(* The extended gcd: src/src/modular/bingcd/xgcd.rs, div_mod_2k.rs and the *)
(* routines of src/src/{uint,int}/gcd.rs around it.                        *)
(*                                                                         *)
(* A call is brought to two odd integers u and v; the steps are recorded   *)
(* in a matrix; the powers of two and the preparation are then undone.     *)
(***************************************************************************)
EXTENDS BinGcdOps

CONSTANTS Lefts, Rights,  \* the arguments considered
          SignedCalls     \* whether Int's routine is called: BOOLEAN or {FALSE}

VARIABLES
    routine,     \* "classic_binxgcd" or "optimized_binxgcd"
    signed,      \* whether the integers are of type Int
    lhs, rhs,    \* the call
    a, b,        \* the integers the steps work on
    matrix,      \* of the steps so far
    i,           \* iterations done
    pc,          \* "enter", "loop" or "done"
    res          \* [gcd, x, y, lhs_on_gcd, rhs_on_gcd]

vars == <<routine, signed, lhs, rhs, a, b, matrix, i, pc, res>>
args == <<routine, signed, lhs, rhs>>

NoResult == [gcd |-> 0, x |-> 0, y |-> 0, lhs_on_gcd |-> 0, rhs_on_gcd |-> 0]

BITS == bits_precision(N)
MIN_BINXGCD_ITERATIONS == 2 * BITS - 1

\* SUMMARY_BITS: one bit less than a limb.
K == WordBits - 1

ArgumentOf(x) == IF signed THEN x \in -(R \div 2)..(R \div 2 - 1) ELSE x \in Uint

Init ==
    /\ routine \in {"classic_binxgcd", "optimized_binxgcd"}
    /\ signed \in SignedCalls
    /\ lhs \in Lefts /\ rhs \in Rights
    /\ ArgumentOf(lhs) /\ ArgumentOf(rhs)
    /\ a = 0 /\ b = 0 /\ matrix = UNIT /\ i = 0
    /\ pc = "enter" /\ res = NoResult
----------------------------------------------------------------------------
(***************************************************************************)
(* A zero is replaced by one, the common powers of two are taken out, and  *)
(* the arguments change places if that leaves the first one even.          *)
(***************************************************************************)
abs_lhs == IF lhs = 0 THEN 1 ELSE AbsOf(lhs)
abs_rhs == IF rhs = 0 THEN 1 ELSE AbsOf(rhs)
tz_lhs  == trailing_zeros(abs_lhs, N)
tz_rhs  == trailing_zeros(abs_rhs, N)
shift   == MinOf(tz_lhs, tz_rhs)
swap    == tz_rhs < tz_lhs
odd_lhs == shr(Select(abs_lhs, abs_rhs, swap), shift)
nz_rhs  == shr(Select(abs_rhs, abs_lhs, swap), shift)

\* binxgcd_nz: an even right-hand side is replaced by the difference.
rhs_is_even == nz_rhs % 2 = 0
rhs_gt_lhs  == nz_rhs > odd_lhs
odd_rhs     == Select(nz_rhs, AbsOf(odd_lhs - nz_rhs), rhs_is_even)

\* classic_binxgcd: the steps of partial_binxgcd are taken one at a time, on
\* a and b (and rows) that have changed places.
EnterClassic ==
    /\ pc = "enter" /\ routine = "classic_binxgcd"
    /\ a' = odd_rhs /\ b' = odd_lhs /\ matrix' = swap_rows(UNIT)
    /\ pc' = "loop"
    /\ UNCHANGED <<args, i, res>>

EnterOptimized ==
    /\ pc = "enter" /\ routine = "optimized_binxgcd"
    /\ a' = odd_lhs /\ b' = odd_rhs
    /\ pc' = "loop"
    /\ UNCHANGED <<args, matrix, i, res>>

Step ==
    /\ pc = "loop" /\ routine = "classic_binxgcd"
    /\ i < MIN_BINXGCD_ITERATIONS
    /\ LET s == binxgcd_step([a |-> a, b |-> b, matrix |-> matrix], TRUE, N)
       IN  a' = s.a /\ b' = s.b /\ matrix' = s.matrix
    /\ i' = i + 1
    /\ UNCHANGED <<args, pc, res>>

Batches == (MIN_BINXGCD_ITERATIONS + K - 2) \div (K - 1)

\* Slip: the sign of the second integer is applied to the top row.
signed_rows_top(m, top, bottom) ==
    [m EXCEPT !.m00 = NegIf(@, top # bottom), !.m01 = NegIf(@, top # bottom)]

\* The rows of an integer matrix are negated with the integers they give.
signed_rows(m, top, bottom) ==
    [m EXCEPT !.m00 = NegIf(@, top),    !.m01 = NegIf(@, top),
              !.m10 = NegIf(@, bottom), !.m11 = NegIf(@, bottom)]

\* K - 1 steps on the summaries, stopping at zero when b is all in its own.
Batch ==
    /\ pc = "loop" /\ routine = "optimized_binxgcd"
    /\ i < Batches
    /\ LET n      == MaxOf(2 * K, MaxOf(bits(a), bits(b)))
           all_b  == bits(b) <= K - 1 \/ n = 2 * K
           update == partial_binxgcd(compact(a, n, K), compact(b, n, K),
                                     K - 1, all_b, 1).matrix
           v      == extended_apply_to(update, a, b)
       IN  /\ a' = dropped_abs(v[1]) /\ b' = dropped_abs(v[2])
           /\ matrix' = signed_rows(mul_int_matrix(update, matrix),
                                    v[1] < 0, v[2] < 0)
    /\ i' = i + 1
    /\ UNCHANGED <<args, pc, res>>
----------------------------------------------------------------------------
(***************************************************************************)
(* Limb::bounded_div2k_mod_q: the limb is halved k times, with half (the   *)
(* lowest limb of (q + 1) / 2) added where a one was shifted out; bit j of *)
(* the factor says whether it was.  Returns the factor.                    *)
(***************************************************************************)
halving_factor(limb, k, half) ==
    LET h[j \in 0..k] ==
            IF j = 0 THEN <<limb, 0>>
            ELSE LET x == h[j - 1]
                     odd == x[1] % 2 = 1
                 IN  <<wrapping_add(x[1] \div 2, Masked(half, odd)),
                       x[2] + Masked(2 ^ (j - 1), odd)>>
    IN  h[k][2]

\* Uint::bounded_div2k_mod_q: x / 2^k modulo the odd q, a limb less one bit
\* at a time; k_upper_bound alone decides the number of rounds.
bounded_div2k_mod_q(x, k, k_upper_bound, q) ==
    LET step   == WordBits - 1
        rounds == (k_upper_bound + step - 1) \div step
        half   == Lo(q \div 2 + 1)
        d[r \in 0..rounds] ==
            IF r = 0 THEN <<x, 0>>
            ELSE LET z == d[r - 1]
                     y == z[1]
                     e == z[2]
                     f == MinOf(k - e, MinOf(k_upper_bound - (r - 1) * step, step))
                     s == halving_factor(Lo(y), f, half)
                 IN  <<((q * s + y) \div 2 ^ f) % R, e + f>>
    IN  d[rounds][1]

\* DividedPatternXgcdOutput::divide
divide(m) ==
    IF m.k_upper_bound = 0 THEN m
    ELSE [m EXCEPT
            !.m00 = bounded_div2k_mod_q(@, m.k, m.k_upper_bound, m.m10),
            !.m01 = bounded_div2k_mod_q(@, m.k, m.k_upper_bound, m.m11)]

\* Slip: the signs are not exchanged where the difference was lhs - rhs.
restore_same_pattern(m) ==
    IF ~rhs_is_even THEN m
    ELSE IF rhs_gt_lhs
           THEN [m EXCEPT !.m00 = (@ + m.m01) % R, !.m10 = (@ + m.m11) % R]
    ELSE [m EXCEPT !.m00 = (m.m01 - @) % R, !.m10 = (m.m11 - @) % R]

\* The end of binxgcd_nz: the matrix for the even right-hand side.
restore(m) ==
    IF ~rhs_is_even THEN m
    ELSE IF rhs_gt_lhs
           THEN [m EXCEPT !.m00 = (@ + m.m01) % R, !.m10 = (@ + m.m11) % R]
    ELSE [m EXCEPT !.m00 = (m.m01 - @) % R, !.m10 = (m.m11 - @) % R,
                   !.pattern = ~@]

AsInt(v) == ((v + R \div 2) % R) - R \div 2

\* The smaller of two pairs, one from the top row and one from the difference
\* of the rows, as wrapping integers with the signs of the pattern.
bezout_coefficients(m) ==
    LET d0 == (m.m10 - m.m00) % R
        d1 == (m.m11 - m.m01) % R
        apply == d0 <= m.m00 /\ d1 <= m.m01
        x == Select(m.m00, d0, apply)
        y == Select(m.m01, d1, apply)
    IN  <<AsInt(IF apply # ~m.pattern THEN -x ELSE x),
          AsInt(IF apply # m.pattern THEN -y ELSE y)>>

SignOf(x) == IF x < 0 THEN -1 ELSE 1

\* What the callers make of the gcd g and the matrix m of odd_lhs and nz_rhs.
\* Of two zeros, Uint's routine has a quotient of one.
Output(g, m) ==
    LET c  == bezout_coefficients(m)
        x  == AsInt(SignOf(lhs) * (IF swap THEN c[2] ELSE c[1]))
        y  == AsInt(SignOf(rhs) * (IF swap THEN c[1] ELSE c[2]))
        ql == SignOf(lhs) * (IF swap THEN m.m10 ELSE m.m11)
        qr == SignOf(rhs) * (IF swap THEN m.m11 ELSE m.m10)
    IN  CASE rhs = 0 -> [gcd |-> AbsOf(lhs), x |-> SignOf(lhs), y |-> 0,
                         lhs_on_gcd |-> IF lhs = 0 /\ signed THEN 0
                                                             ELSE SignOf(lhs),
                         rhs_on_gcd |-> 0]
          [] lhs = 0 /\ rhs # 0 ->
                        [gcd |-> AbsOf(rhs), x |-> 0, y |-> SignOf(rhs),
                         lhs_on_gcd |-> 0, rhs_on_gcd |-> SignOf(rhs)]
          [] OTHER -> [gcd |-> (g * 2 ^ shift) % R, x |-> x, y |-> y,
                       lhs_on_gcd |-> ql, rhs_on_gcd |-> qr]

LoopEnded == pc = "loop" /\ i = (IF routine = "classic_binxgcd"
                                   THEN MIN_BINXGCD_ITERATIONS ELSE Batches)

\* The gcd and the matrix, of magnitudes, that the loop ends with.
ended == IF routine = "classic_binxgcd"
           THEN Turned([a |-> a, b |-> b, matrix |-> matrix])
           ELSE [a |-> a, b |-> b, matrix |-> to_pattern_matrix(matrix)]

Return ==
    /\ LoopEnded
    /\ pc' = "done"
    /\ res' = Output(ended.a, restore(divide(ended.matrix)))
    /\ UNCHANGED <<args, a, b, matrix, i>>

Next == EnterClassic \/ EnterOptimized \/ Step \/ Batch \/ Return
Spec == Init /\ [][Next]_vars
----------------------------------------------------------------------------
GCD[x \in Nat, y \in Nat] == IF y = 0 THEN x ELSE GCD[y, x % y]

\* What is returned is never out of its type: at the end the matrix's entries
\* fit an integer, and its bottom row, by which the top one is divided modulo
\* an odd number, is odd (the expectations of to_pattern_matrix and divide).
AssertionsHold ==
    /\ LoopEnded =>
         /\ \A v \in {ended.matrix.m00, ended.matrix.m01,
                     ended.matrix.m10, ended.matrix.m11} : v < R
         /\ ended.matrix.m10 % 2 = 1 /\ ended.matrix.m11 % 2 = 1
    /\ pc = "loop" => a \in Uint /\ b \in Uint

\* Each row of the matrix gives one of the two integers from the arguments, times
\* the power of two that is still owed, so nothing has overflowed; and the two
\* have the arguments' gcd.
RowsTrack ==
    pc = "loop" =>
        LET sign == IF matrix.pattern THEN 1 ELSE -1
            two  == 2 ^ matrix.k
        IN  /\ GCD[a, b] = GCD[odd_lhs, odd_rhs]
            /\ IF routine = "classic_binxgcd"
                 THEN /\ a * two = sign * (matrix.m00 * odd_lhs - matrix.m01 * odd_rhs)
                      /\ b * two = sign * (matrix.m11 * odd_rhs - matrix.m10 * odd_lhs)
                 ELSE /\ a * two = matrix.m00 * odd_lhs + matrix.m01 * odd_rhs
                      /\ b * two = matrix.m10 * odd_lhs + matrix.m11 * odd_rhs

\* "Given (self, rhs), computes (g, x, y) s.t. self * x + rhs * y = g."
BezoutIdentity == pc = "done" => lhs * res.x + rhs * res.y = res.gcd

\* The gcd and the quotients are right, of signed and unsigned arguments, zero
\* or not.  The coefficients are right and as small as they can be, at most
\* half the other quotient unless the arguments are equal in magnitude; of the
\* optimized routine this is said of coprime odd integers only.
ResultCorrect ==
    pc = "done" =>
        LET g == GCD[AbsOf(lhs), AbsOf(rhs)]
            small == \/ lhs = 0 \/ rhs = 0
                     \/ IF AbsOf(lhs) = AbsOf(rhs)
                          THEN AbsOf(res.x) <= 1 /\ AbsOf(res.y) <= 1
                          ELSE /\ 2 * AbsOf(res.x) <= AbsOf(res.rhs_on_gcd)
                               /\ 2 * AbsOf(res.y) <= AbsOf(res.lhs_on_gcd)
        IN  /\ res.gcd = g
            /\ g # 0 => res.lhs_on_gcd * g = lhs /\ res.rhs_on_gcd * g = rhs
            /\ routine = "classic_binxgcd" \/ GCD[odd_lhs, odd_rhs] = 1
                 => BezoutIdentity /\ small
=============================================================================
