------------------------------- MODULE BinGcd -------------------------------
(***************************************************************************)
(* The binary gcd (src/src/modular/bingcd/gcd.rs) and the Jacobi symbol    *)
(* that falls out of it (src/src/{uint,int}/mod_symbol.rs).  The classic   *)
(* routines take one step at a time; the optimized ones run a batch of     *)
(* steps on a summary of both integers and apply its matrix to them.       *)
(***************************************************************************)
EXTENDS BinGcdOps

CONSTANTS Odds, Others   \* the odd arguments and the (signed) other ones

VARIABLES
    routine, lhs, rhs,   \* the call: lhs is odd, rhs may be negative
    a, b,                \* as in the code: b is the odd one in the classic
    iterations,          \* routines, a in the optimized ones
    jacobi_neg,
    pc,                  \* "enter", "loop" or "done"
    res                  \* the gcd and, of a classic routine, the symbol

vars == <<routine, lhs, rhs, a, b, iterations, jacobi_neg, pc, res>>

Classic   == {"classic_bingcd", "classic_bingcd_vartime"}
Optimized == {"optimized_bingcd", "optimized_bingcd_vartime"}
vartime   == routine \in {"classic_bingcd_vartime", "optimized_bingcd_vartime"}

BITS == bits_precision(N)
MINIMAL_BINGCD_ITERATIONS == 2 * BITS - 1

\* A summary has two limbs, so its halves have the bits of one.
K     == WordBits
BATCH == K - 1

Init ==
    /\ routine \in Classic \cup Optimized
    /\ lhs \in Odds /\ rhs \in Others
    /\ a = 0 /\ b = 1 /\ iterations = 0 /\ jacobi_neg = FALSE
    /\ pc = "enter" /\ res = <<0, 0>>

EnterOptimized ==
    /\ pc = "enter" /\ routine \in Optimized
    /\ a' = lhs /\ b' = AbsOf(rhs)
    /\ iterations' = MINIMAL_BINGCD_ITERATIONS
    /\ pc' = "loop"
    /\ UNCHANGED <<routine, lhs, rhs, jacobi_neg, res>>

\* A negative argument changes the sign for a modulus that is 3 modulo 4.
SignFlips == rhs < 0 /\ lhs % 4 = 3

\* The argument has as many limbs as the modulus, or more and is reduced.
EnterClassic ==
    /\ pc = "enter" /\ routine \in Classic
    /\ a' \in {AbsOf(rhs), AbsOf(rhs) % lhs} /\ b' = lhs
    /\ jacobi_neg' = SignFlips
    /\ iterations' = MINIMAL_BINGCD_ITERATIONS
    /\ pc' = "loop"
    /\ UNCHANGED <<routine, lhs, rhs, res>>

\* It has fewer limbs: the two change places before the modulus is reduced.
EnterNarrow ==
    /\ pc = "enter" /\ routine = "classic_bingcd_vartime"
    /\ rhs # 0 /\ AbsOf(rhs) < W[N - 1]
    /\ LET x    == AbsOf(rhs)
           tail == trailing_zeros(x, N - 1)
           odd  == x \div 2 ^ tail
       IN  /\ a' = lhs % odd /\ b' = odd
           /\ jacobi_neg' = (SignFlips # ((tail % 2 = 1 /\ lhs % 8 \in {3, 5})
                                           # (odd % 4 = 3 /\ lhs % 4 = 3)))
    /\ iterations' = MINIMAL_BINGCD_ITERATIONS
    /\ pc' = "loop"
    /\ UNCHANGED <<routine, lhs, rhs, res>>

Step ==
    /\ pc = "loop" /\ routine \in Classic
    /\ IF vartime THEN a # 0 ELSE iterations > 0
    /\ LET r == bingcd_step(a, b)
       IN  /\ a' = r.a /\ b' = r.b
           /\ jacobi_neg' = (jacobi_neg # r.jacobi_neg)
    /\ iterations' = IF vartime THEN iterations ELSE iterations - 1
    /\ UNCHANGED <<routine, lhs, rhs, pc, res>>

\* The symbol is 0 unless the gcd is one.
ReturnClassic ==
    /\ pc = "loop" /\ routine \in Classic
    /\ IF vartime THEN a = 0 ELSE iterations = 0
    /\ pc' = "done"
    /\ res' = <<b, IF b # 1 THEN 0 ELSE IF jacobi_neg THEN -1 ELSE 1>>
    /\ UNCHANGED <<routine, lhs, rhs, a, b, iterations, jacobi_neg>>

summary_bits == MaxOf(2 * K, MaxOf(bits(a), bits(b)))
compact_a    == compact(a, summary_bits, K)
compact_b    == compact(b, summary_bits, K)

\* A batch of steps on the summaries; the signs of the results are dropped.
Batch ==
    /\ pc = "loop" /\ routine \in Optimized
    /\ IF vartime THEN b # 0 /\ summary_bits > 2 * WordBits ELSE iterations > 0
    /\ LET batch == IF vartime THEN BATCH ELSE MinOf(iterations, BATCH)
           m == partial_binxgcd(compact_a, compact_b, batch, FALSE, 1).matrix
           v == extended_apply_to(m, a, b)
       IN  /\ a' = dropped_abs(v[1]) /\ b' = dropped_abs(v[2])
           /\ iterations' = IF vartime THEN iterations ELSE iterations - batch
    /\ UNCHANGED <<routine, lhs, rhs, jacobi_neg, pc, res>>

\* What fits a summary is finished in it, step by step.
Steps(x, y) ==
    LET s[i \in 0..(4 * WordBits)] ==
            IF i = 0 THEN [a |-> y, b |-> x]
            ELSE LET z == s[i - 1] IN IF z.a = 0 THEN z ELSE bingcd_step(z.a, z.b)
    IN  s[4 * WordBits]

ReturnSmall ==
    /\ pc = "loop" /\ routine = "optimized_bingcd_vartime"
    /\ b # 0 /\ summary_bits <= 2 * WordBits
    /\ a' = Steps(compact_a, compact_b).b /\ b' = 0
    /\ pc' = "done" /\ res' = <<a', 0>>
    /\ UNCHANGED <<routine, lhs, rhs, iterations, jacobi_neg>>

ReturnOptimized ==
    /\ pc = "loop" /\ routine \in Optimized
    /\ IF vartime THEN b = 0 ELSE iterations = 0
    /\ pc' = "done" /\ res' = <<a, 0>>
    /\ UNCHANGED <<routine, lhs, rhs, a, b, iterations, jacobi_neg>>

Next == EnterOptimized \/ EnterClassic \/ EnterNarrow \/ Step \/ ReturnClassic
          \/ Batch \/ ReturnSmall \/ ReturnOptimized
----------------------------------------------------------------------------
GCD[x \in Nat, y \in Nat] == IF y = 0 THEN x ELSE GCD[y, x % y]

\* The Legendre symbol by squares, and the Jacobi symbol as its product over the
\* prime factors of n.
Legendre(x, p) ==
    IF x % p = 0 THEN 0
    ELSE IF \E y \in 1..(p - 1) : (y * y - x) % p = 0 THEN 1 ELSE -1
SmallFactors(m) == {q \in 2..(2 ^ ((BITS + 1) \div 2)) : q < m /\ m % q = 0}
LeastFactor(m) ==
    IF SmallFactors(m) = {} THEN m
    ELSE CHOOSE q \in SmallFactors(m) : \A r \in SmallFactors(m) : q <= r
Jacobi(x, n) ==
    LET j[m \in Nat] == IF m = 1 THEN 1
                        ELSE Legendre(x, LeastFactor(m)) * j[m \div LeastFactor(m)]
    IN  j[n]

InBatches == pc = "loop" /\ routine \in Optimized

\* The integer that must be odd is odd.  A batch's matrix fits a limb, applying
\* it fits the extra limb, and the division by 2^k is exact, although the steps
\* compared summaries in the place of the integers.
AssertionsHold ==
    /\ pc = "loop" => (IF routine \in Optimized THEN a ELSE b) % 2 = 1
    /\ pc = "loop" => a \in Uint /\ b \in Uint
    /\ InBatches /\ (vartime => b # 0 /\ summary_bits > 2 * WordBits) =>
         LET m == partial_binxgcd(compact_a, compact_b, BATCH, FALSE, 1).matrix
             u == m.m00 * a - m.m01 * b
             v == m.m11 * b - m.m10 * a
         IN  /\ u \in -(ExtR \div 2)..(ExtR \div 2 - 1) /\ u % 2 ^ m.k = 0
             /\ v \in -(ExtR \div 2)..(ExtR \div 2 - 1) /\ v % 2 ^ m.k = 0
             /\ AbsOf(u) \div 2 ^ m.k < R /\ AbsOf(v) \div 2 ^ m.k < R

\* Every step and every batch keeps the gcd, also a batch whose summaries
\* compare otherwise than the integers do.
GcdPreserved == pc = "loop" => GCD[a, b] = GCD[lhs, AbsOf(rhs)]

\* The sign collected so far is what separates the symbol of the arguments from
\* that of the integers the loop has reached.
JacobiExact ==
    pc = "loop" /\ routine \in Classic /\ GCD[a, b] = 1 =>
        Jacobi(rhs, lhs) = (IF jacobi_neg THEN -1 ELSE 1) * Jacobi(a, b)

\* The gcd and the symbol are those of the arguments: the fixed numbers of
\* iterations are enough, and the symbol is right for arguments of either sign
\* with fewer or more limbs than the modulus.
ResultCorrect ==
    pc = "done" =>
        /\ res[1] = GCD[lhs, AbsOf(rhs)]
        /\ routine \in Classic => res[2] = Jacobi(rhs, lhs)
=============================================================================
