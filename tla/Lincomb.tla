------------------------------ MODULE Lincomb ------------------------------
(***************************************************************************)
(* Linear combinations of Montgomery forms (src/src/modular/lincomb.rs):   *)
(* Longa's interleaved sum of products, accumulated in N limbs u, a limb   *)
(* hi above them and a limb hi_carry above that, and the windows of at     *)
(* most max_accum pairs that keep the sum below modulus * R.               *)
(*                                                                         *)
(* One step is the addition of one row a_i[j] * b_i, the reduction row     *)
(* that drops a limb, or the correction that ends a window.                *)
(***************************************************************************)
EXTENDS ModOps, Sequences

CONSTANTS
    BITS,        \* Word::BITS
    Moduli,      \* the odd moduli considered
    Products(_)  \* the sequences of pairs considered for a modulus, none empty
                 \* (an empty slice is refused by the callers)

VARIABLES
    m, k,          \* the modulus and mod_neg_inv
    products,      \* the pairs
    first, count,  \* the window: count pairs from position first
    u, hi, hi_carry,
    j, i,          \* the row, and the pair within the window
    ret,           \* the sum of the windows so far
    pc,            \* "pair", "reduce", "correct" or "done"
    q              \* history: the sum of the multiples of m in this window

params == <<m, k, products>>
vars   == <<m, k, products, first, count, u, hi, hi_carry, j, i, ret, pc, q>>

\* leading_zeros(modulus), limited to Word::BITS - 1 by the parameters.
mod_leading_zeros(n) ==
    LET lz == CHOOSE z \in 0..(N * BITS) : /\ n * PowerOfTwo(z) < R
                                           /\ 2 * (n * PowerOfTwo(z)) >= R
    IN  IF lz < BITS - 1 THEN lz ELSE BITS - 1

\* Slip: one doubling too many.
max_accum_twice(n) == PowerOfTwo(mod_leading_zeros(n) + 1)

max_accum(n) == PowerOfTwo(mod_leading_zeros(n))

\* The size of the window that starts at position f.
WindowFrom(f, prods, n) ==
    LET remain == Len(prods) + 1 - f
    IN  IF remain > max_accum(n) THEN max_accum(n) ELSE remain

Init ==
    /\ m \in Moduli
    /\ k \in Word /\ IsModNegInv(k, m)
    /\ products \in Products(m)
    /\ first = 1 /\ count = WindowFrom(1, products, m)
    /\ u = 0 /\ hi = 0 /\ hi_carry = 0
    /\ j = 0 /\ i = 0
    /\ ret = 0 /\ q = 0
    /\ pc = "pair"

\* The i-th pair of the window: limb j of a times b is added to u, its carry
\* to hi, and the carry of that to hi_carry.
Pair ==
    /\ pc = "pair"
    /\ LET p   == products[first + i]
           mac == UintMacByLimb(u, p[2], Limb(p[1], j), 0)
           h   == carrying_add(hi, mac[2], 0)
       IN  /\ u' = mac[1]
           /\ hi' = h[1]
           /\ hi_carry' = wrapping_add(hi_carry, h[2])
    /\ i' = i + 1
    /\ pc' = IF i + 1 = count THEN "reduce" ELSE "pair"
    /\ UNCHANGED <<params, first, count, j, ret, q>>

\* The row ends: the multiple of the modulus that clears limb 0 is added, limb
\* 0 dropped, and the sum of hi and the carry becomes the top limb.  The next
\* row begins with hi_carry in the place of hi.
Reduce ==
    /\ pc = "reduce"
    /\ LET c   == wrapping_mul(Limb(u, 0), k)
           sum == UintMacByLimb(u, m, c, 0)
           top == carrying_add(hi, sum[2], 0)
           hc  == wrapping_add(hi_carry, top[2])
       IN  /\ u' = (sum[1] \div B) + top[1] * W[N - 1]
           /\ IF j + 1 = N
                THEN hi' = hi /\ hi_carry' = hc /\ pc' = "correct"
                ELSE hi' = hc /\ hi_carry' = 0 /\ pc' = "pair"
           /\ q' = q + c * W[j]
    /\ j' = j + 1 /\ i' = 0
    /\ UNCHANGED <<params, first, count, ret>>

\* The window's sum is reduced once, and added to those before it; the next
\* window starts from a cleared accumulator.  A single window is returned as it
\* is.
Correct ==
    /\ pc = "correct"
    /\ LET buf == TrySubWithCarry(u, hi_carry, m)[1]
       IN  ret' = IF count = Len(products) THEN buf ELSE AddMod(ret, buf, m)
    /\ u' = 0 /\ hi' = 0 /\ hi_carry' = 0
    /\ j' = 0 /\ i' = 0 /\ q' = 0
    /\ first' = first + count
    /\ count' = WindowFrom(first', products, m)
    /\ pc' = IF count' = 0 THEN "done" ELSE "pair"
    /\ UNCHANGED params

Returned == pc = "done" /\ UNCHANGED vars

Next == Pair \/ Reduce \/ Correct \/ Returned

Spec == Init /\ [][Next]_vars
----------------------------------------------------------------------------
\* The variables have their types.
TypeOK ==
    /\ first \in 1..(Len(products) + 1) /\ count \in 0..max_accum(m)
    /\ u \in Uint /\ hi \in Word /\ hi_carry \in Word
    /\ j \in 0..N /\ i \in 0..count
    /\ ret \in Uint /\ q \in Nat
    /\ pc \in {"pair", "reduce", "correct", "done"}

\* The sum of the first n values of a function, and of those from one to
\* another.
SumOfFirst(n, f) ==
    LET s[e \in 0..n] == IF e = 0 THEN 0 ELSE s[e - 1] + f[e] IN s[n]

SumOver(from, to, f) == SumOfFirst(to, f) - SumOfFirst(from - 1, f)

\* What the pairs contribute: the low j limbs of a, limb j of a, or a, times b.
LowPart == [n \in 1..Len(products) |-> (products[n][1] % W[j]) * products[n][2]]
RowPart == [n \in 1..Len(products) |-> Limb(products[n][1], j) * products[n][2]]
Whole   == [n \in 1..Len(products) |-> products[n][1] * products[n][2]]

\* Between any two additions, the three-part accumulator moved up by j limbs
\* is exactly the products by the low j limbs of every a of the window, plus
\* row j of the pairs already added, plus a multiple of the modulus: neither
\* hi nor hi_carry ever loses a carry, however many pairs share a row.
WindowExact ==
    pc # "done" =>
        LET acc == IF pc = "correct" THEN u + hi_carry * R
                   ELSE u + hi * R + hi_carry * R * B
        IN  acc * W[j] = SumOver(first, first + count - 1, LowPart)
                           + W[j] * SumOver(first, first + i - 1, RowPart)
                           + q * m

\* max_accum pairs never reach modulus * R, so that one conditional subtraction
\* reduces each window's sum; the result is the reduced sum of all products.
LincombCorrect ==
    /\ pc = "done" => (ret * R) % m = SumOver(1, Len(products), Whole) % m
    /\ ret < m
=============================================================================
