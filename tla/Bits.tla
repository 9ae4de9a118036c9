-------------------------------- MODULE Bits --------------------------------
(***************************************************************************)
(* Bit lengths, leading and trailing zeros and shifts of integers          *)
(* (src/src/uint/bits.rs, src/src/uint/ref_type/{bits,shl,shr}.rs,         *)
(* src/src/limb/{bits,shl,shr}.rs).                                        *)
(***************************************************************************)
EXTENDS Limbs

CONSTANTS
    WordBits,   \* Word::BITS
    BitWeight   \* BitWeight[k] is the weight 2^k of bit k, up to double width

bits_precision(n) == n * WordBits

ASSUME WordBitsAssumption == WordBits \in Nat \ {0}
ASSUME BitWeightAssumption ==
    /\ BitWeight \in [0..bits_precision(2 * N) -> Nat \ {0}]
    /\ BitWeight[0] = 1
    /\ \A k \in 0..(bits_precision(2 * N) - 1) : BitWeight[k + 1] = 2 * BitWeight[k]
    /\ BitWeight[WordBits] = B

\* The table that every configuration gives BitWeight as its value.
BitWeights == [k \in 0..bits_precision(2 * N) |-> 2 ^ k]

\* The position above the highest bit of x that is set.
bits(x) == CHOOSE k \in 0..bits_precision(2 * N) :
               x < BitWeight[k] /\ (k = 0 \/ BitWeight[k - 1] <= x)

leading_zeros(x, n) == bits_precision(n) - bits(x)

\* The whole precision for zero.
trailing_zeros(x, n) ==
    IF x = 0 THEN bits_precision(n)
             ELSE CHOOSE k \in 0..bits_precision(n) :
                      x % BitWeight[k + 1] # 0 /\ x % BitWeight[k] = 0

\* Slip: rounded down.
to_limbs_floor(k) == k \div WordBits

\* bitlen::to_limbs
to_limbs(k) == (k + WordBits - 1) \div WordBits

\* Shifting n limbs to the left, and what leaves them at the top.
shl(x, n, s)     == (x * BitWeight[s]) % W[n]
shl_out(x, n, s) == (x * BitWeight[s]) \div W[n]

shr(x, s) == x \div BitWeight[s]

\* u32_invert_odd, u64_invert_odd: the inverse modulo 2^k of an odd v.  3v with
\* one bit changed is right in five bits, y is the error, and each step doubles
\* the bits that are right: three steps for 32 of them, four for 64.
invert_odd(v, k) ==
    LET x0 == 3 * v + IF ((3 * v) \div 2) % 2 = 1 THEN -2 ELSE 2
        m  == BitWeight[k]
        steps == CHOOSE r \in 0..k : 5 * PowerOfTwo(r) >= k
                                   /\ (r = 0 \/ 5 * PowerOfTwo(r - 1) < k)
        s[r \in 0..steps] ==
            IF r = 0 THEN [x |-> x0 % m, y |-> (1 - x0 * v) % m]
            ELSE [x |-> (s[r - 1].x * (s[r - 1].y + 1)) % m,
                  y |-> (s[r - 1].y * s[r - 1].y) % m]
    IN  s[steps].x

\* The n limbs of x from limb i up, and x with v stored in them.
Slice(x, i, n)       == (x \div W[i]) % W[n]
SetSlice(x, i, n, v) == x + (v - Slice(x, i, n)) * W[i]

\* Slip: limb xn - i of y is taken for one that fits.
mul_overflow_late(x, xn, y, carry) ==
    carry \/ \E i \in 0..(xn - 1) : Limb(x, i) # 0 /\ y \div W[xn - i + 1] # 0

\* check_mul_overflow: a carry, or limbs i of x and j of y, i + j >= xn, that
\* are both nonzero.
check_mul_overflow(x, xn, y, carry) ==
    carry \/ \E i \in 0..(xn - 1) : Limb(x, i) # 0 /\ y \div W[xn - i] # 0

\* What the methods make of a wrapped value and its overflow; <<>> is none, for
\* the operators a panic.
Answered(routine, r, n) ==
    CASE routine = "wrapping"                -> <<r[1]>>
      [] routine \in {"checked", "operator"} -> IF r[2] THEN <<>> ELSE <<r[1]>>
      [] routine = "saturating"              -> <<IF r[2] THEN W[n] - 1 ELSE r[1]>>
============================================================================
