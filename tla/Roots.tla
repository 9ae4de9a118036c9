------------------------------- MODULE Roots -------------------------------
(***************************************************************************)
(* Roots by Newton's method, one step per iteration: square roots of Uint  *)
(* (src/src/uint/sqrt.rs) and BoxedUint (src/src/uint/boxed/sqrt.rs), in   *)
(* constant and in variable time, and roots of any degree                  *)
(* (src/src/uint/root.rs).  The result is the pair of the root and of what *)
(* the checked form finds, <<>> a panic.                                   *)
(*                                                                         *)
(* And inverses modulo a power of two, by Newton's method from the low end *)
(* (src/src/uint/invert_mod.rs, src/src/uint/boxed/invert_mod.rs).         *)
(***************************************************************************)
EXTENDS Bits, Sequences

CONSTANTS Values(_), Sizes, Exps,      \* of the roots,
          Inverted(_), InvertSizes,    \* of the inverses, and for these
          Widths                       \* <<U64::LIMBS, the target that is not halved again>>

VARIABLES
    call,   \* the routine, its argument self of n limbs and the degree exp
    x,      \* the approximation
    q,      \* the quotient, in BoxedUint::floor_sqrt the last nonzero x; of an
            \* inverse the lengths to come
    i,      \* the iterations of the loops in constant time; the limbs inverted
    pc, res

vars == <<call, x, q, i, pc, res>>

Vartime == {"sqrt_vartime", "boxed_sqrt_vartime", "root_vartime"}

Inversions == {"invert_mod2k", "invert_mod2k_vartime"}

InversionCalls ==
    UNION {[routine : Inversions, self : Inverted(n), n : {n},
            k : 0..(bits_precision(n) + 1), width : Widths] : n \in InvertSizes}

SquareRootCalls ==
    UNION {[routine : {"sqrt", "sqrt_vartime", "boxed_sqrt", "boxed_sqrt_vartime"},
            self : Values(n), n : {n}, exp : {2}] : n \in Sizes}

RootCalls ==
    UNION {[routine : {"root_vartime"}, self : Values(n), n : {n}, exp : Exps] : n \in Sizes}

Calls == InversionCalls \cup SquareRootCalls \cup RootCalls

Init == call \in Calls /\ x = 0 /\ q = 0 /\ i = 0 /\ pc = "call" /\ res = <<>>

\* Uint::floor_sqrt takes the root of one in the place of zero: to_nz_or_one.
self_nz == IF call.routine = "sqrt" /\ call.self = 0 THEN 1 ELSE call.self

rt_bits   == (bits(self_nz) + call.exp - 1) \div call.exp
LOG2_BITS == bits(bits_precision(call.n)) - 1

Return(r) == /\ pc' = "done"
             /\ res' = <<r, (r ^ call.exp) % W[call.n] = call.self>>
             /\ UNCHANGED <<call, x, q, i>>

ReturnZero ==
    /\ pc = "call" /\ call.routine \in Vartime /\ call.self = 0
    /\ Return(0)

\* In one limb: the primitive's isqrt.
isqrt(w) == CHOOSE r \in 0..w : r * r <= w /\ w < (r + 1) * (r + 1)

ReturnWord ==
    /\ pc = "call" /\ call.routine = "sqrt_vartime"
    /\ bits(call.self) \in 1..WordBits
    /\ Return(isqrt(call.self))

ReturnSelf ==
    /\ pc = "call" /\ call.routine = "root_vartime" /\ call.exp = 1 /\ call.self # 0
    /\ Return(call.self)

\* The first quotient of a root is shifted out of range.
ShiftPanics == /\ call.routine = "root_vartime" /\ call.exp > 1
               /\ rt_bits * (call.exp - 1) >= bits_precision(call.n)

Panics == pc' = "done" /\ res' = <<>> /\ UNCHANGED <<call, x, q, i>>

Panic ==
    /\ pc = "call" /\ call.self # 0 /\ ShiftPanics
    /\ Panics

\* The first approximation, a power of two above the root, and the quotient by it.
Start ==
    /\ pc = "call" /\ call.routine \notin Inversions
    /\ call.routine \in Vartime => call.self # 0
    /\ call.routine = "sqrt_vartime" => bits(call.self) > WordBits
    /\ call.routine = "root_vartime" => call.exp > 1
    /\ ~ShiftPanics
    /\ x' = 2 ^ rt_bits
    /\ q' = CASE call.routine = "boxed_sqrt"         -> 2 ^ rt_bits
              [] call.routine = "boxed_sqrt_vartime" -> 0
              [] OTHER                               -> shr(self_nz, rt_bits * (call.exp - 1))
    /\ i' = IF call.routine = "sqrt" THEN 1 ELSE 0
    /\ pc' = "loop"
    /\ UNCHANGED <<call, res>>

\* `a.wrapping_add(&b).shr1()`
mean(a, b) == ((a + b) % W[call.n]) \div 2

----------------------------------------------------------------------------
\* NonZero<Uint>::floor_sqrt: the approximation never grows.
Sqrt ==
    /\ pc = "loop" /\ call.routine = "sqrt"
    /\ x' = IF x < q THEN x ELSE mean(x, q)
    /\ i' = i + 1
    /\ IF i + 1 >= LOG2_BITS + 2
       THEN LET r == IF call.self = 0 THEN 0 ELSE x'
            IN  /\ pc' = "done" /\ q' = q
                /\ res' = <<r, (x' * x') % W[call.n] = self_nz>>
       ELSE q' = self_nz \div x' /\ UNCHANGED <<pc, res>>
    /\ UNCHANGED call

\* NonZero<Uint>::floor_sqrt_vartime
SqrtVartime ==
    /\ pc = "loop" /\ call.routine = "sqrt_vartime"
    /\ IF q >= x THEN Return(x)
       ELSE /\ x' = mean(x, q)
            /\ q' = call.self \div x'
            /\ UNCHANGED <<call, i, pc, res>>

\* BoxedUint::floor_sqrt: q is nz_x, what x is divided by if it is zero; the
\* loop may end one above the root, then nz_x is the root.
BoxedSqrt ==
    /\ pc = "loop" /\ call.routine = "boxed_sqrt"
    /\ IF i >= LOG2_BITS + 2 THEN Return(IF x > q THEN q ELSE x)
       ELSE /\ q' = IF x # 0 THEN x ELSE q
            /\ x' = IF x # 0 THEN mean(x, call.self \div q') ELSE mean(x, 0)
            /\ i' = i + 1
            /\ UNCHANGED <<call, pc, res>>

\* Slip: the loop goes on after an approximation that is not smaller, as long
\* as it is another one.
descended_or_other(a, b) == a # b

descended(a, b) == a > b

\* BoxedUint::floor_sqrt_vartime; the loop ends at zero, too, which the code
\* says does not happen.
BoxedSqrtVartime ==
    /\ pc = "loop" /\ call.routine = "boxed_sqrt_vartime"
    /\ LET quo  == mean(call.self \div x, x)
           root == IF descended(x, quo) THEN quo ELSE x
       IN  IF ~descended(x, quo) \/ root = 0 THEN Return(root)
           ELSE x' = root /\ UNCHANGED <<call, q, i, pc, res>>

\* NonZero<Uint>::floor_root_vartime; the power is wrapping_pow_vartime, and a
\* power of zero is no divisor.
RootVartime ==
    /\ pc = "loop" /\ call.routine = "root_vartime"
    /\ LET exp_m1 == call.exp - 1
           x2     == ((((x * exp_m1) % W[call.n]) + q) % W[call.n]) \div call.exp
           power  == (x2 ^ exp_m1) % W[call.n]
       IN  CASE x2 >= x               -> Return(x)
             [] x2 < x /\ power = 0   -> Panics
             [] x2 < x /\ power # 0   -> /\ x' = x2 /\ q' = call.self \div power
                                        /\ UNCHANGED <<call, i, pc, res>>

----------------------------------------------------------------------------
\* Odd::invert_mod2k_vartime, which finds k bits: all of them in constant time.
\* to_odd_or_one inverts one in the place of an even integer.
self_odd == IF call.self % 2 = 1 THEN call.self ELSE 1
k_bits   == IF call.routine = "invert_mod2k" THEN bits_precision(call.n) ELSE call.k
k_limbs  == to_limbs(k_bits)

\* U64::LIMBS
u64_limbs == call.width[1]

\* The length at which the doubling may need to be trimmed.
first_target(p) ==
    IF p % 2 = 1 THEN (p + 1) \div 2
    ELSE CHOOSE t \in 1..p : t % 2 = 1 /\ \E z \in 1..p : p = t * 2 ^ z

\* The lengths expand_invert_mod2k brings p limbs to, from those of a u64: by
\* itself up to a target that is large, then by doubling.
lengths ==
    LET doubled[p \in 1..call.n, k \in 1..call.n] ==
            IF k >= p THEN <<>>
            ELSE LET target == IF k < first_target(p) THEN first_target(p) ELSE p
                     k2     == IF 2 * k >= target THEN target ELSE 2 * k
                 IN  <<k2>> \o doubled[p, k2]
        expanded[p \in 1..call.n] ==
            LET target == first_target(p)
            IN  IF target > call.width[2] THEN expanded[target] \o doubled[p, target]
                                          ELSE doubled[p, u64_limbs]
    IN  expanded[k_limbs]

InvertNone ==
    /\ pc = "call" /\ call.routine = "invert_mod2k_vartime"
    /\ call.k = 0 \/ call.k > bits_precision(call.n)
    /\ pc' = "done" /\ res' = <<0, call.k = 0>>
    /\ UNCHANGED <<call, x, q, i>>

\* The inverse of the lowest u64, cut to the limbs that are asked for.
InvertWord ==
    /\ pc = "call" /\ call.routine \in Inversions
    /\ call.routine = "invert_mod2k_vartime" => call.k \in 1..bits_precision(call.n)
    /\ LET word == invert_odd(self_odd % W[u64_limbs], bits_precision(u64_limbs)) % W[call.n]
           cut  == k_limbs <= u64_limbs
       IN  /\ x' = IF cut THEN word % W[k_limbs] ELSE word
           /\ i' = IF cut THEN k_limbs ELSE u64_limbs
           /\ q' = IF cut THEN <<>> ELSE lengths
    /\ pc' = "loop"
    /\ UNCHANGED <<call, res>>

\* expand_invert_mod2k_step: 2 * u - u * u * a over the leading limbs of the buffer.
InvertStep ==
    /\ pc = "loop" /\ call.routine \in Inversions /\ q # <<>>
    /\ LET len == Head(q)
           u2  == (Slice(x, 0, i) * Slice(x, 0, i)) % W[len]
           tmp == (u2 * self_odd) % W[len]
       IN  /\ x' = SetSlice(x, 0, len, (shl(Slice(x, 0, len), len, 1) - tmp) % W[len])
           /\ i' = len
    /\ q' = Tail(q)
    /\ UNCHANGED <<call, pc, res>>

\* The bits of the highest limb above k are cleared; in constant time all are.
InvertReturn ==
    /\ pc = "loop" /\ call.routine \in Inversions /\ q = <<>>
    /\ LET top == k_bits % WordBits
           inv == IF top = 0 THEN x
                  ELSE SetLimb(x, k_limbs - 1, Limb(x, k_limbs - 1) % 2 ^ top)
       IN  res' = IF call.routine = "invert_mod2k_vartime"
                  THEN <<inv, call.self % 2 = 1>>
                  ELSE <<inv % 2 ^ call.k,
                         call.k <= bits_precision(call.n) /\ (call.k = 0 \/ call.self % 2 = 1)>>
    /\ pc' = "done"
    /\ UNCHANGED <<call, x, q, i>>

Next == \/ InvertNone \/ InvertWord \/ InvertStep \/ InvertReturn
        \/ ReturnZero \/ ReturnWord \/ ReturnSelf \/ Panic \/ Start
        \/ Sqrt \/ SqrtVartime \/ BoxedSqrt \/ BoxedSqrtVartime \/ RootVartime
----------------------------------------------------------------------------
\* A root of as many degrees as the integer has bits, and of one close to MAX,
\* is one; the Newton step from there wraps.
DegreeFits == call.exp < bits_precision(call.n) \/ call.self + call.exp <= W[call.n]

\* No approximation is below the root, so that no Newton step overflows, and
\* the approximation and the powers the routines expect not to be zero are not.
NeverBelow ==
    pc = "loop" /\ call.routine \notin Inversions =>
    /\ self_nz < (x + 1) ^ call.exp
    /\ call.self # 0 => x # 0 /\ x ^ (call.exp - 1) < W[call.n]
    /\ LET last == IF call.routine \in {"boxed_sqrt", "boxed_sqrt_vartime"}
                   THEN IF x = 0 THEN 0 ELSE call.self \div x
                   ELSE q
       IN  DegreeFits => x * (call.exp - 1) + last < W[call.n]

\* The limbs done are the inverse modulo their weight and those above are zero,
\* as the next step relies on; no step more than doubles them or adds none.
InverseTracks ==
    pc = "loop" /\ call.routine \in Inversions =>
    /\ (x * self_odd) % W[i] = 1 /\ x < W[i]
    /\ q # <<>> => i < Head(q) /\ Head(q) \div 2 <= i

\* Each step of a loop in variable time is strictly closer to the root, so the
\* loop ends; Uint's loop in constant time may stay but never leaves the root.
Descends ==
    pc = "loop" /\ pc' = "loop" =>
    /\ call.routine \in Vartime => x' < x
    /\ call.routine = "sqrt" => x' <= x

\* root.rs:8 and :36 "Computes `floor(self^(1/exp))`", of every integer and degree.
RootIsReturned ==
    pc = "done" /\ call.routine = "root_vartime" =>
    /\ res # <<>>
    /\ res[1] ^ call.exp <= call.self /\ call.self < (res[1] + 1) ^ call.exp

\* A root that is returned is the root rounded down, and it is told whether it is
\* exact.  The code panics instead, against RootIsReturned, for nothing but the
\* shift and a degree that does not fit.
\* The inverse modulo 2^k, and none if there is none or k is too large.
ResultCorrect ==
    pc = "done" =>
    IF call.routine \in Inversions
    THEN /\ res[2] = (call.k <= bits_precision(call.n) /\ (call.k = 0 \/ call.self % 2 = 1))
         /\ res[2] => /\ res[1] < 2 ^ call.k
                      /\ (res[1] * call.self) % 2 ^ call.k = 1 % 2 ^ call.k
    ELSE IF res = <<>> THEN ShiftPanics \/ ~DegreeFits
    ELSE /\ res[1] ^ call.exp <= call.self
         /\ call.self < (res[1] + 1) ^ call.exp
         /\ res[2] = (res[1] ^ call.exp = call.self)
============================================================================
