------------------------------ MODULE SafeGcd ------------------------------
(***************************************************************************)
(* The Bernstein-Yang gcd and modular inverse (src/src/modular/safegcd.rs  *)
(* and its boxed form) and the routines of src/src/uint/{gcd,invert_mod}   *)
(* around them: arguments that are zero or even, moduli that are even.     *)
(*                                                                         *)
(* A batch of division steps is run on the lowest words of f and g; its    *)
(* matrix is then applied to f and g and, modulo the odd modulus, to d and *)
(* e.  The signed magnitudes of the code are integers here.  A word stands *)
(* for 64 bits.  Of two boxed integers each has its own precision; the     *)
(* loop is run in the larger one.                                          *)
(***************************************************************************)
EXTENDS BinGcdOps

CONSTANTS Sizes,                  \* the limbs of the two arguments,
          Lefts(_), Rights(_)     \* moduli (first arguments), second arguments

VARIABLES
    routine,           \* "gcd", "invert" or either of them in variable time
    adjuster,          \* what the inverse is multiplied with
    lhs, rhs,          \* the call: the modulus and the value to be inverted
    sizes,             \* their limbs
    f, g, d, e, delta, \* as in the code
    steps,             \* the division steps to be made
    pc,                \* "enter", "loop" or "done"
    res                \* <<gcd, lcm>> or <<inverse, is_some>>

vars == <<routine, adjuster, lhs, rhs, sizes, f, g, d, e, delta, steps, pc, res>>
args == <<routine, adjuster, lhs, rhs, sizes>>

inverting == routine \in {"invert", "invert_vartime"}
vartime   == routine \in {"gcd_vartime", "invert_vartime"}

n == MaxOf(sizes[1], sizes[2])

GCD_BATCH_SIZE == WordBits - 2

iterations(bits_p) == (45907 * bits_p + 30179) \div 19929

\* The adjuster is R^2 or 1; Montgomery moduli are odd and as long as the values.
\* So are even moduli (a debug assertion).  A negative value is an Int.
Init ==
    /\ routine \in {"gcd", "gcd_vartime", "invert", "invert_vartime"}
    /\ sizes \in Sizes
    /\ lhs \in Lefts(sizes[1]) /\ rhs \in Rights(sizes[2])
    /\ inverting => lhs # 0 /\ (lhs % 2 = 1 \/ sizes[1] = sizes[2])
    /\ routine = "invert_vartime" => lhs % 2 = 1
    /\ rhs < 0 => routine = "invert" /\ sizes[1] = sizes[2] /\ AbsOf(rhs) <= W[n] \div 2
    /\ adjuster \in IF inverting /\ lhs % 2 = 1 /\ sizes[1] = sizes[2] /\ rhs >= 0
                    THEN {1, (W[n] * W[n]) % lhs} ELSE {1}
    /\ f = 1 /\ g = 0 /\ d = 0 /\ e = 0 /\ delta = 1 /\ steps = 0
    /\ pc = "enter" /\ res = <<0, FALSE>>

\* The first argument, or one if it is zero, without its powers of two.
twos(x) == trailing_zeros(x, n)
odd_lhs == IF lhs = 0 THEN 1 ELSE shr(lhs, twos(lhs))

Enter ==
    /\ pc = "enter"
    /\ f' = odd_lhs /\ g' = AbsOf(rhs)
    /\ d' = 0 /\ e' = IF inverting THEN adjuster ELSE 0
    /\ steps' = iterations(bits_precision(n))
    /\ pc' = "loop"
    /\ UNCHANGED <<args, delta, res>>
----------------------------------------------------------------------------
\* `v as i64` for a word.
SignedWord(v) == ((v + HalfB) % B) - HalfB

lowest(x) == IF x < 0 THEN -(AbsOf(x) % HalfB) ELSE x % HalfB

\* One division step, whether in fixed or in variable time.
jump_step(s) ==
    LET g_odd == s.g % 2 = 1
        swap  == g_odd /\ s.delta > 0
        with(x, y) == IF ~g_odd THEN y ELSE IF s.delta > 0 THEN y - x ELSE y + x
    IN  [f |-> IF swap THEN s.g ELSE s.f,
         g |-> SignedWord(with(s.f, s.g)) \div 2,
         delta |-> IF swap THEN 2 - s.delta ELSE 2 + s.delta,
         t00 |-> 2 * (IF swap THEN s.t10 ELSE s.t00),
         t01 |-> 2 * (IF swap THEN s.t11 ELSE s.t01),
         t10 |-> with(s.t00, s.t10),
         t11 |-> with(s.t01, s.t11)]

jump(batch) ==
    LET s[i \in 0..batch] ==
            IF i = 0 THEN [f |-> lowest(f), g |-> lowest(g), delta |-> delta,
                           t00 |-> 1, t01 |-> 0, t10 |-> 0, t11 |-> 1]
                     ELSE jump_step(s[i - 1])
    IN  s[batch]

\* lincomb_int_reduce_shift
shifted(v, shift) == IF v < 0 THEN -((AbsOf(v) \div 2 ^ shift) % W[n])
                              ELSE (v \div 2 ^ shift) % W[n]

\* invert_mod_u64
word_inverse(x) == invert_odd(Lo(x), WordBits)

\* lincomb_int_reduce_shift_mod: a multiple of the modulus clears the low
\* bits; this returns the magnitude before the last subtraction, signed.
cleared(v, shift) ==
    LET mf == ((Lo(AbsOf(v)) * word_inverse(odd_lhs)) % B) % 2 ^ shift
        x  == AbsOf(v) - odd_lhs * mf
        x_abs == AbsOf(x) \div 2 ^ shift
    IN  IF (v < 0) # (x < 0) THEN -x_abs ELSE x_abs

reduced(x) ==
    IF AbsOf(x) < odd_lhs THEN x ELSE IF x < 0 THEN x + odd_lhs ELSE x - odd_lhs

batch == MinOf(steps, GCD_BATCH_SIZE)

Batch ==
    /\ pc = "loop" /\ steps > 0 /\ ~(vartime /\ g = 0)
    /\ LET t == jump(batch)
       IN  /\ delta' = t.delta
           /\ f' = shifted(t.t00 * f + t.t01 * g, batch)
           /\ g' = shifted(t.t10 * f + t.t11 * g, batch)
           /\ d' = reduced(cleared(t.t00 * d + t.t01 * e, batch))
           /\ e' = reduced(cleared(t.t10 * d + t.t11 * e, batch))
    /\ steps' = steps - batch
    /\ UNCHANGED <<args, pc, res>>

\* SignedInt::norm; the boxed inverse is then cut to the limbs of the value.
norm == (IF (f < 0) # (d < 0) /\ d # 0 THEN (odd_lhs - AbsOf(d)) % W[n] ELSE AbsOf(d))
          % W[sizes[2]]

\* What Roots shows expand_invert_mod2k to find.
invert_mod_precision(x) == invert_odd(x, bits_precision(n))

\* invert_mod: the inverses modulo 2^k and the odd part are put together.
combined ==
    LET k   == twos(lhs)
        b   == invert_mod_precision(IF rhs % 2 = 1 THEN AbsOf(rhs) ELSE 1) % 2 ^ k
        t   == ((b - norm) * invert_mod_precision(odd_lhs)) % 2 ^ k
    IN  (norm + odd_lhs * t) % W[n]

\* Int's inverse: that of a negative value is taken from the modulus, but zero.
signed_inverse == IF rhs < 0 /\ combined # 0 THEN (lhs - combined) % W[n] ELSE combined

\* gcd: the powers of two that the arguments share are put back; of zero and
\* rhs it is rhs.
gcd == IF lhs = 0 THEN rhs ELSE (AbsOf(f) * 2 ^ MinOf(twos(lhs), twos(rhs))) % W[n]

\* lcm: lhs, or one in its place, is divided by the gcd with rhs.
gcd_nz == IF lhs = 0 THEN 1 ELSE gcd
lcm == IF vartime /\ (lhs = 0 \/ rhs = 0) THEN 0 ELSE (lhs \div gcd_nz) * rhs

is_some == AbsOf(f) = 1 /\ rhs # 0 /\ (lhs % 2 = 1 \/ rhs % 2 = 1)

Return ==
    /\ pc = "loop" /\ (steps = 0 \/ (vartime /\ g = 0))
    /\ pc' = "done"
    /\ res' = IF inverting THEN <<signed_inverse, is_some>> ELSE <<gcd, lcm>>
    /\ UNCHANGED <<args, f, g, d, e, delta, steps>>

Next == Enter \/ Batch \/ Return
----------------------------------------------------------------------------
GCD[x \in Nat, y \in Nat] == IF y = 0 THEN x ELSE GCD[y, x % y]

\* f is odd, f and g fit, and what a batch leaves of d and e exceeds an integer
\* by no more than one bit (the debug assertion of
\* lincomb_int_reduce_shift_mod), so that one subtraction makes them reduced.
AssertionsHold ==
    pc = "loop" =>
        /\ f % 2 = 1 /\ AbsOf(f) < W[n] /\ AbsOf(g) < W[n]
        /\ AbsOf(d) <= odd_lhs /\ AbsOf(e) <= odd_lhs
        /\ steps > 0 /\ ~(vartime /\ g = 0) =>
             LET t == jump(batch)
             IN  /\ AbsOf(cleared(t.t00 * d + t.t01 * e, batch)) < 2 * W[n]
                 /\ AbsOf(cleared(t.t10 * d + t.t11 * e, batch)) < 2 * W[n]

\* f and g have the gcd of the arguments, and d and e are to f and g, modulo
\* the modulus, what the adjuster is to the value that is inverted.
CoefficientsTrack ==
    pc = "loop" =>
        /\ GCD[AbsOf(f), AbsOf(g)] = GCD[odd_lhs, AbsOf(rhs)]
        /\ inverting => /\ (d * AbsOf(rhs) - f * adjuster) % odd_lhs = 0
                        /\ (e * AbsOf(rhs) - g * adjuster) % odd_lhs = 0

\* boxed/invert_mod.rs:16 "Computes the multiplicative inverse of `self` mod
\* `modulus`".
InverseIsReturned ==
    pc = "done" /\ inverting /\ res[2] => (res[1] * rhs - adjuster) % lhs = 0

\* The division steps are always enough: the gcd is that of the arguments, the
\* product of gcd and lcm is theirs, and an inverse is found exactly if there
\* is one (but for a zero value), it is reduced, and times the value it is the
\* adjuster.  It is what is returned, but that a boxed value with fewer limbs
\* than its modulus gets so many limbs of it, against InverseIsReturned.
ResultCorrect ==
    pc = "done" =>
        IF ~inverting
        THEN /\ res[1] = GCD[lhs, rhs]
             /\ res[1] * res[2] = lhs * rhs
        ELSE /\ res[2] = (rhs # 0 /\ GCD[lhs, AbsOf(rhs)] = 1)
             /\ res[2] =>
                  \E inv \in {res[1]} \cup
                             (IF sizes[2] < sizes[1]
                              THEN {res[1] + j * W[sizes[2]] : j \in 1..(lhs \div W[sizes[2]])}
                              ELSE {}) :
                     /\ (inv * rhs - adjuster) % lhs = 0
                     /\ inv < lhs \/ lhs = 1
=============================================================================
