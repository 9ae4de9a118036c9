------------------------------- MODULE Shifts -------------------------------
(***************************************************************************)
(* Shifts of unsigned integers (src/src/uint/ref_type/{shl,shr}.rs under   *)
(* src/src/uint/{shl,shr}.rs and src/src/uint/boxed/{shl,shr}.rs) and      *)
(* arithmetic shifts of signed ones (src/src/int/{shl,shr}.rs).  A         *)
(* behaviour is one call; <<>> is none, or a panic for a shift that is out *)
(* of range.                                                               *)
(***************************************************************************)
EXTENDS Bits

CONSTANTS Values(_), Sizes

VARIABLES call, pc, res

vars == <<call, pc, res>>

BITS(n) == bits_precision(n)

\* shl_assign_limb_with_carry: from the lowest limb up; 0 <= s < Limb::BITS.
shl_limb(x, n, s) ==
    LET loop[k \in 0..n] ==
          IF k = 0 THEN <<0, 0>>
          ELSE LET below == loop[k - 1]
                   limb  == Limb(x, k - 1)
               IN  <<below[1] + (((limb * 2 ^ s) % B) + below[2]) * W[k - 1],
                     limb \div 2 ^ (WordBits - s)>>
    IN  loop[n][1]

\* shr_assign_limb_with_carry: from the highest limb down.
shr_limb(x, n, s) ==
    LET loop[k \in 0..n] ==
          IF k = 0 THEN <<0, 0>>
          ELSE LET above == loop[k - 1]
                   limb  == Limb(x, n - k)
               IN  <<above[1] + ((limb \div 2 ^ s) + above[2]) * W[n - k],
                     (limb * 2 ^ (WordBits - s)) % B>>
    IN  loop[n][1]

\* unbounded_shl_assign_by_limbs_vartime and unbounded_shr_assign_by_limbs_vartime.
shl_by_limbs(x, n, k) == IF k >= n THEN 0 ELSE (x % W[n - k]) * W[k]
shr_by_limbs(x, n, k) == IF k >= n THEN 0 ELSE x \div W[k]

Bit(v, k) == (v \div 2 ^ k) % 2 = 1

\* bounded_shl_by_limbs_assign and its mirror image: one conditional shift by
\* 2^i limbs for each bit of the greatest number of limbs the bound allows.
limb_rounds(bound) == bits(to_limbs(bound) - 1)

bounded_by_limbs(dir, x, n, k, bound) ==
    LET loop[i \in 0..limb_rounds(bound)] ==
          IF i = 0 THEN x
          ELSE LET y == loop[i - 1]
               IN  IF ~Bit(k, i - 1) THEN y
                   ELSE IF dir = "shl" THEN shl_by_limbs(y, n, 2 ^ (i - 1))
                                       ELSE shr_by_limbs(y, n, 2 ^ (i - 1))
    IN  loop[limb_rounds(bound)]

by_bits(dir, x, n, s) == IF dir = "shl" THEN shl_limb(x, n, s) ELSE shr_limb(x, n, s)

\* bounded_shl_assign, bounded_shr_assign: panics unless shift < bound.
bounded(dir, x, n, shift, bound) ==
    CASE shift >= bound -> <<>>
      [] shift < bound /\ bound <= WordBits -> <<by_bits(dir, x, n, shift)>>
      [] OTHER -> <<by_bits(dir, bounded_by_limbs(dir, x, n, shift \div WordBits, bound),
                            n, shift % WordBits)>>

\* unbounded_shl_vartime and the _assign form: whole limbs, then bits.
unbounded_vartime(dir, x, n, shift) ==
    LET k == shift \div WordBits
    IN  by_bits(dir, IF dir = "shl" THEN shl_by_limbs(x, n, k) ELSE shr_by_limbs(x, n, k),
                n, shift % WordBits)

\* overflowing_shl_assign shifts by 0 when shift is out of range.
unbounded(dir, x, n, shift) ==
    IF shift >= BITS(n) THEN 0 ELSE bounded(dir, x, n, shift, BITS(n))[1]

overflowing_vartime(dir, x, n, shift) ==
    IF shift < BITS(n) THEN <<unbounded_vartime(dir, x, n, shift)>> ELSE <<>>

\* overflowing_shl_vartime_wide and overflowing_shr_vartime_wide of the pair
\* (lower, upper) of n limbs each.
wide(dir, lower, upper, n, shift) ==
    LET Shl(x, s) == unbounded_vartime("shl", x, n, s)
        Shr(x, s) == unbounded_vartime("shr", x, n, s)
    IN  CASE shift >= 2 * BITS(n) -> <<>>
          [] shift \in BITS(n)..(2 * BITS(n) - 1) /\ dir = "shl" ->
               <<0, Shl(lower, shift - BITS(n))>>
          [] shift \in BITS(n)..(2 * BITS(n) - 1) /\ dir = "shr" ->
               <<Shr(upper, shift - BITS(n)), 0>>
          [] shift < BITS(n) /\ dir = "shl" ->
               <<Shl(lower, shift), Shr(lower, BITS(n) - shift) + Shl(upper, shift)>>
          [] shift < BITS(n) /\ dir = "shr" ->
               <<Shr(lower, shift) + Shl(upper, BITS(n) - shift), Shr(upper, shift)>>

\* Int::shr and its other forms: the sign bits are shifted in from the top.
sign_bits(x, n) == IF 2 * x >= W[n] THEN W[n] - 1 ELSE 0

\* Slip: the sign bits are shifted by the limbs' width.
sign_fill_limb(x, n, shift) == unbounded("shl", sign_bits(x, n), n, WordBits - (shift % WordBits))

sign_fill(x, n, shift) == unbounded("shl", sign_bits(x, n), n, BITS(n) - shift)

int_shr(x, n, shift) ==
    IF shift >= BITS(n) THEN <<>>
    ELSE <<bounded("shr", x, n, shift, BITS(n))[1] + sign_fill(x, n, shift)>>

int_unbounded_shr(x, n, shift) ==
    IF shift < BITS(n) THEN int_shr(x, n, shift)[1] ELSE sign_bits(x, n)

int_unbounded_shr_vartime(x, n, shift) ==
    LET r == overflowing_vartime("shr", x, n, shift)
    IN  IF r = <<>> THEN sign_bits(x, n) ELSE r[1] + sign_fill(x, n, shift)
----------------------------------------------------------------------------
Routines == {"exact", "unbounded", "wrapping",
             "exact_vartime", "unbounded_vartime", "wrapping_vartime"}

Shifted(n) == 0..(2 * BITS(n) + 1)

Calls ==
    UNION {[kind : {"uint"}, dir : {"shl", "shr"}, routine : Routines, x : Values(n),
            n : {n}, shift : Shifted(n), bound : {0}] : n \in Sizes}
    \cup
    UNION {[kind : {"int"}, dir : {"shr"}, routine : Routines, x : Values(n),
            n : {n}, shift : Shifted(n), bound : {0}] : n \in Sizes}
    \cup
    UNION {[kind : {"uint"}, dir : {"shl", "shr"}, routine : {"bounded"}, x : Values(n),
            n : {n}, shift : 0..(2 * BITS(n)), bound : {1, BITS(n) - 1, 2 * BITS(n)}]
            : n \in Sizes}
    \cup
    UNION {[kind : {"wide"}, dir : {"shl", "shr"}, routine : {"exact_vartime"},
            x : Values(2 * n), n : {n}, shift : Shifted(n), bound : {0}]
            : n \in {m \in Sizes : 2 * m \in Sizes}}

Init == call \in Calls /\ pc = "call" /\ res = <<>>

uint_shift(dir, routine, x, n, shift) ==
    CASE routine = "exact"             -> bounded(dir, x, n, shift, BITS(n))
      [] routine = "unbounded"         -> <<unbounded(dir, x, n, shift)>>
      [] routine = "wrapping"          -> bounded(dir, x, n, shift % BITS(n), BITS(n))
      [] routine = "exact_vartime"     -> overflowing_vartime(dir, x, n, shift)
      [] routine = "unbounded_vartime" -> <<unbounded_vartime(dir, x, n, shift)>>
      [] routine = "wrapping_vartime"  -> <<unbounded_vartime(dir, x, n, shift % BITS(n))>>

int_shift(routine, x, n, shift) ==
    CASE routine = "exact"             -> int_shr(x, n, shift)
      [] routine = "unbounded"         -> <<int_unbounded_shr(x, n, shift)>>
      [] routine = "wrapping"          -> int_shr(x, n, shift % BITS(n))
      [] routine = "exact_vartime"     -> IF shift < BITS(n)
                                          THEN <<int_unbounded_shr_vartime(x, n, shift)>>
                                          ELSE <<>>
      [] routine = "unbounded_vartime" -> <<int_unbounded_shr_vartime(x, n, shift)>>
      [] routine = "wrapping_vartime"  -> <<int_unbounded_shr_vartime(x, n, shift % BITS(n))>>

Shift ==
    /\ pc = "call" /\ pc' = "done"
    /\ LET c == call
       IN  res' = CASE c.routine = "bounded" -> bounded(c.dir, c.x, c.n, c.shift, c.bound)
                    [] c.kind = "wide" -> wide(c.dir, c.x % W[c.n], c.x \div W[c.n], c.n, c.shift)
                    [] c.kind = "int"  -> int_shift(c.routine, c.x, c.n, c.shift)
                    [] OTHER           -> uint_shift(c.dir, c.routine, c.x, c.n, c.shift)
    /\ UNCHANGED call

Next == Shift
----------------------------------------------------------------------------
Val(x, n) == IF 2 * x >= W[n] THEN x - W[n] ELSE x

\* Every form shifts by the whole amount, arithmetically for signed integers;
\* what is out of range is none, a panic, zero (the sign) or reduced, as the
\* form says.
ResultCorrect ==
    pc = "done" =>
    LET c     == call
        limit == IF c.routine = "bounded" THEN c.bound
                 ELSE IF c.kind = "wide" THEN 2 * BITS(c.n) ELSE BITS(c.n)
        s     == IF c.routine \in {"wrapping", "wrapping_vartime"}
                 THEN c.shift % BITS(c.n) ELSE c.shift
        v     == IF c.kind = "int" THEN Val(c.x, c.n) ELSE c.x
        m     == IF c.kind = "wide" THEN W[2 * c.n] ELSE W[c.n]
        r     == (IF c.dir = "shl" THEN v * 2 ^ s ELSE v \div 2 ^ s) % m
    IN  IF c.routine \notin {"unbounded", "unbounded_vartime"} /\ s >= limit THEN res = <<>>
        ELSE res = IF c.kind = "wide" THEN <<r % W[c.n], r \div W[c.n]>> ELSE <<r>>
============================================================================
