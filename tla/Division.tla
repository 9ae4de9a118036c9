------------------------------ MODULE Division ------------------------------
(***************************************************************************)
(* Division of two or three words by one or two with a precomputed         *)
(* reciprocal (src/src/uint/div_limb.rs), of an integer by a limb built on *)
(* it, and long division in place (src/src/uint/ref_type/div.rs): quotient *)
(* and remainder, remainder of a wide dividend, exact (Hensel) division,   *)
(* each with a fixed number of iterations or in variable time.             *)
(*                                                                         *)
(* One step is one iteration of the outer loop, which settles one limb of  *)
(* the quotient.  The inner loops subtract quo * y from a window of x and  *)
(* add y back to it: they are the chains of CarryChain.  The quotient is   *)
(* kept in the limbs of x that the remainder has left.                     *)
(*                                                                         *)
(* reciprocal itself is written with constants for words of 32 and of 64   *)
(* bits; it is represented by the function that its test compares it with. *)
(* Wide words wrap at B*B.                                                 *)
(***************************************************************************)
EXTENDS Bits

CONSTANT Shapes  \* limbs of the low dividend, the dividend and the divisor

join(lo, hi) == lo + hi * B
wide(w)      == w % (B * B)

reciprocal(d) == (B * B - 1) \div d - B

\* Reciprocal::new of a nonzero limb.
Reciprocal(divisor) ==
    LET shift == leading_zeros(divisor, 1)
        d     == shl(divisor, 1, shift)
    IN  [divisor_normalized |-> d, shift |-> shift, reciprocal |-> reciprocal(d)]

\* Slip: the reciprocal of the higher word alone.
reciprocal_unadjusted(rec, d0, d1) == rec.reciprocal

(***************************************************************************)
(* Algorithm 6 of Möller and Granlund: the reciprocal of two words, by     *)
(* adjusting that of the higher one.                                       *)
(***************************************************************************)
reciprocal_3by2(rec, d0, d1) ==
    LET p0    == wrapping_add(wrapping_mul(d1, rec.reciprocal), d0)
        lt_d0 == p0 < d0
        ge_d1 == d1 <= p0 /\ lt_d0
        v1    == wrapping_sub(wrapping_sub(rec.reciprocal, Masked(1, lt_d0)),
                              Masked(1, ge_d1))
        p1    == wrapping_sub(wrapping_sub(p0, Masked(d1, ge_d1)), Masked(d1, lt_d0))
        t     == widening_mul(v1, d0)
        p     == wrapping_add(p1, t[2])
        lt_t1 == p < t[2]
        ge_d  == join(d0, d1) <= join(t[1], p) /\ lt_t1
    IN  wrapping_sub(wrapping_sub(v1, Masked(1, lt_t1)), Masked(1, ge_d))

(***************************************************************************)
(* Algorithm 4: <<quotient, remainder>> of (u1, u0) by the normalized      *)
(* divisor; u1 is below it.                                                *)
(***************************************************************************)
div2by1(u0, u1, rec) ==
    LET d   == rec.divisor_normalized
        q   == wide(rec.reciprocal * u1 + join(u0, u1))
        q1  == wrapping_add(Hi(q), 1)
        r   == wrapping_sub(u0, wrapping_mul(q1, d))
        gt  == Lo(q) < r
        q1_ == wrapping_sub(q1, Masked(1, gt))
        r_  == wrapping_add(r, Masked(d, gt))
        ge  == d <= r_
    IN  <<wrapping_add(q1_, Masked(1, ge)), wrapping_sub(r_, Masked(d, ge))>>

\* Slip: the quotient is not capped when the leading words are equal.
div3by2_uncapped(u, ds, v) ==
    LET d  == join(ds[1], ds[2])
        q  == wide(v * u[3] + join(u[2], u[3]))
        r1 == wrapping_sub(u[2], wrapping_mul(Hi(q), ds[2]))
        r  == wide(join(u[1], r1) - ds[1] * Hi(q) - d)
        ge == Lo(q) <= Hi(r)
        r_ == wide(r + Masked(d, ge))
    IN  wrapping_add(wrapping_add(Hi(q), Masked(1, ~ge)), Masked(1, d <= r_))

(***************************************************************************)
(* Algorithm 5: the quotient of (u2, u1, u0) by (d1, d0), at most MAX.     *)
(* None of its callers uses the remainder.                                 *)
(***************************************************************************)
div3by2(u, ds, v) ==
    LET d  == join(ds[1], ds[2])
        q  == wide(v * u[3] + join(u[2], u[3]))
        r1 == wrapping_sub(u[2], wrapping_mul(Hi(q), ds[2]))
        r  == wide(join(u[1], r1) - ds[1] * Hi(q) - d)
        ge == Lo(q) <= Hi(r)
        r_ == wide(r + Masked(d, ge))
        q1 == wrapping_add(wrapping_add(Hi(q), Masked(1, ~ge)), Masked(1, d <= r_))
    IN  Select(q1, WordMAX, join(u[2], u[3]) = d)

(***************************************************************************)
(* Division of the n limbs of x by a limb, in place: <<quotient, rest>>.   *)
(***************************************************************************)
div_rem_limb(x, n, rec) ==
    LET xs == shl(x, n, rec.shift)
        step[j \in 0..n] ==
            IF j = n THEN <<0, shl_out(x, n, rec.shift)>>
            ELSE LET s == div2by1(Limb(xs, j), step[j + 1][2], rec)
                 IN  <<step[j + 1][1] + s[1] * W[j], s[2]>>
    IN  <<step[0][1], shr(step[0][2], rec.shift)>>

(***************************************************************************)
(* The remainder only: the limbs are shifted as they are read, and carry   *)
(* is the remainder of the limbs above.                                    *)
(***************************************************************************)
rem_limb_with_reciprocal(x, n, rec, carry) ==
    LET below(j) == IF j = 0 THEN 0 ELSE shl_out(Limb(x, j - 1), 1, rec.shift)
        lo(j)    == shl(Limb(x, j), 1, rec.shift) + below(j)
        hi[j \in 0..n] ==
            IF j = n THEN shl(carry, 1, rec.shift) + below(n)
                     ELSE div2by1(lo(j), hi[j + 1], rec)[2]
    IN  shr(hi[0], rec.shift)

----------------------------------------------------------------------------
VARIABLES
    call,                     \* the routine, the whole dividend X, the divisor Y
    x_lo, x, x_hi, x_xi,      \* the dividend; the limb above x, limb x[xi]
    extra_limbs,              \* the limbs of x_lo that are still to be used
    y, yn, ywords,            \* the divisor, shifted, its limbs and those in use
    lshift,                   \* the bits by which both are shifted
    xi,                       \* the limb the iteration works on
    meta_carry, zero_hi,      \* exact division: its borrow, and its verdict
    pc,                       \* "enter", "digit", "finish", "hensel" or "done"
    res                       \* <<quotient, remainder>> or <<quotient, exact>>

xs    == <<x_lo, x, x_hi, x_xi, extra_limbs>>
ys    == <<y, yn, ywords, lshift>>
exact == <<meta_carry, zero_hi>>
vars  == <<call, xs, ys, xi, exact, pc, res>>

X == call.X
Y == call.Y
losize == call.losize
xsize  == call.xsize
ysize  == call.ysize

Routines == {"div_rem", "div_rem_vartime", "rem_wide", "rem_wide_vartime",
             "div_exact", "div_exact_vartime"}
vartime  == call.routine \in {"div_rem_vartime", "rem_wide_vartime",
                         "div_exact_vartime"}
is_wide  == call.routine \in {"rem_wide", "rem_wide_vartime"}
is_exact == call.routine \in {"div_exact", "div_exact_vartime"}

MinOf(a, b) == IF a < b THEN a ELSE b

Init ==
    /\ \E r \in Routines, shape \in Shapes :
         \E dividend \in 0..(W[shape[1] + shape[2]] - 1), divisor \in 1..(W[shape[3]] - 1) :
            call = [routine |-> r, X |-> dividend, Y |-> divisor, losize |-> shape[1],
                    xsize |-> shape[2], ysize |-> shape[3]]
    /\ IF is_wide THEN losize > 0 /\ ysize <= xsize ELSE losize = 0
    /\ x_lo = X % W[losize] /\ x = X \div W[losize]
    /\ extra_limbs = losize
    /\ y = Y /\ yn = ysize /\ ywords = to_limbs(bits(Y))
    /\ x_hi = 0 /\ x_xi = 0 /\ xi = 0 /\ lshift = 0
    /\ meta_carry = 0 /\ zero_hi = TRUE
    /\ pc = "enter" /\ res = <<0, 0>>

Return(quotient, rest) ==
    /\ pc' = "done"
    /\ res' = <<quotient, rest>>
    /\ UNCHANGED <<call, xs, ys, xi, exact>>

(***************************************************************************)
(* A divisor of a single limb is divided by at once: of one limb of        *)
(* precision or, in variable time, of one limb in use.                     *)
(***************************************************************************)
ByOneLimb == IF vartime THEN ywords = 1 ELSE ysize = 1

EnterByLimb ==
    /\ pc = "enter" /\ ~is_exact /\ ByOneLimb
    /\ LET rec == Reciprocal(y)
       IN  IF is_wide
             THEN LET carry == rem_limb_with_reciprocal(x, xsize, rec, 0)
                  IN  Return(0, rem_limb_with_reciprocal(x_lo, losize, rec, carry))
             ELSE LET s == div_rem_limb(x, xsize, rec) IN Return(s[1], s[2])

\* A divisor longer than the dividend (a wide one is not).
EnterShort ==
    /\ pc = "enter" /\ ~is_exact /\ ~ByOneLimb
    /\ vartime /\ ywords > xsize
    /\ Return(0, x)

(***************************************************************************)
(* Otherwise both are shifted to set the divisor's top bit: the fixed loop *)
(* moves the divisor up to its full precision, whatever its length; the    *)
(* variable one first cuts off the limbs that are not in use.              *)
(***************************************************************************)
EnterLarge ==
    /\ pc = "enter" /\ ~is_exact /\ ~ByOneLimb
    /\ ~(vartime /\ ywords > xsize)
    /\ yn' = IF vartime THEN ywords ELSE ysize
    /\ LET yz == leading_zeros(y, yn') IN /\ y' = shl(y, yn', yz)
                                          /\ lshift' = yz % WordBits
    /\ x_lo' = shl(x_lo, losize, lshift')
    /\ x' = shl(x, xsize, lshift') + shl_out(x_lo, losize, lshift')
    /\ x_hi' = shl_out(x, xsize, lshift')
    /\ xi' = xsize - 1
    /\ x_xi' = Limb(x', xi')
    /\ pc' = "digit"
    /\ UNCHANGED <<call, extra_limbs, ywords, exact, res>>

topWords == <<Limb(y, yn - 2), Limb(y, yn - 1)>>
rec      == Reciprocal(Limb(y, yn - 1))

\* The iterations past the end of the divisor change nothing.
past_end == xi < ywords - 1

\* Slip: the quotient is not decremented when the divisor is added back.
SubtractedKeeping(quo) ==
    LET n   == MinOf(yn, xi + 1)
        yv  == y \div W[yn - n]
        low == Slice(x, xi + 1 - n, n)
        borrow == x_hi * W[n] + low < quo * yv
        newlow == (low - quo * yv + Masked(yv, borrow)) % W[n]
    IN  <<quo, SetSlice(x, xi + 1 - n, n, newlow)>>

(***************************************************************************)
(* quo * y is subtracted from the limbs of x up to xi and from x_hi; if    *)
(* that borrows, y is added back and quo is decremented (saturating).      *)
(* Returns quo and x.                                                      *)
(***************************************************************************)
Subtracted(quo) ==
    LET n   == MinOf(yn, xi + 1)
        yv  == y \div W[yn - n]
        low == Slice(x, xi + 1 - n, n)
        borrow == x_hi * W[n] + low < quo * yv
        newlow == (low - quo * yv + Masked(yv, borrow)) % W[n]
        newquo == IF borrow /\ quo > 0 THEN quo - 1 ELSE quo
    IN  <<newquo, SetSlice(x, xi + 1 - n, n, newlow)>>

Estimate ==
    div3by2(<<Limb(x, xi - 1), x_xi, x_hi>>, topWords,
            reciprocal_3by2(rec, topWords[1], topWords[2]))

Digit ==
    /\ pc = "digit" /\ xi > 0 /\ ~(vartime /\ past_end)
    /\ LET s == Subtracted(Select(Estimate, 0, past_end))
           z == s[2]
       IN  IF extra_limbs > 0
             THEN \* the next limb of the low part is shifted in
                  /\ x_hi' = Limb(z, xi)
                  /\ x_xi' = Limb(z, xi - 1)
                  /\ x' = SetSlice(z, 0, xi + 1,
                             (z % W[xi]) * B + Limb(x_lo, extra_limbs - 1))
                  /\ extra_limbs' = extra_limbs - 1
                  /\ UNCHANGED xi
             ELSE /\ x_hi' = Select(Limb(z, xi), x_hi, past_end)
                  /\ x_xi' = Select(Limb(z, xi - 1), x_xi, past_end)
                  /\ x' = IF is_wide \/ past_end THEN z ELSE SetLimb(z, xi, s[1])
                  /\ xi' = xi - 1
                  /\ UNCHANGED extra_limbs
    /\ UNCHANGED <<call, x_lo, ys, exact, pc, res>>

(***************************************************************************)
(* The remainder is in the low limbs of x and, above them, in x_hi; the    *)
(* quotient is in the limbs above.  If the divisor is of a single limb,    *)
(* which only the fixed loop does not know, one more limb is divided.      *)
(***************************************************************************)
Finish ==
    /\ pc = "digit" /\ (xi = 0 \/ (vartime /\ past_end))
    /\ pc' = "done"
    /\ LET limb_div == ~vartime /\ ywords = 1
           last     == div2by1(Limb(x, 0), Masked(x_hi, limb_div), rec)
           quotient == IF limb_div THEN SetLimb(x, 0, last[1]) ELSE x
           hi_pos   == MinOf(xsize, ywords - 1)
           rest     == [j \in 0..(ysize - 1) |->
                          IF j = 0 THEN Select(Limb(x, 0), last[2], limb_div)
                          ELSE IF j = hi_pos THEN x_hi
                          ELSE Masked(Limb(x, j), j < MinOf(xsize, ywords))]
       IN  res' = <<IF is_wide THEN 0 ELSE quotient \div W[ywords - 1],
                    shr(FromLimbs(rest, ysize), lshift)>>
    /\ UNCHANGED <<call, xs, ys, xi, exact>>

----------------------------------------------------------------------------
(* Exact division, from the low end: each quotient limb clears one limb.   *)

\* Odd::invert_mod_limb
y_inv == invert_odd(Limb(y, 0), WordBits)

(***************************************************************************)
(* The divisor is shifted until it is odd, and the dividend with it, of    *)
(* which zero_hi remembers whether it had as many zeros.                   *)
(***************************************************************************)
EnterExact ==
    /\ pc = "enter" /\ is_exact
    /\ LET y_tz == trailing_zeros(y, ysize)
       IN  /\ y' = shr(y, y_tz)
           /\ x' = shr(x, y_tz)
           /\ ywords' = to_limbs(bits(y) - y_tz)
           /\ lshift' = y_tz
    /\ yn' = IF vartime THEN ywords' ELSE ysize
    /\ pc' = "hensel"
    /\ UNCHANGED <<call, x_lo, x_hi, x_xi, extra_limbs, xi, exact, res>>

y_remain == MinOf(yn, xsize - xi)
done     == y_remain < ywords

\* Slip: the borrow of the last limb is not taken over into the meta-carry.
HenselDigitLosingBorrow ==
    /\ pc = "hensel" /\ xi < xsize /\ ~(vartime /\ done)
    /\ LET quo   == Select(wrapping_mul(Limb(x, xi), y_inv), Limb(x, xi), done)
           n     == y_remain - 1
           sub   == (quo * (y % W[y_remain])) \div B
           win   == Slice(x, xi + 1, n)
           brw   == IF win < sub % W[n] THEN 1 ELSE 0
           z     == SetSlice(SetLimb(x, xi, quo), xi + 1, n, (win - sub) % W[n])
           meta  == wrapping_add(meta_carry, sub \div W[n])
           top   == xi + y_remain
       IN  /\ zero_hi' = (zero_hi /\ (vartime \/ ~done \/ quo = 0))
           /\ IF top < xsize
                THEN /\ x' = SetLimb(z, top, wrapping_sub(Limb(z, top), meta + brw))
                     /\ meta_carry' = 0
                ELSE /\ x' = z
                     /\ meta_carry' = wrapping_add(meta, brw)
    /\ xi' = xi + 1
    /\ UNCHANGED <<call, x_lo, x_hi, x_xi, extra_limbs, ys, pc, res>>

(***************************************************************************)
(* meta_carry is what remains to be subtracted at the limb above the       *)
(* window.  Past the end of the divisor the limb itself plays the quotient *)
(* and must be zero.                                                       *)
(***************************************************************************)
HenselDigit ==
    /\ pc = "hensel" /\ xi < xsize /\ ~(vartime /\ done)
    /\ LET quo   == Select(wrapping_mul(Limb(x, xi), y_inv), Limb(x, xi), done)
           n     == y_remain - 1
           sub   == (quo * (y % W[y_remain])) \div B
           win   == Slice(x, xi + 1, n)
           brw   == IF win < sub % W[n] THEN 1 ELSE 0
           z     == SetSlice(SetLimb(x, xi, quo), xi + 1, n, (win - sub) % W[n])
           meta  == wrapping_add(meta_carry, sub \div W[n])
           top   == xi + y_remain
       IN  /\ zero_hi' = (zero_hi /\ (vartime \/ ~done \/ quo = 0))
           /\ IF top < xsize
                THEN LET s == borrowing_sub(Limb(z, top), meta, Mask(brw = 1))
                     IN  /\ x' = SetLimb(z, top, s[1])
                         /\ meta_carry' = wrapping_sub(0, s[2])
                ELSE /\ x' = z
                     /\ meta_carry' = wrapping_add(meta, brw)
    /\ xi' = xi + 1
    /\ UNCHANGED <<call, x_lo, x_hi, x_xi, extra_limbs, ys, pc, res>>

HenselFinish ==
    /\ pc = "hensel" /\ (xi = xsize \/ (vartime /\ done))
    /\ LET rest_zero == (vartime /\ xi < xsize) => x \div W[xi] = 0
           twos      == lshift <= trailing_zeros(X, xsize) \/ X = 0
       IN  Return(x, meta_carry = 0 /\ zero_hi /\ rest_zero /\ twos)

Next == EnterByLimb \/ EnterShort \/ EnterLarge \/ Digit \/ Finish
          \/ EnterExact \/ HenselDigit \/ HenselFinish
----------------------------------------------------------------------------
\* The debug assertions of div3by2 hold at every iteration, those past the end
\* of the divisor included: its divisor is normalized, its dividend's top
\* words do not exceed it and its first sum fits a wide word.
AssertionsHold ==
    pc = "digit" /\ xi > 0 =>
        LET d    == join(topWords[1], topWords[2])
            u_hi == join(x_xi, x_hi)
            v    == reciprocal_3by2(rec, topWords[1], topWords[2])
        IN  /\ 2 * d >= B * B
            /\ u_hi <= d
            /\ v * x_hi + u_hi < B * B

\* The divisor without the zero limbs below it, and the dividend, as shifted.
D       == y \div W[yn - ywords]
Shifted == X * BitWeight[lshift]

\* What is left of the dividend: x_hi above the limbs of x up to xi, above the
\* limbs of the low part that are still to be used.
Rest == (x_hi * W[xi + 1] + (x % W[xi + 1])) * W[extra_limbs]
          + (x_lo % W[extra_limbs])

\* The dividend is always the divisor times the quotient limbs found so far
\* plus the rest, whose top is below the divisor, so that the next limb fits:
\* the estimate is never off by more than the one correction makes good.
DigitsExact ==
    pc = "digit" /\ ~past_end =>
        /\ Rest < D * W[extra_limbs + xi + 2 - ywords]
        /\ Rest % D = Shifted % D
        /\ ~is_wide =>
             Shifted = D * ((x \div W[xi + 1]) * W[xi + 2 - ywords]) + Rest

\* An exact division from the low end keeps the (shifted) dividend as the
\* divisor times the quotient limbs plus the limbs not yet cleared, less the
\* meta-carry at the limb above the last window.
HenselExact ==
    pc = "hensel" /\ ~done =>
        shr(X, lshift) = y * (x % W[xi]) + (x - (x % W[xi]))
                            - meta_carry * W[MinOf(xi + yn, xsize)]

\* Quotient and remainder are those of the integers, for all lengths of both
\* operands; an exact division succeeds exactly if the divisor divides.
ResultCorrect ==
    pc = "done" =>
        IF is_exact THEN /\ res[2] = (X % Y = 0)
                         /\ res[2] => res[1] = X \div Y
        ELSE /\ res[2] = X % Y
             /\ ~is_wide => res[1] = X \div Y
============================================================================
