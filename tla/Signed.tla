------------------------------- MODULE Signed -------------------------------
(***************************************************************************)
(* Signed integers in two's complement over an unsigned one                *)
(* (src/src/int/{sign,neg,add,sub,cmp,resize,mul,mul_unsigned,div,         *)
(* div_unsigned}.rs and src/src/uint/mul_signed.rs).  An Int is            *)
(* represented by its bits, a number below W[n].  Magnitudes are           *)
(* multiplied and divided by the routines of Karatsuba and Division, here  *)
(* by what those return.  A behaviour is one call.                         *)
(***************************************************************************)
EXTENDS Bits

CONSTANTS Values(_), Sizes

VARIABLES call, pc, res

vars == <<call, pc, res>>

MIN(n)       == W[n] \div 2
MAX(n)       == MIN(n) - 1
MINUS_ONE(n) == W[n] - 1

is_negative(x, n)   == x >= MIN(n)
wrapping_neg(x, n)  == (W[n] - x) % W[n]
wrapping_neg_if(x, n, negate) == IF negate THEN wrapping_neg(x, n) ELSE x

abs(x, n) == wrapping_neg_if(x, n, is_negative(x, n))

\* Slip: a magnitude of MIN is refused whatever the sign.
fits_positive(mag, n, negative) == ~is_negative(mag, n)

\* The magnitude of MIN fits only when it is negated.
fits(mag, n, negative) ==
    \/ ~is_negative(mag, n)
    \/ negative /\ is_negative(wrapping_neg_if(mag, n, negative), n)

new_from_abs_sign(mag, n, negative) ==
    IF fits(mag, n, negative) THEN <<wrapping_neg_if(mag, n, negative)>> ELSE <<>>

\* The flags come from the signs of the operands and of the result.
int_overflowing_add(x, y, n) ==
    LET r == (x + y) % W[n]
    IN  <<r, /\ is_negative(x, n) = is_negative(y, n)
             /\ is_negative(x, n) # is_negative(r, n)>>

underflowing_sub(x, y, n) ==
    LET r == (x - y) % W[n]
    IN  <<r, /\ is_negative(x, n) # is_negative(y, n)
             /\ is_negative(x, n) # is_negative(r, n)>>

\* All bits inverted, plus one.
overflowing_neg(x, n) == int_overflowing_add(W[n] - 1 - x, 1, n)

\* Compares as unsigned, the highest bit inverted.
invert_msb(x, n) == IF is_negative(x, n) THEN x - MIN(n) ELSE x + MIN(n)
cmp(x, y, n) ==
    LET a == invert_msb(x, n)
        b == invert_msb(y, n)
    IN  IF a < b THEN -1 ELSE IF a = b THEN 0 ELSE 1

\* From n limbs to t: limbs of the sign, the lowest of them overwritten.
resize(x, n, t) ==
    IF t <= n THEN x % W[t]
    ELSE x + (IF is_negative(x, n) THEN W[t] - W[n] ELSE 0)

\* Uint::checked_mul into n limbs.
uint_checked_mul(a, b, n) == IF a * b < W[n] THEN <<a * b>> ELSE <<>>

new_from_abs_opt_sign(opt, n, negative) ==
    IF opt = <<>> THEN <<>> ELSE new_from_abs_sign(opt[1], n, negative)

\* A product of magnitudes a (of n limbs) and b, with the sign.
concatenating(a, b, n, negative)   == <<wrapping_neg_if(a * b, n, negative)>>
checked_product(a, b, n, negative) == new_from_abs_opt_sign(uint_checked_mul(a, b, n), n, negative)
saturating_product(a, b, n, negative) ==
    LET r == checked_product(a, b, n, negative)
    IN  IF r # <<>> THEN r ELSE IF negative THEN <<MIN(n)>> ELSE <<MAX(n)>>

\* wrapping_mul: of the bits when rhs is no shorter, else by the magnitude of
\* rhs, which is not extended by its sign.
wrapping_mul_int(x, xn, y, yn) ==
    IF yn >= xn THEN <<(x * y) % W[xn]>>
    ELSE <<wrapping_neg_if((x * abs(y, yn)) % W[xn], xn, is_negative(y, yn))>>

\* div_rem_base and what is made of it: the truncated quotient and remainder.
checked_div_rem(x, xn, y, yn) ==
    LET opposing == is_negative(x, xn) # is_negative(y, yn)
        q == abs(x, xn) \div abs(y, yn)
        r == abs(x, xn) % abs(y, yn)
    IN  <<new_from_abs_sign(q, xn, opposing), wrapping_neg_if(r, yn, is_negative(x, xn))>>

\* The quotient is rounded down; the remainder has the sign of the exact quotient.
checked_div_rem_floor(x, xn, y, yn) ==
    LET opposing == is_negative(x, xn) # is_negative(y, yn)
        q == abs(x, xn) \div abs(y, yn)
        r == abs(x, xn) % abs(y, yn)
        modify == r # 0 /\ opposing
    IN  <<new_from_abs_sign(IF modify THEN (q + 1) % W[xn] ELSE q, xn, opposing),
          wrapping_neg_if(IF modify THEN abs(y, yn) - r ELSE r, yn, opposing)>>

\* By an unsigned integer; its remainder, of yn limbs, is taken for an Int.
div_rem_unsigned(x, xn, y, yn) ==
    <<<<wrapping_neg_if(abs(x, xn) \div y, xn, is_negative(x, xn))>>,
      wrapping_neg_if(abs(x, xn) % y, yn, is_negative(x, xn))>>

div_rem_floor_unsigned(x, xn, y, yn) ==
    LET q == abs(x, xn) \div y
        r == abs(x, xn) % y
        modify == r # 0 /\ is_negative(x, xn)
    IN  <<<<wrapping_neg_if(IF modify THEN (q + 1) % W[xn] ELSE q, xn, is_negative(x, xn))>>,
          IF modify THEN y - r ELSE r>>
----------------------------------------------------------------------------
SameSize == {"add", "sub", "neg", "cmp"}
Products == {"concatenating", "checked", "saturating", "wrapping"}
Divisions == {"div_rem", "div_rem_floor", "div_rem_unsigned", "div_rem_floor_unsigned"}

\* kinds says which of the two operands of a product are signed.
Calls ==
    UNION {[routine : SameSize, kinds : {"int_int"}, x : Values(n), xn : {n},
            y : Values(n), yn : {n}] : n \in Sizes}
    \cup
    UNION {[routine : {"resize"}, kinds : {"int_int"}, x : Values(xn), xn : {xn},
            y : {0}, yn : {yn}] : xn \in Sizes, yn \in Sizes}
    \cup
    UNION {[routine : Products, kinds : {"int_int"}, x : Values(xn), xn : {xn},
            y : Values(yn), yn : {yn}] : xn \in Sizes, yn \in Sizes}
    \cup
    UNION {[routine : {"concatenating", "checked"}, kinds : {"int_uint", "uint_int"},
            x : Values(xn), xn : {xn}, y : Values(yn), yn : {yn}] : xn \in Sizes, yn \in Sizes}
    \cup
    UNION {[routine : Divisions, kinds : {"int_int"}, x : Values(xn), xn : {xn},
            y : Values(yn) \ {0}, yn : {yn}] : xn \in Sizes, yn \in Sizes}

Init == call \in Calls /\ pc = "call" /\ res = <<>>

AddSub ==
    /\ pc = "call" /\ pc' = "done" /\ call.routine \in SameSize \cup {"resize"}
    /\ LET c == call
       IN  res' = CASE c.routine = "add"    -> int_overflowing_add(c.x, c.y, c.xn)
                    [] c.routine = "sub"    -> underflowing_sub(c.x, c.y, c.xn)
                    [] c.routine = "neg"    -> overflowing_neg(c.x, c.xn)
                    [] c.routine = "cmp"    -> <<cmp(c.x, c.y, c.xn)>>
                    [] c.routine = "resize" -> <<resize(c.x, c.xn, c.yn)>>
    /\ UNCHANGED call

\* The magnitudes and the sign of a product.
LeftSigned  == call.kinds # "uint_int"
RightSigned == call.kinds # "int_uint"

Mul ==
    /\ pc = "call" /\ pc' = "done" /\ call.routine \in Products
    /\ LET c == call
           a == IF LeftSigned  THEN abs(c.x, c.xn) ELSE c.x
           b == IF RightSigned THEN abs(c.y, c.yn) ELSE c.y
           negative == (LeftSigned /\ is_negative(c.x, c.xn))
                         # (RightSigned /\ is_negative(c.y, c.yn))
       IN  res' = CASE c.routine = "concatenating" -> concatenating(a, b, c.xn + c.yn, negative)
                    [] c.routine = "checked"    -> checked_product(a, b, c.xn, negative)
                    [] c.routine = "saturating" -> saturating_product(a, b, c.xn, negative)
                    [] c.routine = "wrapping"   -> wrapping_mul_int(c.x, c.xn, c.y, c.yn)
    /\ UNCHANGED call

Div ==
    /\ pc = "call" /\ pc' = "done" /\ call.routine \in Divisions
    /\ LET c == call
       IN  res' = CASE c.routine = "div_rem" -> checked_div_rem(c.x, c.xn, c.y, c.yn)
                    [] c.routine = "div_rem_floor" ->
                         checked_div_rem_floor(c.x, c.xn, c.y, c.yn)
                    [] c.routine = "div_rem_unsigned" ->
                         div_rem_unsigned(c.x, c.xn, c.y, c.yn)
                    [] c.routine = "div_rem_floor_unsigned" ->
                         div_rem_floor_unsigned(c.x, c.xn, c.y, c.yn)
    /\ UNCHANGED call

Next == AddSub \/ Mul \/ Div
----------------------------------------------------------------------------
\* The value of the bits, and the bits of a value.
Val(x, n)     == IF x >= MIN(n) THEN x - W[n] ELSE x
InRange(v, n) == -MIN(n) <= v /\ v <= MAX(n)
Exactly(v, n) == IF InRange(v, n) THEN <<v % W[n]>> ELSE <<>>

Abs(v) == IF v < 0 THEN -v ELSE v
Sgn(v) == IF v < 0 THEN -1 ELSE IF v = 0 THEN 0 ELSE 1

\* int/div_unsigned.rs:58 "The remainder will have the same sign as `self` (or be
\* zero)."
RemainderHasSign ==
    pc = "done" /\ call.routine = "div_rem_unsigned" =>
    Sgn(Val(res[2], call.yn)) \in {0, Sgn(Val(call.x, call.xn))}

\* int/div.rs:360 "int divided by int fits in uint by construction", the expectation
\* of div_vartime, for which a quotient that does not fit is a panic.
QuotientFits ==
    pc = "done" /\ call.routine = "div_rem" /\ call.xn = call.yn => res[1] # <<>>

\* Sums, differences, products and quotients are those of the values; what does
\* not fit is flagged, none or the nearest bound, and nothing else is.  So are
\* the remainders, but for one by an unsigned divisor above half of its width:
\* that is right modulo its width only, against RemainderHasSign.
ResultCorrect ==
    pc = "done" =>
    LET c == call
        xi == Val(c.x, c.xn)
        yi == Val(c.y, c.yn)
        x  == IF c.kinds = "uint_int" THEN c.x ELSE xi
        y  == IF c.kinds = "int_uint" \/ c.routine \in {"div_rem_unsigned", "div_rem_floor_unsigned"}
              THEN c.y ELSE yi
        Flagged(v) == <<v % W[c.xn], ~InRange(v, c.xn)>>
        q == Sgn(x) * Sgn(y) * (Abs(x) \div Abs(y))
        down == IF y > 0 THEN x \div y ELSE (-x) \div (-y)
    IN  CASE c.routine = "add" -> res = Flagged(x + y)
          [] c.routine = "sub" -> res = Flagged(x - y)
          [] c.routine = "neg" -> res = Flagged(-x)
          [] c.routine = "cmp" -> res[1] = Sgn(x - y)
          [] c.routine = "resize" -> res[1] = x % W[c.yn]
          [] c.routine = "concatenating" -> Val(res[1], c.xn + c.yn) = x * y
          [] c.routine = "checked" -> res = Exactly(x * y, c.xn)
          [] c.routine = "saturating" ->
               res = IF InRange(x * y, c.xn) THEN Exactly(x * y, c.xn)
                     ELSE IF x * y < 0 THEN <<MIN(c.xn)>> ELSE <<MAX(c.xn)>>
          [] c.routine = "wrapping" -> res[1] = (x * y) % W[c.xn]
          [] c.routine \in {"div_rem", "div_rem_unsigned"} ->
               /\ res[1] = Exactly(q, c.xn)
               /\ res[2] = (x - q * y) % W[c.yn]
               /\ c.routine = "div_rem" => Val(res[2], c.yn) = x - q * y
          [] c.routine = "div_rem_floor" ->
               /\ res[1] = Exactly(down, c.xn)
               /\ Val(res[2], c.yn) = Sgn(x) * Sgn(y) * Abs(x - down * y)
          [] c.routine = "div_rem_floor_unsigned" ->
               res = <<Exactly(down, c.xn), x - down * y>>
============================================================================
