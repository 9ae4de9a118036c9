------------------------------ MODULE Karatsuba ------------------------------
(***************************************************************************)
(* Multiplication and squaring of integers of many limbs                   *)
(* (src/src/uint/mul/karatsuba.rs) and the methods built on it             *)
(* (src/src/uint/mul.rs, src/src/uint/ref_type/mul.rs,                     *)
(* src/src/uint/boxed/mul.rs); a behaviour is one call.                    *)
(*                                                                         *)
(* The code halves operands of 16, 32, ..., 256 limbs; here the least size *)
(* is MIN_STARTING_LIMBS = 2, the greatest is the argument max of every    *)
(* routine.  A widening product (lo, hi) is one integer, lo below hi.      *)
(***************************************************************************)
EXTENDS Bits, TLC

CONSTANTS Values(_), Sizes

VARIABLES call, pc, res

MIN_STARTING_LIMBS == 2

previous_power_of_2(v) ==
    IF v = 0 THEN 0 ELSE CHOOSE p \in {1, 2, 4, 8} : p <= v /\ v < 2 * p

\* The sizes a match has an arm for.
Arms(max) == {n \in {2, 4, 8} : n <= max}

Low(x, n)  == x % W[n]
High(x, n) == x \div W[n]

(***************************************************************************)
(* The routines call each other on shorter operands, or with the operands  *)
(* swapped.  They are written as one function of the routine and its       *)
(* arguments, which their parts are given as mul: widening_mul_fixed and   *)
(* wrapping_mul_fixed, of arrays, and UintRef::wrapping_mul, of slices.    *)
(***************************************************************************)
widening(mul, x, xn, y, yn, max) == mul["widening", x, xn, y, yn, 0, 0, FALSE, max]
wrapping(mul, x, xn, y, yn, max) == mul["wrapping", x, xn, y, yn, 0, 0, FALSE, max]
ref(mul, x, xn, y, yn, out, on, add, max) == mul["ref", x, xn, y, yn, out, on, add, max]

\* Slip: the carries of x0 + x1 and of y0 + y1 do not meet.
both_carries_dropped(xc, yc) == 0

both_carries(xc, yc) == xc * yc

\* widening_mul_fixed's reduce, of the products z0 = x0 * y0, z2 = x1 * y1 and z1
\* of the lower halves of l0 = x0 + x1 and l1 = y0 + y1.  s is the pair (s0, s1)
\* of half-size integers; the carries and borrows that leave it are summed modulo
\* B, a borrow being MAX, and added to the highest quarter.
widening_combine(z0, z1, z2, l0, l1, half) ==
    LET xc == High(l0, half)
        yc == High(l1, half)
        AddHigh(s, v) == s + v * W[half]
        s1 == High(z0, half) + Low(z2, half) * W[half] + z1
        s2 == AddHigh(Low(s1, 2 * half), IF yc # 0 THEN Low(l0, half) ELSE 0)
        s3 == AddHigh(Low(s2, 2 * half), IF xc # 0 THEN Low(l1, half) ELSE 0)
        s4 == Low(s3, 2 * half) - z0
        s5 == (s4 % W[2 * half]) - z2
        carry == (High(s1, 2 * half) + High(s2, 2 * half) + High(s3, 2 * half)
                    + both_carries(xc, yc) + Mask(s4 < 0) + Mask(s5 < 0)) % B
    IN  Low(z0, half) + (s5 % W[2 * half]) * W[half]
          + ((High(z2, half) + carry) % W[half]) * W[3 * half]

\* (x0, x1) times (y0, y1) with three products of half the size.
widening_reduce(mul, x, y, half, max) ==
    LET x0 == Low(x, half)
        x1 == High(x, half)
        y0 == Low(y, half)
        y1 == High(y, half)
    IN  widening_combine(
            widening(mul, x0, half, y0, half, max),
            widening(mul, Low(x0 + x1, half), half, Low(y0 + y1, half), half, max),
            widening(mul, x1, half, y1, half, max),
            x0 + x1, y0 + y1, half)

\* The product z of x with as many limbs of y, to which the rest of y is added.
widening_tail(mul, z, x, xn, y, yn, max) ==
    Low(z, xn) + W[xn] * ref(mul, x, xn, High(y, xn), yn - xn, High(z, xn), yn,
                                          TRUE, max)[1]

widening_mul_fixed(mul, x, xn, y, yn, max) ==
    CASE xn < MIN_STARTING_LIMBS \/ yn < MIN_STARTING_LIMBS -> x * y
      [] xn >= MIN_STARTING_LIMBS /\ yn = xn ->
           IF xn \in Arms(max) THEN widening_reduce(mul, x, y, xn \div 2, max)
           ELSE ref(mul, x, xn, y, yn, 0, 2 * xn, FALSE, max)[1]
      [] xn >= MIN_STARTING_LIMBS /\ xn < yn ->
           widening_tail(mul, widening(mul, x, xn, Low(y, xn), xn, max), x, xn, y, yn, max)
      [] OTHER -> widening(mul, y, yn, x, xn, max)

\* wrapping_mul_fixed's reduce: one full product and two lower halves.
wrapping_combine(z0, z1, z2, half) ==
    LET a1 == High(z0, half) + z1[1]
        a2 == Low(a1, half) + z2[1]
    IN  <<Low(z0, half) + Low(a2, half) * W[half],
          (z1[2] + z2[2] + High(a1, half) + High(a2, half)) % B>>

wrapping_reduce(mul, x, y, half, max) ==
    wrapping_combine(
        widening(mul, Low(x, half), half, Low(y, half), half, max),
        wrapping(mul, Low(x, half), half, Slice(y, half, half), half, max),
        wrapping(mul, High(x, half), half, Low(y, half), half, max),
        half)

\* The product modulo W[xn] and a carry limb.
wrapping_mul_fixed(mul, x, xn, y, yn, max) ==
    CASE xn < MIN_STARTING_LIMBS \/ yn < MIN_STARTING_LIMBS ->
           Split(CutProduct(x, xn, y, xn, 0), xn)
      [] xn >= MIN_STARTING_LIMBS /\ xn <= yn /\ xn \in Arms(max) ->
           wrapping_reduce(mul, x, y, xn \div 2, max)
      [] OTHER -> ref(mul, x, xn, y, yn, 0, xn, FALSE, max)

\* wrapping_mul's reduce when the output is no longer than x: the highest n
\* limbs of x that matter meet the lowest of y, z1, then the rest of x is added.
short_top(z1, out, on, add, n) ==
    LET top == z1[1] + (IF add THEN High(out, on - n) ELSE 0)
    IN  <<Low(out, on - n) + Low(top, n) * W[on - n], (z1[2] + High(top, n)) % B>>

short_rest(mul, put, x0, y, yn, on, n, max) ==
    IF on = n THEN put
    ELSE LET rest == ref(mul, x0, on - n, y, yn, put[1], on, TRUE, max)
         IN  <<rest[1], (put[2] + rest[2]) % B>>

reduce_short(mul, x, y, yn, out, on, add, n, max) ==
    short_rest(mul,
        short_top(wrapping(mul, Slice(x, on - n, n), n, Low(y, n), n, max),
                  out, on, add, n),
        Low(x, on - n), y, yn, on, n, max)

\* wrapping_mul's reduce when the output is longer than x: the lowest n limbs of
\* both, then the rest of x with all of y, then the rest of y with the lowest n
\* limbs of x.  Each is added above the n lowest limbs of z, the pair of the
\* output and the carry so far.  The highest limbs of out are only ever added to.
long_first(mul, x, y, out, on, add, n, max) ==
    LET kept == IF add THEN out ELSE out - Low(out, Min2(2 * n, on))
    IN  Split(IF on < 2 * n THEN CutProduct(Low(x, n), n, Low(y, n), on, kept)
              ELSE kept + widening(mul, Low(x, n), n, Low(y, n), n, max),
              on)

long_x1(mul, z, x1, x1n, y, yn, on, n, max) ==
    IF x1n = 0 THEN z
    ELSE LET r == ref(mul, x1, x1n, y, yn, High(z[1], n), on - n, TRUE, max)
         IN  <<Low(z[1], n) + r[1] * W[n], (z[2] + r[2]) % B>>

long_y1(mul, z, x0, y1, y1n, on, n, max) ==
    IF y1n = 0 THEN z
    ELSE LET size == Min2(y1n + n, on - n)
             r    == ref(mul, y1, y1n, x0, n, Slice(z[1], n, size), size, TRUE, max)
             tail == High(z[1], n + size) + r[2]
         IN  <<Low(z[1], n) + (r[1] + Low(tail, on - n - size) * W[size]) * W[n],
               (z[2] + High(tail, on - n - size)) % B>>

reduce_long(mul, x, xn, y, yn, out, on, add, n, max) ==
    LET ylen == Min2(yn, on)
    IN  long_y1(mul, long_x1(mul, long_first(mul, x, y, out, on, add, n, max),
                        High(x, n), xn - n, y, yn, on, n, max),
                Low(x, n), Slice(y, n, ylen - n), ylen - n, on, n, max)

\* UintRef::wrapping_mul: the pair of the buffer out, of on limbs, and a carry.
wrapping_mul_ref(mul, x, xn, y, yn, out, on, add, max) ==
    LET split == Min2(previous_power_of_2(Min2(Min2(xn, yn), on)), max)
    IN  CASE ~ Assert(xn + yn >= on, "invalid arguments to wrapping_mul") -> <<>>
          [] split < MIN_STARTING_LIMBS -> Split(CutProduct(x, xn, y, on, out), on)
          [] split >= MIN_STARTING_LIMBS /\ on <= xn ->
               reduce_short(mul, x, y, yn, out, on, add, split, max)
          [] OTHER -> reduce_long(mul, x, xn, y, yn, out, on, add, split, max)

\* The three routines, which call one another.
Recursive == {"widening", "wrapping", "ref"}

mul[op \in Recursive, x, xn, y, yn, out, on \in Nat, add \in BOOLEAN, max \in Nat] ==
    CASE op = "widening" -> widening_mul_fixed(mul, x, xn, y, yn, max)
      [] op = "wrapping" -> wrapping_mul_fixed(mul, x, xn, y, yn, max)
      [] op = "ref"      -> wrapping_mul_ref(mul, x, xn, y, yn, out, on, add, max)

\* Squares in the same way.
square_wide(square, x, n, max)         == square["widening", x, n, 0, 0, max]
square_ref(square, x, xn, out, on, max) == square["ref", x, xn, out, on, max]

\* widening_square_fixed's reduce: two squares and twice one product.
square_combine(z0, z1, z2, half) ==
    LET s     == Low(z1, 2 * half) + High(z0, half) + Low(z2, half) * W[half]
        carry == High(z1, 2 * half) + High(s, 2 * half)
    IN  Low(z0, half) + Low(s, 2 * half) * W[half]
          + ((High(z2, half) + carry) % W[half]) * W[3 * half]

square_reduce(square, x, half, max) ==
    square_combine(
        square_wide(square, Low(x, half), half, max),
        2 * widening(mul, Low(x, half), half, High(x, half), half, max),
        square_wide(square, High(x, half), half, max),
        half)

widening_square_fixed(square, x, n, max) ==
    CASE n < MIN_STARTING_LIMBS -> x * x
      [] n >= MIN_STARTING_LIMBS /\ n \in Arms(max) -> square_reduce(square, x, n \div 2, max)
      [] OTHER -> square_ref(square, x, n, 0, 2 * n, max)[1]

\* wrapping_square's reduce with at most n limbs above the lowest n: z0 is the
\* square of the lowest n limbs x0, z1 twice what fits of x0 * x1.
square_short(z0, z1, on, n) ==
    LET mid == (High(z0, n) + Low(z1, n)) % W[n]
    IN  <<Low(z0, n) + Low(mid, on - n) * W[n],
          IF on = 2 * n THEN 0 ELSE Limb(mid, on - n)>>

\* With more: z2 is the square of x1, above which twice x0 * x1 is added, the
\* bit shifted out of 2 * x0 as a conditional addition of x1.
square_add(z0, z2, x0, x1, x1n, on, n, max) ==
    LET len == Min2(on - 2 * n, x1n)
        add == Low(z2[1], len) + (IF High(2 * x0, n) # 0 THEN Low(x1, len) ELSE 0)
        z1  == ref(mul, Low(2 * x0, n), n, x1, x1n,
                                High(z0, n) + Low(add, len) * W[n], n + len, TRUE, max)
        tail == High(z2[1], len) + ((High(add, len) + z1[2]) % B)
    IN  <<Low(z0, n) + (z1[1] + Low(tail, on - 2 * n - len) * W[n + len]) * W[n],
          (High(tail, on - 2 * n - len) + z2[2]) % B>>

reduce_square(square, x, xn, out, on, n, max) ==
    LET x0 == Low(x, n)
        x1 == High(x, n)
    IN  IF on - n <= n
        THEN square_short(square_wide(square, x0, n, max),
                          2 * wrapping(mul, x0, n, x1, xn - n, max)[1], on, n)
        ELSE square_add(square_wide(square, x0, n, max),
                        square_ref(square, x1, xn - n, High(out, 2 * n), on - 2 * n, max),
                        x0, x1, xn - n, on, n, max)

\* The limbs of x that do not matter are dropped; a part of the output is split
\* off that is less than all of x and not so large that little remains.
wrapping_square(square, x, xn, out, on, max) ==
    LET n     == Min2(xn, on)
        pow2  == previous_power_of_2(on)
        split == IF pow2 > n \/ 2 * pow2 >= on + MIN_STARTING_LIMBS THEN pow2 \div 2
                                                                   ELSE pow2
    IN  CASE ~ Assert(on <= 2 * xn, "invalid arguments to wrapping_square") -> <<>>
          [] n <= MIN_STARTING_LIMBS -> Split(CutSquare(Low(x, n), n, on), on)
          [] OTHER -> reduce_square(square, Low(x, n), n, out, on, Min2(split, max), max)

square[op \in {"widening", "ref"}, x \in Nat, xn \in Nat, out \in Nat, on \in Nat, max \in Nat] ==
    CASE op = "widening" -> widening_square_fixed(square, x, xn, max)
      [] op = "ref"      -> wrapping_square(square, x, xn, out, on, max)
----------------------------------------------------------------------------
\* The product and its overflow: Uint::overflowing_mul multiplies with
\* wrapping_mul_fixed, BoxedUint's into a new buffer.
overflowing_mul(form, x, xn, y, yn, max) ==
    LET r == IF form = "fixed" THEN wrapping(mul, x, xn, y, yn, max)
                               ELSE ref(mul, x, xn, y, yn, 0, xn, FALSE, max)
    IN  <<r[1], check_mul_overflow(x, xn, y, r[2] # 0)>>

overflowing_square(x, xn, max) ==
    LET r == square_ref(square, x, xn, 0, xn, max)
    IN  <<r[1], check_mul_overflow(x, xn, x, r[2] # 0)>>

\* widening_mul and concatenating_mul, of Uint and of BoxedUint.
wide_mul(form, x, xn, y, yn, max) ==
    IF form = "fixed" THEN widening(mul, x, xn, y, yn, max)
                      ELSE ref(mul, x, xn, y, yn, 0, xn + yn, FALSE, max)[1]

wide_square(form, x, xn, max) ==
    IF form = "fixed" THEN square_wide(square, x, xn, max)
                      ELSE square_ref(square, x, xn, 0, 2 * xn, max)[1]
----------------------------------------------------------------------------
Routines == {"wide", "wrapping", "checked", "saturating", "operator"}

\* A call of an operand of xn limbs with one of yn, with itself when square.
\* Through UintRef the output has any length, and holds zeros.
Calls ==
    UNION {[routine : Routines, form : {"fixed", "boxed"}, square : {FALSE},
            x : Values(xn), xn : {xn}, y : Values(yn), yn : {yn}, on : {xn},
            max : {2, 4}] : xn \in Sizes, yn \in Sizes}
    \cup
    UNION {[routine : {"ref"}, form : {"ref"}, square : {FALSE},
            x : Values(xn), xn : {xn}, y : Values(yn), yn : {yn}, on : 1..(xn + yn),
            max : {2, 4}] : xn \in Sizes, yn \in Sizes}
    \cup
    UNION {[routine : Routines \ {"operator"}, form : {"fixed", "boxed"}, square : {TRUE},
            x : Values(n), xn : {n}, y : {0}, yn : {n}, on : {n}, max : {2, 4}]
            : n \in Sizes}
    \cup
    UNION {[routine : {"ref"}, form : {"ref"}, square : {TRUE},
            x : Values(n), xn : {n}, y : {0}, yn : {n}, on : 1..(2 * n), max : {2, 4}]
            : n \in Sizes}

Init == call \in Calls /\ pc = "call" /\ res = <<>>

Multiply ==
    /\ pc = "call" /\ ~call.square
    /\ LET c == call
       IN  res' = CASE c.routine = "wide" -> <<wide_mul(c.form, c.x, c.xn, c.y, c.yn, c.max)>>
                    [] c.routine = "ref" ->
                         <<ref(mul, c.x, c.xn, c.y, c.yn, 0, c.on, FALSE, c.max)[1]>>
                    [] OTHER -> Answered(c.routine,
                                  overflowing_mul(c.form, c.x, c.xn, c.y, c.yn, c.max), c.xn)
    /\ pc' = "done" /\ UNCHANGED call

Square ==
    /\ pc = "call" /\ call.square
    /\ LET c == call
       IN  res' = CASE c.routine = "wide" -> <<wide_square(c.form, c.x, c.xn, c.max)>>
                    [] c.routine = "ref" ->
                         <<square_ref(square, c.x, c.xn, 0, c.on, c.max)[1]>>
                    [] OTHER -> Answered(c.routine, overflowing_square(c.x, c.xn, c.max), c.xn)
    /\ pc' = "done" /\ UNCHANGED call

Next == Multiply \/ Square
----------------------------------------------------------------------------
\* The product in full, or as the routine says when it does not fit.
ResultCorrect ==
    pc = "done" =>
    LET xy  == call.x * (IF call.square THEN call.x ELSE call.y)
        fit == xy < W[call.xn]
    IN  res = CASE call.routine = "wide"       -> <<xy>>
                [] call.routine = "ref"        -> <<xy % W[call.on]>>
                [] call.routine = "wrapping"   -> <<xy % W[call.xn]>>
                [] call.routine = "saturating" -> <<IF fit THEN xy ELSE W[call.xn] - 1>>
                [] OTHER                       -> IF fit THEN <<xy>> ELSE <<>>
============================================================================
