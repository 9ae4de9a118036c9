----------------------------- MODULE Schoolbook -----------------------------
(***************************************************************************)
(* Schoolbook multiplication and squaring                                  *)
(* (src/src/uint/mul/schoolbook.rs), one step per row.  A pair of buffers  *)
(* (lo, hi) is one integer, lo below hi: the code addresses limb k of it   *)
(* as lo[k] or hi[k - lo.len()].                                           *)
(***************************************************************************)
EXTENDS Bits

CONSTANTS Values(_),     \* the operands of n limbs
          Sizes          \* the numbers of limbs of an operand

VARIABLES
    call,      \* the routine, its operands and the buffer it is handed
    out,       \* the buffer
    i,         \* the row, in the last loop of wrapping_square the limb
    carry,     \* the meta carry of wrapping_mul_add, the carry of the last loop
    hi_bit,    \* the bit shifted out of the limb below
    pc, res

vars == <<call, out, i, carry, hi_bit, pc, res>>

MulWideCalls ==
    UNION {[routine : {"mul_wide"}, x : Values(s[1]), xn : {s[1]},
            y : Values(s[2]), yn : {s[2]}, out : {0}, on : {s[1] + s[2]}]
             : s \in Sizes \X Sizes}

\* At one buffer length of a product of xn and yn limbs a carry leaves at the
\* top, at another it is added within.
WrappingMulCalls ==
    UNION {[routine : {"wrapping_mul_add"}, x : Values(s[1]), xn : {s[1]},
            y : Values(s[2]), yn : {s[2]},
            out : {0, W[s[3]] - 1, W[s[3]] \div 2}, on : {s[3]}]
             : s \in {s \in Sizes \X Sizes \X (1..N) : s[3] <= s[1] + s[2]}}

SquareWideCalls ==
    UNION {[routine : {"square_wide"}, x : Values(n), xn : {n},
            y : {0}, yn : {n}, out : {0}, on : {2 * n}] : n \in Sizes}

WrappingSquareCalls ==
    UNION {[routine : {"wrapping_square"}, x : Values(n), xn : {n},
            y : {0}, yn : {n}, out : {0}, on : 1..(2 * n)] : n \in Sizes}

Calls == MulWideCalls \cup WrappingMulCalls \cup SquareWideCalls \cup WrappingSquareCalls

\* The operands have limbs, a weight for each limb of a product, and no more
\* than their limbs hold.
ArgumentsFit == \A n \in Sizes : n \in 1..N /\ Values(n) \subseteq 0..(W[n] - 1)

IsSquare == call.routine \in {"square_wide", "wrapping_square"}

Init == /\ call \in Calls
        /\ out = call.out
        /\ i = IF IsSquare THEN 1 ELSE 0
        /\ carry = 0 /\ hi_bit = 0
        /\ pc = "rows" /\ res = <<>>

\* Adds xi times the len lowest limbs of y to z from limb at on; the carry is
\* not stored.
MulAddRow(z, xi, y, len, at) ==
    LET row[j \in 0..len] ==
          IF j = 0 THEN <<z, 0>>
          ELSE LET p == row[j - 1]
                   m == carrying_mul_add(xi, Limb(y, j - 1), Limb(p[1], at + j - 1), p[2])
               IN  <<SetLimb(p[1], at + j - 1, m[1]), m[2]>>
    IN  row[len]

\* mul_wide; the carry of the row is stored over limb i + yn, still zero.
MulWideRow ==
    /\ call.routine = "mul_wide" /\ pc = "rows" /\ i < call.xn
    /\ LET r == MulAddRow(out, Limb(call.x, i), call.y, call.yn, i)
       IN  out' = SetLimb(r[1], i + call.yn, r[2])
    /\ i' = i + 1
    /\ UNCHANGED <<call, carry, hi_bit, pc, res>>

\* Slip: the carry that leaves the buffer replaces those of the rows before.
meta_carry_replaced(meta, c) == c

meta_carry_added(meta, c) == wrapping_add(meta, c)

\* wrapping_mul_add; a row that does not reach the end of the buffer adds its
\* carry and the one of the row before to the limb above it.
WrappingMulRow ==
    /\ call.routine = "wrapping_mul_add" /\ pc = "rows" /\ i < call.xn
    /\ LET room == IF i < call.on THEN call.on - i ELSE 0
           len  == IF room < call.yn THEN room ELSE call.yn
           r    == MulAddRow(out, Limb(call.x, i), call.y, len, i)
           top  == carrying_add(Limb(r[1], i + len), r[2], carry)
       IN  IF i + len >= call.on
           THEN out' = r[1] /\ carry' = meta_carry_added(carry, r[2])
           ELSE out' = SetLimb(r[1], i + len, top[1]) /\ carry' = top[2]
    /\ i' = i + 1
    /\ UNCHANGED <<call, hi_bit, pc, res>>

MulReturn ==
    /\ ~IsSquare /\ pc = "rows" /\ i = call.xn
    /\ pc' = "done" /\ res' = <<out, carry>>
    /\ UNCHANGED <<call, out, i, carry, hi_bit>>

\* The products of two different limbs, below the diagonal, of square_wide and
\* of wrapping_square, which stops at the end of the buffer.
SquareRow ==
    /\ IsSquare /\ pc = "rows" /\ i < call.xn
    /\ LET room == IF i < call.on THEN call.on - i ELSE 0
           len  == IF room < i THEN room ELSE i
           r    == MulAddRow(out, Limb(call.x, i), call.x, len, i)
       IN  out' = IF i + len < call.on THEN SetLimb(r[1], i + len, r[2]) ELSE r[1]
    /\ i' = i + 1
    /\ UNCHANGED <<call, carry, hi_bit, pc, res>>

\* square_wide: the rows are doubled; the bit that leaves limb 2n - 2 is stored
\* over the highest limb, still zero.
Double ==
    /\ call.routine = "square_wide" /\ pc = "rows" /\ i = call.xn
    /\ out' = 2 * (out % W[call.on - 1])
    /\ i' = 0 /\ pc' = "diagonal"
    /\ UNCHANGED <<call, carry, hi_bit, res>>

\* square_wide: the square of limb i; its carry goes into the limb above.
Diagonal ==
    /\ call.routine = "square_wide" /\ pc = "diagonal" /\ i < call.xn
    /\ LET xi  == Limb(call.x, i)
           sq  == carrying_mul_add(xi, xi, Limb(out, 2 * i), carry)
           top == overflowing_add(Limb(out, 2 * i + 1), sq[2])
       IN  /\ out' = SetLimb(SetLimb(out, 2 * i, sq[1]), 2 * i + 1, top[1])
           /\ carry' = top[2]
    /\ i' = i + 1
    /\ UNCHANGED <<call, hi_bit, pc, res>>

\* wrapping_square: the limb loop starts.
StartLimbs ==
    /\ call.routine = "wrapping_square" /\ pc = "rows" /\ i >= call.xn
    /\ i' = 0 /\ pc' = "diagonal"
    /\ UNCHANGED <<call, out, carry, hi_bit, res>>

\* wrapping_square: limb i is doubled and, when i is even, given a square.
SquareLimb ==
    /\ call.routine = "wrapping_square" /\ pc = "diagonal" /\ i < call.on
    /\ LET limb == ((2 * Limb(out, i)) % B) + hi_bit
           xi   == Limb(call.x, i \div 2)
           sum  == IF i % 2 = 0 THEN carrying_mul_add(xi, xi, limb, carry)
                                ELSE overflowing_add(limb, carry)
       IN  out' = SetLimb(out, i, sum[1]) /\ carry' = sum[2]
    /\ hi_bit' = Limb(out, i) \div HalfB
    /\ i' = i + 1
    /\ UNCHANGED <<call, pc, res>>

SquareReturn ==
    /\ pc = "diagonal" /\ i = IF call.routine = "square_wide" THEN call.xn ELSE call.on
    /\ pc' = "done"
    /\ res' = <<out, wrapping_add(carry, hi_bit)>>
    /\ UNCHANGED <<call, out, i, carry, hi_bit>>

Next == \/ MulWideRow \/ WrappingMulRow \/ MulReturn
        \/ SquareRow \/ Double \/ Diagonal
        \/ StartLimbs \/ SquareLimb \/ SquareReturn

Spec == Init /\ [][Next]_vars
----------------------------------------------------------------------------
\* After every row the buffer, together with the carry not yet stored, holds
\* the rows done so far and what it held before; at most one bit of carry is
\* pending inside the buffer.  In the squares, the part already doubled has
\* been given the squares that belong to it.
RowsExact ==
    pc # "done" =>
    CASE call.routine = "mul_wide" -> out = (call.x % W[i]) * call.y
      [] call.routine = "wrapping_mul_add" ->
           LET at == Min2(i + call.yn, call.on)
           IN  /\ at < call.on => carry \in {0, 1}
               /\ (out + carry * W[at]) % W[call.on + 1]
                    = (call.out + CutRows(call.x, call.y, call.on, i)) % W[call.on + 1]
      [] call.routine = "square_wide" /\ pc = "rows" ->
           out = CrossRows(call.x, i)
      [] call.routine = "square_wide" /\ pc = "diagonal" ->
           out + carry * W[2 * i]
             = 2 * CrossRows(call.x, call.xn) + DiagonalSquares(call.x, 0, i)
      [] call.routine = "wrapping_square" /\ pc = "rows" ->
           out = CrossRows(call.x, i) % W[call.on]
      [] OTHER ->
           LET above == out - (out % W[i])
           IN  ((out % W[i]) + (carry + hi_bit) * W[i] + 2 * above
                  + DiagonalSquares(call.x, Min2((i + 1) \div 2, call.xn), call.xn)) % W[call.on]
                 = (call.x * call.x) % W[call.on]

\* The buffer and the carry are those of the sum of the rows cut off at the end
\* of the buffer, and the buffer holds the product or square modulo its length.
ResultCorrect ==
    pc = "done" =>
    LET xy == call.x * (IF IsSquare THEN call.x ELSE call.y)
    IN  /\ res = Split(IF IsSquare THEN CutSquare(call.x, call.xn, call.on)
                       ELSE CutProduct(call.x, call.xn, call.y, call.on, call.out),
                       call.on)
        /\ res[1] = (call.out + xy) % W[call.on]
        /\ call.on = call.xn + call.yn => res[2] = (call.out + xy) \div W[call.on]
============================================================================
