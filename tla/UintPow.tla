------------------------------- MODULE UintPow -------------------------------
(***************************************************************************)
(* Powers of unsigned integers (src/src/uint/pow.rs,                       *)
(* src/src/uint/boxed/pow.rs): square and multiply from the highest bit of *)
(* the exponent down, one step per bit.  BoxedUint multiplies through a    *)
(* BoxedMultiplier (src/src/uint/boxed/mul/helper.rs), whose buffer is     *)
(* kept from one product to the next.                                      *)
(***************************************************************************)
EXTENDS Bits

CONSTANTS Values(_), Sizes,   \* the integers
          ExpSizes            \* the limbs of an exponent, which has any value

VARIABLES
    call,       \* the routine, its form, its arguments
    ret,        \* the power so far
    product,    \* BoxedMultiplier's buffer
    pos,        \* the limbs of the exponent left and the bits left in the highest
    overflow,
    pc, res

vars == <<call, ret, product, pos, overflow, pc, res>>

ExpBITS(en) == bits_precision(en)

\* exp_bits is an argument of the routines in constant time.
Calls ==
    UNION {[routine : {"wrapping", "checked", "saturating"}, form : {"fixed", "boxed"},
            vartime : {FALSE}, self : Values(n), n : {n}, exp : 0..(W[en] - 1), en : {en},
            exp_bits : {0, 1, ExpBITS(en) - 1, ExpBITS(en), ExpBITS(en) + 1}]
             : n \in Sizes, en \in ExpSizes}
    \cup
    UNION {[routine : {"wrapping", "checked", "saturating"}, form : {"fixed", "boxed"},
            vartime : {TRUE}, self : Values(n), n : {n}, exp : 0..(W[en] - 1), en : {en},
            exp_bits : {0}] : n \in Sizes, en \in ExpSizes}

Init == /\ call \in Calls
        /\ ret = 0 /\ product = 0 /\ pos = <<0, 0>> /\ overflow = FALSE
        /\ pc = "call" /\ res = <<>>

\* Before the loops: the limbs that hold k bits and the bits in the highest.
Position(k) == LET limbs == to_limbs(k)
               IN  <<limbs, k - (IF limbs = 0 THEN 0 ELSE limbs - 1) * WordBits>>

\* `assert!(exp_bits <= BITS)`
Panic ==
    /\ pc = "call" /\ ~call.vartime /\ call.exp_bits > ExpBITS(call.en)
    /\ pc' = "done"
    /\ UNCHANGED <<call, ret, product, pos, overflow, res>>

\* In constant time from one and all exp_bits; in variable time from the
\* integer itself, its highest bit done.
Start ==
    /\ pc = "call" /\ (call.vartime \/ call.exp_bits <= ExpBITS(call.en))
    /\ pc' = "loop"
    /\ IF call.vartime /\ call.exp # 0
       THEN ret' = call.self /\ pos' = Position(bits(call.exp) - 1)
       ELSE ret' = 1 /\ pos' = IF call.vartime THEN <<0, 0>> ELSE Position(call.exp_bits)
    /\ UNCHANGED <<call, product, overflow, res>>

\* Slip: the buffer keeps the product before.
buffer_kept(buf) == buf

\* BoxedMultiplier::get_buffer: cleared, then filled with zeros.
get_buffer(buf) == 0

\* Uint multiplies into a new array.
Buffer(buf) == IF call.form = "fixed" THEN 0 ELSE get_buffer(buf)

\* What the schoolbook routines leave in such a buffer, and whether the product
\* overflows.
Mul(lhs, rhs, n, buf) ==
    LET r == Split(CutProduct(lhs, n, rhs, n, Buffer(buf)), n)
    IN  <<r[1], check_mul_overflow(lhs, n, rhs, r[2] # 0)>>

Square(lhs, n, buf) ==
    LET r == Split(2 * Buffer(buf) + CutSquare(lhs, n, n), n)
    IN  <<r[1], check_mul_overflow(lhs, n, lhs, r[2] # 0)>>

\* One bit: the square, and the product if the bit is set.
Step ==
    /\ pc = "loop" /\ pos[1] > 0
    /\ LET bit    == (Limb(call.exp, pos[1] - 1) \div 2 ^ (pos[2] - 1)) % 2
           square == Square(ret, call.n, product)
           mul    == Mul(square[1], call.self, call.n, square[1])
           apply  == bit = 1
       IN  /\ ret' = IF apply THEN mul[1] ELSE square[1]
           /\ overflow' = (overflow \/ square[2] \/ (apply /\ mul[2]))
           /\ product' = IF call.form = "fixed" THEN 0
                         ELSE IF apply \/ ~call.vartime THEN mul[1] ELSE square[1]
    /\ pos' = IF pos[2] > 1 THEN <<pos[1], pos[2] - 1>> ELSE <<pos[1] - 1, WordBits>>
    /\ UNCHANGED <<call, pc, res>>

Finished ==
    /\ pc = "loop" /\ pos[1] = 0
    /\ pc' = "done"
    /\ res' = Answered(call.routine, <<ret, overflow>>, call.n)
    /\ UNCHANGED <<call, ret, product, pos, overflow>>

Next == Panic \/ Start \/ Step \/ Finished
----------------------------------------------------------------------------
\* self^e modulo W[n] and whether it is W[n] or more.
Power(self, e, n) ==
    LET capped[k \in 0..e] ==
          IF k = 0 THEN <<1 % W[n], FALSE>>
          ELSE LET p == capped[k - 1]
               IN  <<(p[1] * self) % W[n], (p[2] /\ self # 0) \/ p[1] * self >= W[n]>>
    IN  capped[e]

Exponent == IF call.vartime THEN call.exp ELSE call.exp % 2 ^ call.exp_bits

\* The power by the bits of the exponent already done, and whether it overflows.
PowerTracks ==
    pc = "loop" =>
    LET left == IF pos[1] = 0 THEN 0 ELSE (pos[1] - 1) * WordBits + pos[2]
    IN  <<ret, overflow>> = Power(call.self, Exponent \div 2 ^ left, call.n)

\* The power, and for what does not fit none or the greatest integer.
ResultCorrect ==
    pc = "done" =>
    IF ~call.vartime /\ call.exp_bits > ExpBITS(call.en) THEN res = <<>>
    ELSE res = Answered(call.routine, Power(call.self, Exponent, call.n), call.n)
============================================================================
