----------------------------- MODULE RandomMod -----------------------------
(***************************************************************************)
(* Random integers: below a modulus by rejection (RandomMod for Uint,      *)
(* BoxedUint and Limb), of a bit length (RandomBits), not zero (NonZero)   *)
(* and odd (Odd), of src/src/uint/rand.rs, src/src/uint/boxed/rand.rs,     *)
(* src/src/limb/rand.rs, src/src/non_zero.rs and src/src/odd.rs.           *)
(*                                                                         *)
(* What the generator fills a buffer with is any sequence of bytes, or it  *)
(* fails.  One draw is one step.                                           *)
(***************************************************************************)
EXTENDS Bits, FiniteSets

CONSTANTS
    ByteBits,           \* u8::BITS
    Moduli, RandLimbs,  \* moduli (those that fit), and the limbs of the integer
    BitLengths, RandPrecisions   \* arguments of RandomBits

VARIABLES
    routine,      \* "mod", "mod_limb", "bits", "bits_boxed", "nonzero" or "odd"
    lhs, rhs,     \* the modulus or the bit length, and [n, p]: limbs, precision
    x,            \* the integer that is drawn into, its bytes the buffer
    pc,           \* "enter", "draw" or "done"
    res           \* <<"ok", value, limbs>> or <<"error", kind>>

vars == <<routine, lhs, rhs, x, pc, res>>
args == <<routine, lhs, rhs>>

Rejecting == {"mod", "mod_limb", "nonzero"}

No == <<"none">>
limbs_of == IF routine \in {"bits_boxed", "odd_boxed"}
            THEN IF to_limbs(rhs.p) = 0 THEN 1 ELSE to_limbs(rhs.p)
            ELSE rhs.n

\* The bits that are drawn.
n_bits == CASE routine \in {"mod", "mod_limb"} -> bits(lhs)
            [] routine \in {"bits", "bits_boxed", "odd_boxed"} -> lhs
            [] routine \in {"nonzero", "odd"} -> bits_precision(rhs.n)

n_bytes == (n_bits + ByteBits - 1) \div ByteBits
Draws   == 0..(2 ^ (n_bytes * ByteBits) - 1)

\* Slip: the mask lets no bit of a highest byte through that is full.
hi_mask_unwrapped(bytes) == bytes % 2 ^ ((n_bytes - 1) * ByteBits + (n_bits % ByteBits))

\* The mask of the highest byte that is drawn.
hi_mask(bytes) ==
    bytes % 2 ^ ((n_bytes - 1) * ByteBits
                  + (ByteBits - ((ByteBits - (n_bits % ByteBits)) % ByteBits)))

\* The bytes that are drawn replace the lowest of the buffer; none for no bits.
random_bits_core(draw) ==
    IF n_bits = 0 THEN x
    ELSE LET drawn == 2 ^ (n_bytes * ByteBits) IN hi_mask(draw) + (x \div drawn) * drawn

Rejected(v) == CASE routine \in {"mod", "mod_limb"} -> v >= lhs
                 [] routine = "nonzero" -> v = 0
                 [] OTHER -> FALSE

\* Random odd integers have their lowest bit set.
Output(v) == IF routine \in {"odd", "odd_boxed"} THEN v + 1 - (v % 2) ELSE v

Rhs(n, p) == [n |-> n, p |-> p]
Init ==
    /\ \/ /\ routine \in {"mod", "mod_limb"} /\ lhs \in Moduli \ {0}
          /\ rhs \in {Rhs(n, 0) : n \in RandLimbs}
          /\ lhs < W[rhs.n] /\ (routine = "mod_limb" => rhs.n = 1)
       \/ /\ routine \in {"bits", "bits_boxed"} /\ lhs \in BitLengths
          /\ rhs \in {Rhs(n, p) : n \in RandLimbs, p \in RandPrecisions}
          /\ routine = "bits_boxed" => rhs.n = 1
       \/ /\ routine = "odd_boxed" /\ lhs \in BitLengths
          /\ rhs = Rhs(1, lhs)
       \/ /\ routine \in {"nonzero", "odd"} /\ lhs = 0
          /\ rhs \in {Rhs(n, 0) : n \in RandLimbs}
    /\ x = 0 /\ pc = "enter" /\ res = No

Return(r) == res' = r /\ pc' = "done"

\* RandomBits fails for lengths that do not fit.
Enter ==
    /\ pc = "enter" /\ UNCHANGED <<args, x>>
    /\ IF routine = "bits" /\ rhs.p # bits_precision(rhs.n)
       THEN Return(<<"error", "BitsPrecisionMismatch">>)
       ELSE IF \/ routine = "bits" /\ lhs > bits_precision(rhs.n)
               \/ routine = "bits_boxed" /\ lhs > rhs.p
       THEN Return(<<"error", "BitLengthTooLarge">>)
       ELSE pc' = "draw" /\ UNCHANGED res

Accept ==
    /\ pc = "draw"
    /\ \E draw \in Draws :
         /\ x' = random_bits_core(draw)
         /\ ~Rejected(x')
         /\ Return(<<"ok", Output(x'), limbs_of>>)
    /\ UNCHANGED args

Reject ==
    /\ pc = "draw"
    /\ \E draw \in Draws : x' = random_bits_core(draw) /\ Rejected(x')
    /\ UNCHANGED <<args, pc, res>>

\* The generator fails, and its error is returned.
RngFails ==
    /\ pc = "draw"
    /\ n_bits # 0
    /\ Return(<<"error", "RandCore">>) /\ UNCHANGED <<args, x>>

Next == Enter \/ Accept \/ Reject \/ RngFails
----------------------------------------------------------------------------
\* After any number of rejections the next draw gives each integer of the bit
\* length for as many contents of the buffer, so that a fair generator makes
\* every result equally likely.
DrawsUniform ==
    pc = "draw" =>
        LET given == [draw \in Draws |-> random_bits_core(draw)]
        IN  /\ \A draw \in Draws : given[draw] \in 0..(2 ^ n_bits - 1)
            /\ \A v \in 0..(2 ^ n_bits - 1) :
                 Cardinality({draw \in Draws : given[draw] = v}) * 2 ^ n_bits = Cardinality(Draws)

ResultCorrect ==
    pc = "done" =>
      IF res[1] = "ok"
      THEN /\ res[2] < W[res[3]]
           /\ CASE routine \in {"mod", "mod_limb"} -> res[2] < lhs
                [] routine \in {"bits", "bits_boxed"} ->
                     res[2] < 2 ^ lhs /\ lhs <= rhs.p /\ (routine = "bits" => rhs.p = bits_precision(rhs.n))
                [] routine = "nonzero" -> res[2] # 0
                [] routine \in {"odd", "odd_boxed"} -> res[2] % 2 = 1
      ELSE CASE res[2] = "BitsPrecisionMismatch" -> rhs.p # bits_precision(rhs.n)
             [] res[2] = "BitLengthTooLarge"     -> lhs > rhs.p
             [] res[2] = "RandCore"              -> TRUE
============================================================================
