------------------------------- MODULE Values -------------------------------
(***************************************************************************)
(* Integers whose number of limbs is chosen when the program runs          *)
(* (src/src/uint/boxed.rs and src/src/uint/boxed/, over                    *)
(* src/src/uint/ref_type.rs) and the wrappers that promise something of an *)
(* integer: NonZero, Odd, Wrapping and Checked (src/src/non_zero.rs,       *)
(* odd.rs, wrapping.rs, checked.rs).  A Uint is the case of equal lengths. *)
(*                                                                         *)
(* The module is a register val on which any sequence of operations is     *)
(* performed, call the one that has returned.  An integer is [n, v], its   *)
(* limbs and its value.                                                    *)
(***************************************************************************)
EXTENDS Bits

CONSTANTS
    ValueLimbs,    \* the longest integer
    Operands(_)    \* the integers of n limbs that the right-hand sides are drawn from

\* Operands fit their limbs.
ArgumentsFit == /\ ValueLimbs \in 1..N
                /\ \A n \in 1..ValueLimbs : Operands(n) \subseteq 0..(W[n] - 1)

VARIABLES
    val,    \* [kind, n, v, some]: the register; some is FALSE for a CtOption that is none
    call,   \* [op, form, lhs, rhs, p, ans, panics]: the operation that has returned
    broken, \* history: 1 for a NonZero or Odd that an unchecked resize has made none
    pc      \* "ready" or "returned"

vars == <<val, call, broken, pc>>

U(v, n) == [v |-> v, n |-> n]
longer(a, b)  == IF a.n >= b.n THEN a.n ELSE b.n
shorter(a, b) == IF a.n <= b.n THEN a.n ELSE b.n
leading(a, k)  == U(a.v % W[k], k)
trailing(a, k) == a.v \div W[k]
Bit(b) == IF b THEN 1 ELSE 0

\* UintRef::fold_limbs and fold_limbs_assign: <<integer of n limbs, carry>>.
fold_limbs(F(_, _, _), a, b, n, carry) ==
    LET loop[i \in 0..n] ==
          IF i = 0 THEN <<0, carry>>
          ELSE LET r == F(Limb(a.v, i - 1), Limb(b.v, i - 1), loop[i - 1][2])
               IN  <<loop[i - 1][1] + r[1] * W[i - 1], r[2]>>
    IN  <<U(loop[n][1], n), loop[n][2]>>

\* BoxedUint::map_limbs.
map_limbs(F(_, _), a, b) ==
    U(FromLimbs([i \in 0..(longer(a, b) - 1) |-> F(Limb(a.v, i), Limb(b.v, i))],
                longer(a, b)), longer(a, b))
----------------------------------------------------------------------------
(* Sums and differences keep the length of the left-hand side, except the  *)
(* carrying ones, which take the greater.                                  *)

boxed_carrying_add(a, b, carry) == fold_limbs(carrying_add, a, b, longer(a, b), carry)

concatenating_add(a, b) ==
    fold_limbs(carrying_add, a, b, to_limbs(bits_precision(longer(a, b)) + 1), 0)

\* The limbs of b beyond those of a can only overflow.
boxed_overflowing_add(a, b) ==
    LET k == shorter(a, b)
        r == boxed_carrying_add(a, leading(b, k), 0)
    IN  <<r[1], r[2] # 0 \/ trailing(b, k) # 0>>

boxed_wrapping_add(a, b) == boxed_carrying_add(a, leading(b, shorter(a, b)), 0)[1]

boxed_borrowing_sub(a, b, borrow) == fold_limbs(borrowing_sub, a, b, longer(a, b), borrow)

boxed_underflowing_sub(a, b) ==
    LET k == shorter(a, b)
        r == boxed_borrowing_sub(a, leading(b, k), 0)
    IN  <<r[1], r[2] # 0 \/ trailing(b, k) # 0>>

boxed_wrapping_sub(a, b) == boxed_borrowing_sub(a, leading(b, shorter(a, b)), 0)[1]

\* wrapping_neg and conditional_wrapping_neg_assign: inverted limbs plus one.
boxed_wrapping_neg(a, choice) ==
    LET neg == fold_limbs(LAMBDA x, y, c : carrying_add(B - 1 - x, 0, c), a, a, a.n, 1)[1]
    IN  IF choice THEN neg ELSE a

\* The product by the routines of Schoolbook and Karatsuba, in n limbs.
boxed_overflowing_mul(a, b, n) == <<U((a.v * b.v) % W[n], n), a.v * b.v >= W[n]>>

boxed_saturating_mul(a, b) ==
    LET r == boxed_overflowing_mul(a, b, a.n)
    IN  IF r[2] THEN U(W[a.n] - 1, a.n) ELSE r[1]

\* Divides by one, and says none, when b is zero.
boxed_checked_div(a, b) == <<U(a.v \div (IF b.v = 0 THEN 1 ELSE b.v), a.n), b.v = 0>>

limb_bit(w, k) == (w \div BitWeight[k]) % 2

\* `&` of two words by their bits; `|` and `^` follow, as x + y counts the bits
\* that both have twice.
limb_bitand(x, y) ==
    LET sum[k \in 0..WordBits] ==
            IF k = 0 THEN 0
            ELSE sum[k - 1] + limb_bit(x, k - 1) * limb_bit(y, k - 1) * BitWeight[k - 1]
    IN  sum[WordBits]
limb_bitor(x, y)  == x + y - limb_bitand(x, y)
limb_bitxor(x, y) == x + y - 2 * limb_bitand(x, y)
limb_not(x)       == WordMAX - x

\* Limb by limb: a BoxedUint takes the greater length, a Uint has only one.
boxed_bitand(a, b) == map_limbs(limb_bitand, a, b)
boxed_bitor(a, b)  == map_limbs(limb_bitor, a, b)
boxed_bitxor(a, b) == map_limbs(limb_bitxor, a, b)
boxed_not(a) == U(FromLimbs([i \in 0..(a.n - 1) |-> limb_not(Limb(a.v, i))], a.n), a.n)

\* |= makes room for the limbs of b first and leaves its own upper limbs alone.
boxed_bitor_assign(a, b) ==
    LET n == longer(a, b)
        limb(i) == IF i < b.n THEN limb_bitor(Limb(a.v, i), Limb(b.v, i)) ELSE Limb(a.v, i)
    IN  U(FromLimbs([i \in 0..(n - 1) |-> limb(i)], n), n)

uint_limbs(F(_, _), a, b) ==
    U(FromLimbs([i \in 0..(a.n - 1) |-> F(Limb(a.v, i), Limb(b.v, i))], a.n), a.n)

uint_bitand(a, b) == uint_limbs(limb_bitand, a, b)
uint_bitor(a, b)  == uint_limbs(limb_bitor, a, b)
uint_bitxor(a, b) == uint_limbs(limb_bitxor, a, b)
uint_not(a)       == uint_limbs(LAMBDA x, y : limb_not(x), a, a)
----------------------------------------------------------------------------
(* Comparisons of integers of any two lengths; an Ordering is -1, 0 or 1.  *)

ref_ct_eq(a, b) ==
    LET k == shorter(a, b)
    IN  leading(a, k) = leading(b, k) /\ trailing(a, k) = 0 /\ trailing(b, k) = 0

\* Slip: a borrow decides although rhs has higher limbs.
ref_cmp_borrow_first(lhs, rhs) ==
    LET k       == shorter(lhs, rhs)
        d       == fold_limbs(borrowing_sub, rhs, lhs, k, 0)
        lesser  == trailing(rhs, k) # 0
        greater == trailing(lhs, k) # 0
        sgn     == IF lsb_to_choice(d[2]) \/ greater THEN 1 ELSE -1
    IN  IF d[1].v # 0 \/ lesser \/ greater THEN sgn ELSE 0

\* The limbs that both have are subtracted, lhs from rhs.
ref_cmp(lhs, rhs) ==
    LET k       == shorter(lhs, rhs)
        d       == fold_limbs(borrowing_sub, rhs, lhs, k, 0)
        lesser  == trailing(rhs, k) # 0
        greater == trailing(lhs, k) # 0
        sgn     == IF (lsb_to_choice(d[2]) /\ ~lesser) \/ greater THEN 1 ELSE -1
    IN  IF d[1].v # 0 \/ lesser \/ greater THEN sgn ELSE 0

\* From the highest limb of the longer one down to the first that decides.
ref_cmp_vartime(lhs, rhs) ==
    LET from_top(a, b) ==
          LET down[i \in 0..a.n] ==
                IF i = 0 THEN 0
                ELSE IF i > b.n /\ Limb(a.v, i - 1) # 0 THEN 1
                ELSE LET d == borrowing_sub(Limb(a.v, i - 1), Limb(b.v, i - 1), 0)
                     IN  IF d[1] = 0 THEN down[i - 1] ELSE IF d[2] # 0 THEN -1 ELSE 1
          IN  down[a.n]
    IN  IF lhs.n < rhs.n THEN -from_top(rhs, lhs) ELSE from_top(lhs, rhs)

ref_lt(lhs, rhs) ==
    LET k == shorter(lhs, rhs)
        borrow == fold_limbs(borrowing_sub, lhs, rhs, k, 0)[2]
    IN  (lsb_to_choice(borrow) /\ trailing(lhs, k) = 0) \/ trailing(rhs, k) # 0

\* What cmp, cmp_vartime, <, > and = answer of a and b.
comparison(a, b) ==
    <<ref_cmp(a, b), ref_cmp_vartime(a, b), Bit(ref_lt(a, b)), Bit(ref_lt(b, a)), Bit(ref_ct_eq(a, b))>>

\* Uint::eq collects the differences of the limbs.
uint_eq(a, b) == uint_bitxor(a, b).v = 0

uint_comparison(a, b) ==
    <<ref_cmp(a, b), ref_cmp_vartime(a, b), Bit(ref_lt(a, b)), Bit(ref_lt(b, a)), Bit(uint_eq(a, b))>>
----------------------------------------------------------------------------
(* Bits of an integer of several limbs, from those of its limbs.           *)

limb_leading_zeros(w)  == WordBits - bits(w)
limb_trailing_zeros(w) == trailing_zeros(w, 1)
limb_trailing_ones(w)  == trailing_zeros(limb_not(w), 1)

\* The limbs in the order f are counted as long as More holds of all before.
count_limbs(Count(_), More(_), f, n) ==
    LET loop[i \in 0..n] ==
          IF i = 0 THEN <<0, TRUE>>
          ELSE LET l == loop[i - 1]
               IN  <<l[1] + (IF l[2] THEN Count(f[i - 1]) ELSE 0), l[2] /\ More(f[i - 1])>>
    IN  loop[n][1]

FromTop(a)    == [i \in 0..(a.n - 1) |-> Limb(a.v, a.n - 1 - i)]
FromBottom(a) == [i \in 0..(a.n - 1) |-> Limb(a.v, i)]

ref_leading_zeros(a)  == count_limbs(limb_leading_zeros, is_zero, FromTop(a), a.n)
ref_trailing_zeros(a) == count_limbs(limb_trailing_zeros, is_zero, FromBottom(a), a.n)
ref_trailing_ones(a)  == count_limbs(limb_trailing_ones, LAMBDA w : w = WordMAX, FromBottom(a), a.n)

\* In variable time a limb that was counted whole decides.
ref_trailing_zeros_vartime(a) ==
    count_limbs(limb_trailing_zeros, LAMBDA w : limb_trailing_zeros(w) = WordBits, FromBottom(a), a.n)
ref_trailing_ones_vartime(a) ==
    count_limbs(limb_trailing_ones, LAMBDA w : limb_trailing_ones(w) = WordBits, FromBottom(a), a.n)

ref_bits(a) == bits_precision(a.n) - ref_leading_zeros(a)

\* The highest limb that is not zero, or the lowest.
ref_bits_vartime(a) ==
    LET i == CHOOSE k \in 0..(a.n - 1) :
                 /\ k = 0 \/ Limb(a.v, k) # 0
                 /\ \A j \in (k + 1)..(a.n - 1) : Limb(a.v, j) = 0
    IN  WordBits * (i + 1) - limb_leading_zeros(Limb(a.v, i))

\* The limbs whose number is that of the bit are collected: one or none.
ref_bit(a, index) ==
    LET limbs == {i \in 0..(a.n - 1) : i = index \div WordBits}
    IN  IF limbs = {} THEN 0 ELSE limb_bit(Limb(a.v, index \div WordBits), index % WordBits)

ref_bit_vartime(a, index) ==
    IF index \div WordBits >= a.n THEN 0
    ELSE limb_bit(Limb(a.v, index \div WordBits), index % WordBits)

\* Only the limb of the bit changes, so none for a bit that is out of range;
\* set_bit_vartime panics there.
ref_set_bit(a, index, value) ==
    LET limb(i) ==
          LET old == Limb(a.v, i)
              m   == BitWeight[index % WordBits]
          IN  IF i # index \div WordBits THEN old
              ELSE IF value = 1 THEN limb_bitor(old, m) ELSE limb_bitand(old, limb_not(m))
    IN  U(FromLimbs([i \in 0..(a.n - 1) |-> limb(i)], a.n), a.n)

\* The limb that holds the bit at len is masked, those above are cleared.
ref_restrict_bits(a, len) ==
    LET limb == len \div WordBits
        mask(i) == IF i = limb THEN BitWeight[len % WordBits] - 1 ELSE Mask(i < limb)
    IN  U(FromLimbs([i \in 0..(a.n - 1) |-> limb_bitand(Limb(a.v, i), mask(i))], a.n), a.n)

\* All that is asked about the bits of a, and of the one at index.
bit_answers(a, index) ==
    <<ref_bits(a), ref_bits_vartime(a), ref_trailing_zeros(a), ref_trailing_zeros_vartime(a),
      ref_trailing_ones(a), ref_trailing_ones_vartime(a), ref_bit(a, index),
      ref_bit_vartime(a, index)>>
----------------------------------------------------------------------------
Kinds == {"uint", "nz", "odd", "wrapping", "checked"}

\* What the wrappers promise of their integer.
Legal(kind, v) == (kind = "nz" => v # 0) /\ (kind = "odd" => v % 2 = 1)

\* The values of each kind that a right-hand side is drawn from.
Rhs == [k \in Kinds |->
          {r \in UNION {[kind : {k}, n : {n}, v : Operands(n),
                         some : IF k = "checked" THEN BOOLEAN ELSE {TRUE}] : n \in 1..ValueLimbs} :
              Legal(k, r.v)}]

As(kind, a)        == [kind |-> kind, n |-> a.n, v |-> a.v, some |-> TRUE]
Opt(kind, a, some) == [kind |-> kind, n |-> a.n, v |-> a.v, some |-> some]

NoRhs == As("uint", U(0, 1))

NoCall == [op |-> "none", form |-> "none", lhs |-> NoRhs, rhs |-> NoRhs, p |-> 0, ans |-> <<>>,
           panics |-> FALSE]

Init == val = As("uint", U(0, 1)) /\ call = NoCall /\ broken = 0 /\ pc = "ready"

\* A none of any kind but Checked cannot be used further.
Ready(kind) == pc = "ready" /\ val.kind = kind /\ (val.some \/ kind = "checked")

\* What is stored is broken if it is not legal and cut is 1.
Store(op, form, rhs, p, ans, panics, new, cut) ==
    /\ pc = "ready" /\ pc' = "returned"
    /\ new.n <= ValueLimbs
    /\ call' = [op |-> op, form |-> form, lhs |-> val, rhs |-> rhs, p |-> p, ans |-> ans,
                panics |-> panics]
    /\ val' = new /\ broken' = IF Legal(new.kind, new.v) THEN 0 ELSE cut

\* Only of what is broken already may another operation make what is not legal.
Perform(op, form, rhs, p, ans, panics, new) ==
    Store(op, form, rhs, p, ans, panics, new, broken)

Return(op, form, rhs, p, new) == Perform(op, form, rhs, p, <<>>, FALSE, new)

\* The forms made of a result and an overflow; += and -= have already stored
\* the result when they panic.
Reported(op, r, s) ==
    \/ Perform(op, "overflowing", r, 0, <<Bit(s[2])>>, FALSE, As("uint", s[1]))
    \/ Return(op, "checked", r, 0, Opt("uint", s[1], ~s[2]))
    \/ Perform(op, "operator", r, 0, <<>>, s[2], IF s[2] THEN val ELSE As("uint", s[1]))
    \/ op # "mul" /\ Perform(op, "assign", r, 0, <<>>, s[2], As("uint", s[1]))

Sum ==
    Ready("uint") /\ \E r \in Rhs["uint"] :
        \/ \E carry \in {0, 1, WordMAX} :
             LET s == boxed_carrying_add(val, r, carry)
             IN  Perform("add", "carrying", r, carry, <<s[2]>>, FALSE, As("uint", s[1]))
        \/ LET s == concatenating_add(val, r)
           IN  Perform("add", "concatenating", r, 0, <<s[2]>>, FALSE, As("uint", s[1]))
        \/ Reported("add", r, boxed_overflowing_add(val, r))
        \/ Return("add", "wrapping", r, 0, As("uint", boxed_wrapping_add(val, r)))

Difference ==
    Ready("uint") /\ \E r \in Rhs["uint"] :
        \/ \E borrow \in {0, WordMAX} :
             LET s == boxed_borrowing_sub(val, r, borrow)
             IN  Perform("sub", "carrying", r, borrow, <<s[2]>>, FALSE, As("uint", s[1]))
        \/ Reported("sub", r, boxed_underflowing_sub(val, r))
        \/ Return("sub", "wrapping", r, 0, As("uint", boxed_wrapping_sub(val, r)))

\* ct_neg and conditional_wrapping_neg_assign take a choice.
Negation ==
    Ready("uint") /\ \E choice \in BOOLEAN :
        Return("neg", "wrapping", NoRhs, Bit(choice), As("uint", boxed_wrapping_neg(val, choice)))

Product ==
    Ready("uint") /\ \E r \in Rhs["uint"] :
        \/ Reported("mul", r, boxed_overflowing_mul(val, r, val.n))
        \/ Return("mul", "wrapping", r, 0, As("uint", boxed_overflowing_mul(val, r, val.n)[1]))
        \/ Return("mul", "saturating", r, 0, As("uint", boxed_saturating_mul(val, r)))
        \/ Return("mul", "concatenating", r, 0,
                  As("uint", boxed_overflowing_mul(val, r, val.n + r.n)[1]))

Quotient ==
    \/ Ready("uint") /\ \E r \in Rhs["uint"] :
         LET s == boxed_checked_div(val, r)
         IN  Return("div", "checked", r, 0, Opt("uint", s[1], ~s[2]))
    \/ \E kind \in {"uint", "wrapping"} : Ready(kind) /\ \E r \in Rhs["nz"] :
         Return("div", "wrapping", r, 0, As(kind, boxed_checked_div(val, r)[1]))

Bitwise ==
    Ready("uint") /\
        \/ \E r \in Rhs["uint"] :
             \/ Return("and", "bits", r, 0, As("uint", boxed_bitand(val, r)))
             \/ Return("or", "bits", r, 0, As("uint", boxed_bitor(val, r)))
             \/ Return("or", "assign", r, 0, As("uint", boxed_bitor_assign(val, r)))
             \/ Return("xor", "bits", r, 0, As("uint", boxed_bitxor(val, r)))
             \/ /\ val.n = r.n
                /\ \/ Return("and", "uint", r, 0, As("uint", uint_bitand(val, r)))
                   \/ Return("or", "uint", r, 0, As("uint", uint_bitor(val, r)))
                   \/ Return("xor", "uint", r, 0, As("uint", uint_bitxor(val, r)))
        \/ Return("not", "bits", NoRhs, 0, As("uint", boxed_not(val)))
        \/ Return("not", "uint", NoRhs, 0, As("uint", uint_not(val)))
----------------------------------------------------------------------------
(* Wrapping's operators are the wrapping forms of the integer; a shift is  *)
(* reduced modulo the precision.                                           *)

wrapping_sum(a, b)        == As("wrapping", boxed_wrapping_add(a, b))
wrapping_difference(a, b) == As("wrapping", boxed_wrapping_sub(a, b))
wrapping_product(a, b)    == As("wrapping", boxed_overflowing_mul(a, b, a.n)[1])
wrapping_negation(a)      == As("wrapping", boxed_wrapping_neg(a, TRUE))
wrapping_shl(a, s) == As("wrapping", U(shl(a.v, a.n, s % bits_precision(a.n)), a.n))
wrapping_shr(a, s) == As("wrapping", U(shr(a.v, s % bits_precision(a.n)), a.n))

WrappingStep ==
    Ready("wrapping") /\
        \/ \E r \in Rhs["wrapping"] :
             \/ Return("add", "wrapping", r, 0, wrapping_sum(val, r))
             \/ Return("sub", "wrapping", r, 0, wrapping_difference(val, r))
             \/ Return("mul", "wrapping", r, 0, wrapping_product(val, r))
        \/ Return("neg", "wrapping", NoRhs, 1, wrapping_negation(val))
        \/ \E s \in 0..(2 * bits_precision(val.n)) :
             \/ Return("shl", "wrapping", NoRhs, s, wrapping_shl(val, s))
             \/ Return("shr", "wrapping", NoRhs, s, wrapping_shr(val, s))

WrappingBitwise ==
    Ready("wrapping") /\
        \/ \E r \in Rhs["wrapping"] :
             \/ Return("and", "bits", r, 0, As("wrapping", boxed_bitand(val, r)))
             \/ Return("or", "bits", r, 0, As("wrapping", boxed_bitor(val, r)))
             \/ Return("xor", "bits", r, 0, As("wrapping", boxed_bitxor(val, r)))
        \/ Return("not", "bits", NoRhs, 0, As("wrapping", boxed_not(val)))

\* CtOption::and_then: the operation is performed on the value of a none too.
and_then(a, b, s) == Opt("checked", s[1], a.some /\ b.some /\ ~s[2])

checked_sum(a, b)        == and_then(a, b, boxed_overflowing_add(a, b))
checked_difference(a, b) == and_then(a, b, boxed_underflowing_sub(a, b))
checked_product(a, b)    == and_then(a, b, boxed_overflowing_mul(a, b, a.n))
checked_quotient(a, b)   == and_then(a, b, boxed_checked_div(a, b))

CheckedStep ==
    Ready("checked") /\ \E r \in Rhs["checked"] :
        \/ Return("add", "checked", r, 0, checked_sum(val, r))
        \/ Return("sub", "checked", r, 0, checked_difference(val, r))
        \/ Return("mul", "checked", r, 0, checked_product(val, r))
        \/ Return("div", "checked", r, 0, checked_quotient(val, r))

\* Products of two NonZero, and of two Odd, are wrapped unchecked.
WrappedProduct ==
    \E kind \in {"nz", "odd"} : Ready(kind) /\ \E r \in Rhs[kind] :
        LET s == boxed_overflowing_mul(val, r, val.n)
        IN  Perform("mul", "operator", r, 0, <<>>, s[2], IF s[2] THEN val ELSE As(kind, s[1]))
----------------------------------------------------------------------------
(* New values, wrapping and unwrapping.                                    *)

\* zero_with_precision, one_with_precision, max: From<Vec<Limb>> makes one zero
\* limb of an empty vector.
at_least_one(n) == IF n = 0 THEN 1 ELSE n
zero_with_precision(p) == U(0, at_least_one(to_limbs(p)))
one_with_precision(p)  == U(1, zero_with_precision(p).n)
max_with_precision(p)  == U(W[to_limbs(p)] - 1, zero_with_precision(p).n)

\* from_words_with_precision cuts the words off or extends them with zeros.
from_words_with_precision(a, p) == U(a.v % W[to_limbs(p)], to_limbs(p))

set_limb(a, i, w) == U(SetLimb(a.v, i, w), a.n)
from_limb_like(limb, other) == set_limb(U(0, other.n), 0, limb)
one_like(a) == U(1, a.n)

conditional_set_one(a, choice) == IF choice THEN U(1, a.n) ELSE a

\* The default of each kind; every wrapper takes that of the integer, except
\* NonZero and Odd, which take one.
default_of(kind) == As(kind, U(IF kind \in {"nz", "odd"} THEN 1 ELSE 0, 1))

Create ==
    /\ pc = "ready"
    /\ \/ \E p \in 0..bits_precision(ValueLimbs) :
            \/ Return("zero", "new", NoRhs, p, As("uint", zero_with_precision(p)))
            \/ Return("one", "new", NoRhs, p, As("uint", one_with_precision(p)))
            \/ Return("max", "new", NoRhs, p, As("uint", max_with_precision(p)))
            \/ /\ to_limbs(p) > 0     \* the constructor makes an integer of no limbs otherwise
               /\ \E r \in Rhs["uint"] :
                    Return("words", "new", r, p, As("uint", from_words_with_precision(r, p)))
       \/ \E kind \in Kinds : Return("default", "new", NoRhs, 0, default_of(kind))
       \/ \E w \in Word : Return("limb", "like", NoRhs, w, As("uint", from_limb_like(w, val)))
       \/ Return("zero", "like", NoRhs, 0, As("uint", U(0, val.n)))
       \/ Return("one", "like", NoRhs, 0, As("uint", one_like(val)))

\* NonZero::new, BoxedUint::into_nz and to_nz_or_one: what a none holds is not
\* zero either.
new_nonzero(a) ==
    LET is_zero_a == a.v = 0
    IN  Opt("nz", IF is_zero_a THEN one_like(a) ELSE a, ~is_zero_a)
into_nz(a) == Opt("nz", IF a.v = 0 THEN set_limb(a, 0, 1) ELSE a, a.v # 0)
to_nz_or_one(a) == As("nz", conditional_set_one(a, a.v = 0))

is_odd(a) == lsb_to_choice(Limb(a.v, 0))

new_odd(a) == Opt("odd", IF is_odd(a) THEN a ELSE one_like(a), is_odd(a))
into_odd(a) == Opt("odd", IF is_odd(a) THEN a ELSE set_limb(a, 0, 1), is_odd(a))
to_odd_or_one(a) == As("odd", conditional_set_one(a, ~is_odd(a)))

Wrap ==
    \/ Ready("uint") /\
         \/ Return("nz", "new", NoRhs, 0, new_nonzero(val))
         \/ Return("nz", "new", NoRhs, 0, into_nz(val))
         \/ Perform("nz", "or_one", NoRhs, 0, <<Bit(val.v # 0)>>, FALSE, to_nz_or_one(val))
         \/ Return("odd", "new", NoRhs, 0, new_odd(val))
         \/ Return("odd", "new", NoRhs, 0, into_odd(val))
         \/ Perform("odd", "or_one", NoRhs, 0, <<Bit(is_odd(val))>>, FALSE, to_odd_or_one(val))
         \/ \E kind \in {"wrapping", "checked"} : Return("wrap", "new", NoRhs, 0, As(kind, val))
    \/ Ready("odd") /\ Return("wrap", "new", NoRhs, 0, As("nz", val))
    \/ \E kind \in Kinds \ {"uint"} : Ready(kind) /\
         Return("unwrap", "new", NoRhs, 0, Opt("uint", val, val.some))

\* Deserialization makes a wrapper of any integer read, or an error.
read_nonzero(a) == Opt("nz", a, a.v # 0)
read_odd(a)     == new_odd(a)

\* new_unwrap and from_{be,le}_hex panic for what is not legal.
new_unwrap(a)   == <<As("nz", a), a.v = 0>>
odd_from_hex(a) == <<As("odd", a), ~is_odd(a)>>

\* The random odd integers are any integer drawn with its lowest bit set.
random_odd(a) == As("odd", set_limb(a, 0, limb_bitor(Limb(a.v, 0), 1)))

\* A native integer of a nonzero type, in any number of limbs.
from_native(w, n) == As("nz", U(w, n))

Read ==
    /\ pc = "ready"
    /\ \/ \E r \in Rhs["uint"] :
            \/ \E a \in {read_nonzero(r), read_odd(r)} :
                 Perform("read", a.kind, r, 0, <<Bit(a.some)>>, FALSE, IF a.some THEN a ELSE val)
            \/ \E a \in {new_unwrap(r), odd_from_hex(r)} :
                 Perform("unwrapped", a[1].kind, r, 0, <<>>, a[2], IF a[2] THEN val ELSE a[1])
            \/ Return("random_odd", "new", r, 0, random_odd(r))
       \/ \E w \in Word \ {0}, n \in 1..ValueLimbs : Return("native", "new", NoRhs, w, from_native(w, n))

\* Slip: the limbs are left cleared.
zeroized_only(a, kind) == U(0, a.n)

\* Zeroize clears the limbs; NonZero and Odd then store a one of that length.
zeroized(a, kind) == IF kind \in {"nz", "odd"} THEN one_like(a) ELSE U(0, a.n)

Zeroize ==
    \E kind \in {"uint", "nz", "odd"} :
        Ready(kind) /\ Return("zeroize", "assign", NoRhs, 0, As(kind, zeroized(val, kind)))

\* UintRef::ct_assign clears the limbs that other does not have; the others
\* panic unless the lengths are equal.
ct_assign(a, other, choice) == IF choice THEN U(other.v, a.n) ELSE a
ct_select(a, other, choice) == IF choice THEN other ELSE a

Choose ==
    \E kind \in {"uint", "nz", "odd", "wrapping"} : Ready(kind) /\
        \E r \in Rhs[kind], choice \in BOOLEAN :
            \/ /\ kind # "wrapping"
               /\ Perform("ct_assign", "assign", r, Bit(choice), <<>>, val.n < r.n,
                          IF val.n < r.n THEN val ELSE As(kind, ct_assign(val, r, choice)))
            \/ Perform("ct_select", "operator", r, Bit(choice), <<>>, val.n # r.n,
                       IF val.n # r.n THEN val ELSE ct_select(val, r, choice))
----------------------------------------------------------------------------
(* Precision and bits.                                                     *)

is_within_bits(a, p) == p >= bits_precision(a.n) \/ p >= ref_bits(a)

\* resize_in_place_unchecked, and the form that takes a reference and copies
\* the limbs that both have.
resize_unchecked(a, p)     == U(a.v % W[to_limbs(p)], at_least_one(to_limbs(p)))
resize_ref_unchecked(a, p) == LET n == at_least_one(to_limbs(p)) IN U(a.v % W[n], n)

\* NonZero and Odd wrap what an unchecked resize leaves and do not look at it.
Truncate(form, kind, p, a) ==
    Store("resize", form, NoRhs, p, <<>>, FALSE, As(kind, a), 1)

Resize ==
    \E kind \in {"uint", "nz", "odd"} : Ready(kind) /\
      \E p \in 0..(bits_precision(ValueLimbs) + 1) :
        \/ Truncate("unchecked", kind, p, resize_unchecked(val, p))
        \/ Truncate("ref_unchecked", kind, p, resize_ref_unchecked(val, p))
        \/ Return("resize", "try", NoRhs, p,
                  IF is_within_bits(val, p) THEN As(kind, resize_unchecked(val, p))
                                            ELSE [val EXCEPT !.some = FALSE])
        \/ LET over == ~is_within_bits(val, p)
           IN  Perform("resize", "operator", NoRhs, p, <<>>, over,
                       IF over THEN val ELSE As(kind, resize_unchecked(val, p)))
        \/ /\ kind = "uint"
           /\ \E op \in {"widen", "shorten"} :
                LET over == IF op = "widen" THEN p < bits_precision(val.n) ELSE p > bits_precision(val.n)
                IN  Perform(op, "operator", NoRhs, p, <<>>, over,
                            IF over THEN val ELSE As("uint", resize_ref_unchecked(val, p)))

SetBits ==
    Ready("uint") /\ \E p \in 0..(bits_precision(val.n) + 1) :
        \/ \E bit \in {0, 1} :
             LET out == p >= bits_precision(val.n)
             IN  \/ Return("set_bit", "unchecked", NoRhs, 2 * p + bit, As("uint", ref_set_bit(val, p, bit)))
                 \/ Perform("set_bit", "operator", NoRhs, 2 * p + bit, <<>>, out,
                            IF out THEN val ELSE As("uint", ref_set_bit(val, p, bit)))
        \/ Return("restrict_bits", "unchecked", NoRhs, p, As("uint", ref_restrict_bits(val, p)))

\* What is asked of a value without changing it.
Query ==
    Ready("uint") /\
        \/ \E r \in Rhs["uint"] :
             \/ Perform("compare", "query", r, 0, comparison(val, r), FALSE, val)
             \/ val.n = r.n /\ Perform("compare", "uint", r, 0, uint_comparison(val, r), FALSE, val)
        \/ \E p \in 0..(bits_precision(val.n) + 1) :
             Perform("bits", "query", NoRhs, p, bit_answers(val, p), FALSE, val)

\* The caller goes on with what it has got.
Continue == pc = "returned" /\ pc' = "ready" /\ call' = NoCall /\ UNCHANGED <<val, broken>>

Next ==
    \/ Continue \/ Sum \/ Difference \/ Negation \/ Product \/ Quotient \/ Bitwise \/ WrappingStep
    \/ WrappingBitwise \/ CheckedStep \/ WrappedProduct \/ Create \/ Wrap \/ Read \/ Zeroize \/ Choose
    \/ Resize \/ SetBits \/ Query
----------------------------------------------------------------------------
\* Only an unchecked resize makes a NonZero that holds zero or an Odd that holds an
\* even integer: no sequence of other operations does, from what is not broken,
\* not even inside of a CtOption that is none.
WrappersHold ==
    /\ val.n >= 1 /\ val.v \in 0..(W[val.n] - 1)
    /\ broken = 0 => Legal(val.kind, val.v)

\* non_zero.rs:46 "Wrapper type for non-zero integers.", :61 "really can expect
\* the value to never be zero"; odd.rs:39 "Wrapper type for odd integers."
WrapperIsOne == Legal(val.kind, val.v)

Exact(c) ==
    CASE c.op = "add" -> c.lhs.v + c.rhs.v + c.p
      [] c.op = "sub" -> c.lhs.v - c.rhs.v - (c.p \div HalfB)
      [] c.op = "mul" -> c.lhs.v * c.rhs.v
      [] c.op = "neg" -> IF c.p = 1 THEN -c.lhs.v ELSE c.lhs.v
      [] c.op = "div" -> IF c.rhs.v = 0 THEN -1 ELSE c.lhs.v \div c.rhs.v

\* What each form makes of a result e that does not fit the left-hand side.
ArithmeticExact(c, e) ==
    LET m    == W[c.lhs.n]
        fits == e \in 0..(m - 1)
        over == IF c.op = "add" THEN e \div W[val.n] ELSE Mask(e < 0)
    IN  /\ c.form \notin {"carrying", "concatenating"} => val.n = c.lhs.n
        /\ CASE c.form = "carrying"      -> /\ val.n = longer(c.lhs, c.rhs)
                                            /\ val.v = e % W[val.n] /\ c.ans = <<over>>
             [] c.form = "concatenating" -> val.v = e /\ c.ans \in {<<>>, <<0>>}
             [] c.form = "saturating"    -> val.v = IF fits THEN e ELSE m - 1
             [] c.form = "wrapping"      -> val.v = e % m
             [] c.form = "overflowing"   -> val.v = e % m /\ c.ans = <<Bit(~fits)>>
             [] c.form = "checked"       -> /\ val.some = (fits /\ c.lhs.some /\ c.rhs.some)
                                            /\ val.some => val.v = e
             [] OTHER                    -> c.panics = ~fits /\ (fits => val.v = e)

BitwiseExact(c) ==
    \A k \in 0..(bits_precision(val.n) - 1) :
        LET x == ref_bit_vartime(c.lhs, k)
            y == ref_bit_vartime(c.rhs, k)
            b == limb_bit(val.v, k)
        IN  CASE c.op = "and" -> b = x * y
              [] c.op = "or"  -> b = x + y - x * y
              [] c.op = "xor" -> b = (x + y) % 2
              [] c.op = "not" -> b = 1 - x

\* The number of limbs changes to what is asked for, and the value only where
\* an unchecked resize or a shortening cuts it off.
ResizeExact(c) ==
    LET n == IF to_limbs(c.p) = 0 THEN 1 ELSE to_limbs(c.p)
        fits == c.p >= bits_precision(c.lhs.n) \/ c.lhs.v < 2 ^ c.p
    IN  CASE c.op = "widen"     -> IF c.panics THEN n < c.lhs.n \/ c.p < bits_precision(c.lhs.n)
                                   ELSE val.n = n /\ val.v = c.lhs.v
          [] c.op = "shorten"   -> IF c.panics THEN c.p > bits_precision(c.lhs.n)
                                   ELSE val.n = n /\ val.v = c.lhs.v % W[n]
          [] c.form = "try"      -> val.some = fits /\ (fits => val.n = n /\ val.v = c.lhs.v)
          [] c.form = "operator" -> c.panics = ~fits /\ (fits => val.n = n /\ val.v = c.lhs.v)
          [] OTHER               -> val.n = n /\ (fits => val.v = c.lhs.v)

\* Conversions into a wrapper keep the value or say that there is none.
WrapExact(c) ==
    LET legal == Legal(c.op, c.lhs.v)
    IN  IF c.form = "or_one" THEN c.ans = <<Bit(legal)>> /\ val.v = IF legal THEN c.lhs.v ELSE 1
        ELSE val.some = legal /\ (legal => val.v = c.lhs.v)

ResultCorrect ==
    LET c == call
        m == W[c.lhs.n]
    IN  CASE c.op \in {"add", "sub", "mul", "neg", "div"} -> ArithmeticExact(c, Exact(c))
          [] c.op \in {"and", "or", "xor", "not"} -> BitwiseExact(c)
          [] c.op = "shl" -> val.v = (c.lhs.v * 2 ^ (c.p % bits_precision(c.lhs.n))) % m
          [] c.op = "shr" -> val.v = c.lhs.v \div 2 ^ (c.p % bits_precision(c.lhs.n))
          [] c.op \in {"resize", "widen", "shorten"} -> ResizeExact(c)
          [] c.op \in {"nz", "odd"} -> WrapExact(c)
          [] c.op = "read" -> c.ans = <<Bit(Legal(c.form, c.rhs.v))>>
          [] c.op = "unwrapped" -> c.panics = ~Legal(c.form, c.rhs.v)
          [] c.op = "ct_assign" -> /\ c.panics = (c.lhs.n < c.rhs.n)
                                   /\ ~c.panics => val.n = c.lhs.n
                                                   /\ val.v = IF c.p = 1 THEN c.rhs.v ELSE c.lhs.v
          [] c.op = "ct_select" -> c.panics = (c.lhs.n # c.rhs.n)
          [] c.op = "set_bit" ->
               LET k == c.p \div 2
                   old == ref_bit_vartime(c.lhs, k)
               IN  IF k >= bits_precision(c.lhs.n) THEN val = c.lhs /\ (c.panics <=> c.form = "operator")
                   ELSE val.v = c.lhs.v + ((c.p % 2) - old) * 2 ^ k
          [] c.op = "restrict_bits" -> val.v = c.lhs.v % 2 ^ c.p
          [] OTHER -> TRUE

\* Whatever the two lengths, the comparisons in constant and in variable time
\* give one answer, that of the integers, and so do the questions about bits.
QueriesAgree ==
    LET x == call.lhs.v
        y == call.rhs.v
        n == call.lhs.n
        ones == trailing_zeros(W[n] - 1 - x, n)
        bit == IF call.p < bits_precision(n) THEN limb_bit(x, call.p) ELSE 0
        sign == IF x < y THEN -1 ELSE IF x > y THEN 1 ELSE 0
    IN  /\ call.op = "compare" =>
             call.ans = <<sign, sign, Bit(x < y), Bit(y < x), Bit(x = y)>>
        /\ call.op = "bits" =>
             call.ans = <<bits(x), bits(x), trailing_zeros(x, n), trailing_zeros(x, n),
                          ones, ones, bit, bit>>
============================================================================
