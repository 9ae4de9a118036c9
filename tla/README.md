# Specifications of crypto-bigint

This directory holds TLA+ specifications of the arithmetic of `crypto-bigint`
(the crate under `src/`): its carry chains, modular operations,
Montgomery arithmetic, division, gcds and inverses, multiplication, shifts, signed
integers, roots and powers, square roots modulo a prime, its encodings, random
integers, boxed integers and wrapper types, with the configurations that model-check them with TLC
and the proofs that TLAPS checks. Source paths below are relative to
`src/src/`.

The crate is a sequential library. It has no threads, callbacks, messages or
persistent state, so nothing here is about interleavings or crashes. What is
hard in it is *where a carry goes*: loops that run in place over limbs, carries
that do not fit a word, values that are deliberately left unreduced and corrected
later, fixed iteration counts that must be enough, masks in the place of
branches. A unit test with random 256-bit operands meets almost none of these
cases, because most need a limb equal to `MAX`, a modulus with a particular
number of leading zeros or several calls in a row. With limbs of two or three
bits all of them are common, and TLC visits every one.

## 1. The system

| component | state it keeps | operations | what makes it correct |
|---|---|---|---|
| words and limbs (`primitives.rs`, `word.rs`, `limb/`) | none | carrying add, borrowing sub, multiply-add, masks and selects | each is exact in two words |
| carry chains (`uint/add.rs`, `sub.rs`, `neg.rs`, `ref_type/`) | destination limbs, carry, index | fresh and in-place loops, conditional and single-limb forms | the written prefix is exact, limbs still to be read are intact, the carry stays in its range |
| modular add, sub, neg, halve (`uint/*_mod.rs`, `uint/boxed/*_mod.rs`, `modular/div_by_2.rs`) | the caller's integers | one correction each, by selection or mask | ring operations on reduced values, under the documented (weaker) assumptions |
| special moduli `MAX + 1 - c` | the caller's integers | add, sub, neg, mul with a limb `c` | the same |
| Montgomery multiplication (`modular/mul.rs`) | accumulator limbs, running carry of a word and a bit, meta-carry | FIOS rows; almost Montgomery product, squaring chains, corrections | no wide sum overflows, rows exact, error bound, reduced results |
| Montgomery reduction, retrieval (`modular/reduction.rs`) | two halves and a meta-carry; limbs with a parked carry | SOS reduction, in-place product by one | nothing lost where halves meet; no final correction needed |
| Montgomery forms (`modular/*_monty_form*`, `monty_params.rs`) | parameters of a modulus, forms | new, retrieve, ring operations, repeated squaring | forms canonical, each call the ring operation |
| exponentiation (`modular/pow.rs`) | table of powers, accumulated power, window | constant-time, variable-time, multi-base, almost Montgomery | partial power exact at every window; result reduced |
| linear combination (`modular/lincomb.rs`) | limbs `u`, `hi`, `hi_carry`, window of pairs | interleaved rows, windows of `max_accum` pairs | accumulator exact, one correction enough |
| division (`uint/div_limb.rs`, `uint/ref_type/div.rs`, `uint/div.rs`) | remainder, quotient digits, reciprocal | digit estimates, fixed-length and variable loops, exact division | estimate off by at most what is corrected |
| multiplication (`uint/mul/`) | product limbs | schoolbook, Karatsuba, squaring, wrapping | recombination exact |
| gcd and inversion (`modular/safegcd*`, `modular/bingcd*`, `uint/invert_mod.rs`, `uint/gcd.rs`) | pairs of signed integers, transition matrices, step counter | divsteps, batches, CRT | invariant gcd and Bezout relation, iteration bounds, Jacobi sign |
| roots and powers (`uint/sqrt.rs`, `uint/root.rs`, `uint/pow.rs`, `modular/sqrt.rs`, `modular/prime_params.rs`) | Newton iterate; Tonelli-Shanks state | fixed and variable iteration | floor root, termination; square root exists iff found |
| shifts, bits (`uint/shl.rs`, `shr.rs`, `bits.rs`) | none | bounded, wrapping, overflowing | shift of the value, overflow flag |
| signed and boxed integers (`int*`, `uint/boxed*`) | precision of each operand | two's complement; mixed precision | sign, overflow, precision kept |
| encodings, random, wrappers (`encoding.rs`, `uint/encoding*`, `uint/rand.rs`, `non_zero.rs`, `odd.rs`) | buffers; generator state | radix, DER, RLP; rejection sampling; invariants of wrappers | round trips, uniformity only up to the generator, invariant kept |

They interact by calls: everything is built on the carry chains; the corrections
of the modular operations end every Montgomery product; the forms call the
Montgomery routines and hand the results of one call to the next; exponentiation
and linear combinations are built on the same inner loops with their own
corrections. `PROJECT.json` lists all components with their status.

## 2. The modules

    Limbs                 words, limbs of an integer, operations on both, products in a buffer
        CarryChain        the loops limb by limb
        ModOps            corrections, Montgomery routines and powers on whole integers
          Modular         the register machine               => ResidueRing
          MontyForm       registers in Montgomery form       => ResidueRing
          MontyPow        windowed exponentiation
          Redc            SOS reduction limb by limb
          Lincomb         interleaved sums of products limb by limb
          MontyLimbs      one call of Fios, Redc, Retrieve or Lincomb
        MontyRows         Montgomery product row by row      => MontyProduct
        Fios              Montgomery product limb by limb    => MontyRows
        Retrieve          product by one, in place           => MontyRows
        SpecialMod        calls modulo MAX + 1 - c, used by Modular
        Bits              shifts, lengths and word inverses
          Schoolbook      products row by row
          Karatsuba       products by halves, of any two sizes
          UintPow         powers of integers, fixed and boxed
          Division        long, wide and exact division, digit by digit
          Shifts          shifts by bits and limbs, bounded or not
          Signed          two's complement
          Roots           Newton's iterations: roots, inverses modulo 2^k
          Values          boxed integers of any length, NonZero, Odd, Wrapping, Checked
          Arith           one call of one of these eight families
          BinGcdOps       the binary gcd's step, summaries and matrices
            BinGcd        gcd and Jacobi symbol, step by step and in batches
            Xgcd          extended gcd
            SafeGcd       Bernstein-Yang gcd and inverse
          ModSqrt         square roots modulo a prime
          Encodings       text and bytes in and out, DER, RLP
          RandomMod       random integers against a generator
          Numbers         one call of one of these six families
          Documented      a program of calls, against the documentation
        MontyProduct, ResidueRing   abstract specifications

`=>` is an implementation by refinement mapping, checked as a temporal property
of the run and proved: `Modular` and `MontyForm` of `ResidueRing`, `MontyRows` of
`MontyProduct`, and `MontyLimbs`, in which `Fios` and `Retrieve` run, of `MontyRows`.
Operators on whole integers (`ModOps`) say what the loops below were shown to compute.

**Numbers.** A word is a number below the base `B = 2 * HalfB`; an integer of `N`
limbs is the number it stands for, with `Limb(x, i)` and `SetLimb(x, i, v)` for
the array accesses. `W[i]` is `B^i`. It is a constant table, characterised by
`WeightAssumption`, so that no module that is proved about needs a recursive
definition; `Limbs!Weights` is the table, and the
configurations give it to `W`. `BitWeight` is in the same way the table of the powers of two, up to the bits
of a double-width integer, and `Bits!BitWeights` its value. `PowerOfTwo` is a recursive function, which unlike
`^` the provers can reason about. Every word operation wraps where the
machine word wraps, and a wide word wraps at `B * B`.

**Control.** In the limb-level modules one action is one iteration of a loop, with
its index as a variable (in `Division` of the outer loop, whose body is the chains
of `CarryChain`); in the register modules (`Modular`, `MontyForm`, `Values`) one action is a call of the public interface with registers as
operands, so that a behaviour is a caller's program and the result of one call is
the operand of the next. `Returned` stutters when a routine has returned, so TLC's
deadlock check shows that every loop runs to its end.

**Constant-time code.** Masks and selects are modelled by what they select; that
the code takes no secret-dependent branches is not a property of these models.

| module | code | state and actions |
|---|---|---|
| `CarryChain` | loops of `uint/{add,sub,neg,mul_mod}.rs`, `uint/ref_type/{add,sub}.rs` | `op`, `inplace` and the arguments of a call; `out`, `carry`, `i`; one action per routine |
| `SpecialMod` | `*_mod_special` | limb `c`, registers |
| `Modular` | `uint/*_mod.rs`, `uint/boxed/*_mod.rs`, `modular/div_by_2.rs` and callers of both kinds of routines | modulus `p`, registers, `boxed` selects the boxed corrections; a program over either kind of modulus |
| `MontyRows` | outer loop of `montgomery_multiply_inner`; `almost_montgomery_mul`, `mul_montgomery_form` | `acc` is (meta_carry, out); `Row`, `AlmostCorrect`, `Correct` |
| `Fios` | its inner loop | `carry`, `meta_carry` are wide words; `StartRow`, `NextLimb`, `Top` |
| `Redc` | `montgomery_reduction_inner`, `montgomery_reduction` | `lower`, `upper`, `meta_carry`; one action for each of the two inner loops |
| `Retrieve` | `montgomery_retrieve_inner` | the carry of limb `j` is in `out[j]` |
| `MontyLimbs` | `montgomery_multiply_inner`, `montgomery_reduction`, `montgomery_retrieve_inner`, `impl_longa_monty_lincomb` | `routine` and the variables of the four loops |
| `MontyForm` | `modular/{fixed,const,boxed}_monty_form.rs` and their submodules | `one`, `r2`, registers; `boxed` selects the boxed routines; `product` is the buffer of a `BoxedMontyMultiplier` |
| `MontyPow` | `modular/pow.rs` | `powers`, `z`, `limb_num`, `window_num`; `Window` squares, `Multiply` takes one base's entry |
| `Lincomb` | `impl_longa_monty_lincomb`, `lincomb_*` | `u`, `hi`, `hi_carry`; `Pair`, `Reduce`, `Correct` |
| `Division` | `div_rem`, `rem_wide`, `div_exact` and their variable-time forms in `uint/ref_type/div.rs` | `x_lo`, `x`, `x_hi`, `x_xi`, `extra_limbs`: the dividend, of which the remainder takes the upper limbs and the quotient the lower; `y`; `xi`. One action for each branch of entry, a digit, a digit of exact division, the end |
| `BinGcd` | `modular/bingcd/gcd.rs`, `uint/mod_symbol.rs`, `int/mod_symbol.rs` | `a`, `b`, `jacobi_neg`; `Step` of the classic routines, `Batch` of the optimized ones, an action for each way in and out |
| `Xgcd` | `modular/bingcd/xgcd.rs`, `div_mod_2k.rs`, `xgcd` of `uint/gcd.rs` and `int/gcd.rs` | `a`, `b`, `matrix`; what precedes and follows the loop (powers of two, an even argument, zero, signs, the division by 2^k) is in `Enter...` and `Return` |
| `SafeGcd` | `modular/safegcd.rs`, `modular/safegcd/boxed.rs`, `invert_mod` of `uint/`, `int/` and `uint/boxed/`, `uint/lcm.rs` | `sizes` are the limbs of both arguments; `f`, `g`, `d`, `e`, `delta`, `steps`; `Batch` runs `jump` on the low words and applies its matrix |
| `Schoolbook` | `uint/mul/schoolbook.rs`, `uint/ref_type/mul.rs` | `out`, `carry`, `i`; an action for a row of a product, of the triangle of a square, of its doubling and its diagonal |
| `Karatsuba` | `uint/mul/karatsuba.rs`, `uint/mul.rs`, `uint/boxed/mul.rs` | a call is one step: the recursion is in two functions, `mul` and `square`, with every carry of the recombination as a number that wraps where the limbs end |
| `Shifts` | `uint/{shl,shr}.rs`, `uint/ref_type/{shl,shr}.rs`, `uint/boxed/{shl,shr}.rs`, `int/{shl,shr}.rs` | a call is one step: rounds over the bits of the shift, then limbs |
| `Signed` | `int/{sign,neg,add,sub,cmp,resize,mul,mul_unsigned,div,div_unsigned}.rs`, `uint/mul_signed.rs` | a call is one step over the bits of an `Int`; magnitudes are multiplied and divided by what the routines above return |
| `Roots` | `uint/{sqrt,root}.rs`, `uint/boxed/sqrt.rs`; `invert_mod2k` and its schedule of `uint/invert_mod.rs`, `uint/boxed/invert_mod.rs` | `x`, `q`, `i`; a step is one iteration of Newton's, from above for a root, from the low limbs for an inverse, of which `q` holds the lengths to come |
| `UintPow` | `uint/pow.rs`, `uint/boxed/pow.rs`, `uint/boxed/mul/helper.rs` | `ret`, `product` (the multiplier's buffer), `pos`, `overflow`; a step is one bit of the exponent |
| `Values` | `uint/boxed.rs` and `uint/boxed/`, `uint/ref_type.rs`, `uint/resize.rs`, `non_zero.rs`, `odd.rs`, `wrapping.rs`, `checked.rs` | `val` is a register of any kind and length, `call` the operation that has returned; every operation is a step, so that the wrappers meet every sequence |
| `ModSqrt` | `modular/sqrt.rs`, `modular/prime_params.rs`, the forms' `sqrt.rs` | `params`; `x`, `d`, `z`, `v`, `max_v` of Tonelli-Shanks, a step an iteration; residues stand for Montgomery forms |
| `Encodings` | `uint/encoding.rs`, `uint/boxed/encoding.rs`, `limb/encoding.rs`, `encoding.rs`, `uint/encoding/{der,rlp}.rs` | text is decoded a limb's worth of digits per step and encoded a limb or a batch per step; a byte string is one step |
| `Documented` | callers of `Roots`, `Signed`, `Encodings`, `SafeGcd`, `ModSqrt` and `Values` | one call after another; `contradicted` remembers the statements of the documentation that a result contradicts |
| `RandomMod` | `uint/rand.rs`, `uint/boxed/rand.rs`, `limb/rand.rs`, `random` of `non_zero.rs` and `odd.rs` | `x` is the buffer; a draw is any bytes, or an error |

`Slip` operators (a comment `Slip:` precedes each) are plausible mistakes in the
definition that follows them. `PROJECT.json` pairs each property of each passing
run with a slip that violates it. They are used by no specification.

History variables (`call`, `q`, `acc` and `t` where a comment says so, `broken` of `Values`,
`contradicted` of `Documented`) record what the properties talk about and influence nothing.

## 3. The runs

Every module's assumptions are evaluated by each run.

| run | instance | what it shows |
|---|---|---|
| `carry_chain` | B = 4, N = 3 | all routines, fresh and in place: prefix exact, unread limbs intact, carry in range, result as `Limbs` says |
| `monty_rows` | B = 4, N = 3 | all factors (reduced or not) and odd moduli: exact rows, `acc < y + m`, congruence, error bound, one reduced factor suffices, implements `MontyProduct` |
| `monty_limbs` | B = 4, N = 3, 14 moduli | `Fios`, `Redc` and `Retrieve` for every operand, `Lincomb` for up to three pairs of small and large forms, one more than a window holds: no wide sum overflows, limbs exact in mid-row, results reduced; `Fios` and `Retrieve` implement `MontyRows` |
| `modular` | B = 4, N = 2, two registers, c in {1, 2, 3} | all moduli, all call sequences, fixed, boxed and special; documented assumptions suffice; implements `ResidueRing` |
| `monty_form` | B = 4, N = 2, two registers | fixed, constant and boxed forms, all moduli without exactly one leading zero, up to four repeated squarings; the multiplier's buffer is kept over consecutive calls of the multiplier; implements `ResidueRing` |
| `monty_pow` | B = 16, N = 2, windows of 2, exponents of 2 limbs | constant-time, variable-time and almost Montgomery powers; single bases and pairs, selected forms and exponents for moduli 1, 9, 77 and 125, every `exponent_bits` from zero to one beyond the precision |
| `arith` | B = 4, integers of 1 to 6 limbs (the families of `Arith`) | rows of a schoolbook product and bits of a power lose nothing; the dividend of a long division equals quotient digits times divisor plus remainder after every digit, and its debug assertions hold; no Newton step overflows or falls below the root, and all that have no count come strictly closer to it; an inverse modulo a power of two is right in the limbs done and zero above; in every sequence of operations a NonZero stays nonzero and an Odd odd, unless an unchecked resize cuts off what makes it one; comparisons and bit queries agree for all lengths; results are those of the integers, with overflow reported exactly when there is one |
| `numbers` | B = 16, up to three limbs, five where text is written (the families of `Numbers`) | no value leaves its type and every division by 2^k is exact; each batch keeps the gcd although its summaries may compare wrongly; matrices and coefficients lead from the arguments to the integers of the loop; the sign of the Jacobi symbol is right at every step; the square of what becomes a root is the value up to a root of unity whose order the iterations left bound; limbs and digits together stay the number that a text denotes; draws are uniform; the fixed iteration counts suffice; results; every call returns |

Why the bounds are enough: with a base of 4 a limb takes all the values that
matter (0, 1, MAX - 1, MAX), and all sums that can overflow do; three limbs give a first, a
middle and a last iteration, and in `Redc` a row that lies in one half and rows that
cross. `N = 2` in the register modules gives a limb boundary; the loops below are
checked with three. Two registers are the operands of every call, and a register
may be both. `MaxRepeat = 4`, `Inputs`, `Products` and `Moduli` bound inputs; nothing
else is bounded. In `monty_pow` the exponents begin or end with zero windows or
change at a window or limb boundary, the pairs have exponents of different lengths,
and modulus 125 has powers (exponents 26, 27 and 39) for which both subtractions of
`almost_montgomery_reduce` are needed. The moduli of `monty_limbs`
have 0, 1, 2 and more leading zeros and lowest limbs 1 and 3, one of them is 1. The
single-limb branch of `mul_mod_special` is for one limb only and no run reaches it.
In the divisions a dividend of four limbs is needed for a digit that is one too
large after `div3by2`, so that the divisor is added back. The reciprocal is the function
its test states, not the sequence of multiplications that computes it for words of 32 and 64
bits. The proofs restrict the base to a power of two only where the code reads its
bits (section 4).

In `numbers` a limb has 4 bits, so that a batch makes two or three steps and twelve bits
take several batches; the arguments lie around powers of two, have common factors,
or differ only in bits that a summary does not hold. The number of limbs on which the
code chooses a routine (`uint/gcd.rs`, `xgcd.rs:195`) is not modelled: every routine is
run at this size. The reference definitions are Euclid's gcd and the Jacobi symbol as the
product of Legendre symbols found by squaring. Boxed arguments of the Bernstein-Yang
routines have one, two or three limbs in seven combinations. Primes have one to eight twos in
`p - 1`, so that all four closed forms and the loop are met, and for three of them the
parameters are also assigned over those of another prime. A byte has two bits, half a
word; the constants that decide how text is encoded are scaled (a large divisor of 2 limbs
in the place of 16, used from 3 limbs in the place of 24), so that five limbs make the
encoder split, batch and strip; radices go up to ten. Texts are all short strings of
seven characters and the numbers around every weight of a limb, with an underscore in each
place. Moduli for random integers have one or two limbs and highest bytes that are full and not.

In `arith` an inverse modulo `2^k` is asked for with every `k` up to one above the precision;
its first limbs, a `u64` in the code, are one, two or three, and the length below which the
schedule stops halving, 8 in the code, is 2 or 3, so that six limbs meet the recursion, the
trimmed doubling and the plain one. The least size that Karatsuba splits, 16 limbs in the code, is 2 as well, so that
operands of one to six limbs meet the schoolbook base, one and two levels of recursion,
halves of odd size and both kinds of unbalanced operands. The integers are all of a size
where those are few (two limbs for shifts, signs and powers, five limbs for roots), else
those whose limbs are zero or all ones and some about a half or a fraction of the whole;
exponents have any value of one or two limbs. Roots of integers of a single limb of two
bits are left out: a precision of two bits cannot be had, and there the first mean overflows.
Degrees go up to four, the bits of the shortest integer.

`monty_limbs` and `monty_pow` check their type invariants as parts of `WideSumsFit` and
`PrefixPower`.

**Fairness.** `Numbers` assumes that a sequential call goes on until it returns (`Progress`,
weak fairness of its next-state relation), which matters to the loops in variable time, which have no
count of iterations. Of random integers it assumes that the generator does not for ever
draw what is rejected (`SF_vars(DrawAccepted)`): a uniform draw of as many bits as the modulus
has is accepted with a probability of more than one half, so that the opposite has probability
zero. Nothing is assumed of a generator that fails: then the call returns the error. The end of
every call is `Termination`. The other loops are bounded by an index, no fairness is
assumed for them, and TLC's deadlock check covers their end.

### Runs that find a violation

| run | statement | what the code does |
|---|---|---|
| `square_repeat` | two corrections end `square_repeat_montgomery_form` | with exactly one leading zero in the modulus, the last almost Montgomery square may need three: m = 213 of nine bits, form 97 squared seven times gives 251 |
| `special_mod_max` | `mul_mod_special` for any `c` that fits a limb | with `c = MAX` and three limbs or more, `carry + 1` overflows |
| `xgcd_bezout` | `lhs * x + rhs * y = gcd` for the optimized extended gcd | with odd arguments that have a common factor, the coefficients may be wrong |
| `documented` | at least one of the eight statements below is kept | a program of eight calls contradicts them all |

The statements of `documented`, each a predicate beside the routine. The properties of the passing runs
state in their place what the code does keep.

| statement | source | what the code does |
|---|---|---|
| `Roots!RootIsReturned` | `uint/root.rs:8`, `:36`, `:77`: `floor(self^(1/exp))`, "ensured non-zero" | panics in the shift of `:57` if `ceil(bits / exp) * (exp - 1)` is not below the precision, and in the expectation of `:77` if `exp` is the precision and the integer is so close to `MAX` that `self + exp - 1` wraps, as `U64::MAX.floor_root_vartime(64)` does: the root is one, and the Newton step from there falls to zero. `ShiftPanics` and `DegreeFits` say which calls meet them |
| `Signed!RemainderHasSign` | `int/div_unsigned.rs:58`: the sign of `self`, or zero | only while the remainder is less than half of its own width's range |
| `Signed!QuotientFits` | `int/div.rs:360`: "int divided by int fits in uint by construction" | `DivVartime` panics on `MIN / -1` |
| `Encodings!PrecisionRefused` | `uint/boxed/encoding.rs:22`, `:67`: `DecodeError::Precision` | bytes above the precision are cut |
| `Encodings!HasLimbs` | `uint/ref_type/cmp.rs:15`: "should have limbs" | `BoxedUint::from_str_radix_vartime` of "0" returns an integer without limbs |
| `SafeGcd!InverseIsReturned` | `uint/boxed/invert_mod.rs:16`: the inverse modulo `modulus` | is cut to the limbs of the value (`modular/safegcd/boxed.rs:124`), if those are fewer than the modulus has |
| `ModSqrt!ParametersExact` | `modular/prime_params.rs:19`: `t` is `modulus - 1` divided by `2^s` | `ct_assign` leaves `t` behind and `ct_eq` does not look at it; square roots depend on `s` and the roots of unity only |
| `Values!WrapperIsOne` | `non_zero.rs:46`, `:61`, `odd.rs:39` | `resize_unchecked` of a `NonZero` (`uint/boxed.rs:424`, `:438`) may cut to zero; that of an `Odd` (`odd.rs:389`, `:402`) to no bits gives zero by value, but by reference the lowest limb |

A run checks one property and stops at the first violation, so that the eight are stated as one: the
violation is a program that contradicts every one of them, not the first to be found.


The finding of `xgcd_bezout` is explained by the matrix. `optimized_binxgcd_` negates a row when the integer
it gives came out negative, and at the end reads the matrix back as four magnitudes with
alternating signs. Once the second integer has become zero a row may hold two
entries of one sign; `to_pattern_matrix` lets the two entries of the top row vote and
forgets one sign. With words of 4 bits, 39 and 153 end with the row (2, 2): 2 * 39 + 2 * 153 is
the gcd, 3, times 2^7, but 2 * 39 - 2 * 153 is taken. The gcd and the quotients are right, and
so are the coefficients of every coprime pair of arguments the runs contain, which is what
`ResultCorrect` of `Xgcd` claims. The real routine is used from four limbs on; the same
transitions calculated for words of 64 bits give wrong coefficients for
lhs = 0x1158a7a01f812841ccea1 and rhs = 0x12847ef6857f7fb3af4ac66b17e2e8fbd32d
(gcd 45194826138543781235029, x = 3692306642389262684, y = -26).

`monty_form` excludes the moduli of `square_repeat` because of that finding; at its
size they would pass. `pow_vartime` skips the product of a zero window, so that with a
zero lowest window it returns what `square_repeat_montgomery_form` leaves: with m = 1753
of twelve bits (limbs and windows of 4), form 1724 and exponent 16 that is a form which
is not reduced. `ResultReduced` of `MontyPow` therefore claims nothing of it.

More limits met while modelling: `optimized_bingcd_vartime_` compares `n` with the
bits of `LIMBS_2K` limbs (`modular/bingcd/gcd.rs:214`), which is right because its only caller
fills them. `karatsuba::wrapping_mul` without `add` adds to what `out` holds where the
sizes are small and overwrites it where they are not; every caller passes zeros and the model
does. `BoxedUint::from_be_hex` of an empty string with no precision and the conversion
of an empty slice of limbs give integers without limbs, as the text "0" does. `Odd::<BoxedUint>::random`
of no bits returns one. `BoxedUint::max(0)` is zero. The product of two `NonZero`
constant forms modulo a composite may be zero. `Limb::restrict_bits` with the length of a
word clears everything, although its comment speaks of the bits at or above it; its
callers pass less. The number of division steps is computed in 32 bits
(`modular/safegcd.rs:350`) and would overflow from 93558 bits on; the model computes it without a width.

Three remarks in the source are weaker than they read and are stated nowhere as a
property: `Uint::borrowing_sub` "computes `self - (rhs + borrow)`" (`uint/sub.rs:16`)
for a borrow that is zero or `MAX`, as only its top bit counts; and the second and
third conjecture about almost Montgomery products (`modular/mul.rs:26-28`) hold for
an operand that is not a nonzero multiple of the modulus, and for a reduced one. The
first of the three conjectures about almost
Montgomery products, on which `pow_montgomery_form_amm` rests, is proved below.

## 4. The proofs

TLAPS proves the following for every number of limbs, modulus and operand, and for
every word base unless an assumption below says otherwise.

**Assumptions.** `Limbs` assumes `BaseAssumption` (a positive `HalfB`), `LimbsAssumption`
(at least one limb) and `WeightAssumption` (`W` is the table of the powers of `B`). The
modules that call for more add the shape of their constants, all of them evaluated by the runs:

* `MontyLimbs` and `MontyPow`: a word has `BITS` bits, `B = PowerOfTwo(BITS)`. The linear combination counts
  leading zeros, exponentiation reads bits. `WindowAssumption` also says that windows
  fill a limb, as the code's `BITS / WINDOW` does, and `ExponentAssumption` that an exponent has a limb.
* `ModuliAssumption`, `InputsAssumption`, `ProductsAssumption`: moduli are odd, the arguments
  of a call are reduced forms, and there is at least one of them.
* `NegInvAssumption` of `MontyForm`: an odd modulus has the inverse that `mod_neg_inv` holds.
  `MontyForm` does not say that the base is a power of two, which is what makes it so. `MontyPow` does, and there the
  assumption is a lemma (`OddHasNegInv`).
* `CsAssumption` of `Modular`: `c` is a positive limb.
* `WordBitsAssumption` and `BitWeightAssumption` of `Bits`: a word has bits, and `BitWeight` is the table of
  the powers of two, so that the base is one of them.
* `ArgumentsFit` of `Schoolbook` and of `Values`, which `Arith` assumes of its arguments (`SchoolAssumption`,
  `ValuesAssumption`): operands have at least one limb and at most `N`, and are below the weight of their number of limbs.

**The modules.**

* `LimbsProofs` holds what the others cite. Division with remainder; words, limbs and storing a
  limb; the exactness of every word operation; `ClearsLowLimb` (adding `u * m` with
  `u = a * k mod B` and `k * m = -1 mod B` clears the lowest limb of `a`). Then the operators of
  `ModOps`: what a correction returns and when one is enough, and what an integer `Stands` for
  in Montgomery form. The accumulator of a whole product is the one number below `y + m` with
  the right residue (`AccOfProduct`, `ResidueUnique`).
  Recursive functions are handled without induction over operators: `SetInduction` (a set of
  naturals with 0 that is closed under successor is all of them) comes from the least-element theorem of
  the library, and with it `RecursionExists` and `RecursionUnique` show that a step function
  determines one sequence, so that powers, products and repeated squares can be unfolded and bounded.
* `CarryChainProofs`. The inductive invariant consists of `TypeOK` (with the ranges of the
  carries), `LegalCall`, `CarryAtStart`, `UnreadIntact` (the limbs an in-place loop has
  still to read are those passed) and `PrefixExact`. `AddStep` and `SubStep` turn the exactness of a
  word operation into the prefix property of one iteration, and
  each routine is one lemma. At the last limb `PrefixExact` gives `ResultCorrect`: the
  operators of `Limbs`, on which all other modules rest, are what the loops compute.
* `MontyRowsProofs`. The inductive invariant `Inv` consists of `TypeOK`; `RowsExact`
  (`acc * B^i = (x mod B^i) * y + q * m` with `q < B^i`, the history sum of the
  multiples added); `AccBound` (`acc < y + m`); and what the phase and the result are.
  `AccBound` alone is not inductive: that `acc'` stays below `y + m` follows from
  the division by `B` with `xi, u <= B - 1`, and that the division is exact from
  `ClearsLowLimb`. From `Inv` follow the congruence of the results, the reduction of
  products with a reduced factor, the error bound
  `f(AMM(x, y)) <= min(f(x), f(y)) + 1` (the first conjecture of the comment in
  `modular/mul.rs`) and the refinement of `MontyProduct`.
* `MontyLimbsProofs`: the four inner loops. The invariant of a row that is under way relates
  three parts of one number, what is written, what is carried and what is still to be read:
  `ExactLimbs` in multiplication, where the carry is at most `2B - 2`, one bit more than a word;
  `RedWhole` and `RedPartial` in the reduction, where the row lies across both halves and the meta-carry is what the
  halves lose; in the retrieval the carry is the limb at which the loop stands, and the invariant says that the
  limbs below it, times `B`, are the sum. In the linear combination `ExactWindow` says the same of all pairs
  of a window at once: before limb `j` the accumulator `v` satisfies
  `v * B^j = (sum over the window of the low j limbs times their factors) + q * m`, and within the row
  also holds limb `j` of the pairs done. A window
  has at most `2^(leading zeros)` pairs, hence `count * m <= R`, hence `v < B * R + m` and nothing is lost
  above `hi_carry` (`WindowBound`), and a whole window ends below `2m` (`WindowEnds`), which one correction reduces. The sum over all
  windows follows from `SumSteps`. `RowMaps` and `StepMaps` are the refinement of `MontyRows`: a limb is a stutter, the
  last step of a row is `Row`.
* `ModularProofs`. Registers stay reduced under every sequence of general calls, additions and
  subtractions need only their documented assumptions, and the calls are those of `ResidueRing`. For
  moduli `MAX + 1 - c` the same holds of programs that mix both kinds of routines, under the
  hypothesis `CarryFits`: `N <= 2`, or `c = MAX` is not used. It is exactly what the run
  `special_mod_max` shows to be needed, because otherwise `carry + 1` overflows in the model as in the code.
* `MontyFormProofs`. The invariant is that every register is canonical and that `one` and `r2` are those of
  the modulus. `Canonical`, `Retrieval` and `Refinement` follow from what each routine's result `Stands` for.
  Repeated squaring is the only call that needs a hypothesis, `SafeToRepeat`: at most two squarings, or a modulus without
  exactly one leading zero. The run `square_repeat` is the counterexample for the others.
* `MontyPowProofs`. The invariant says where the loop is (`InReach`: either the first window, or a window below
  it that the bits asked for reach), that the table holds what `Tables` says, and that the accumulated power stands for the product of all bases
  raised to the digits before this window, and of those bases already done raised to the digits up to it. One window squares the
  former; the digit read by mask and shift is the digit by division (`DigitIs`), also in a window that is cut
  at its upper end. In the almost Montgomery variant table entries are below `2m`, so that the accumulated power is below `3m`
  after the product that ends a window, as an almost product's error is at most one above
  that of either factor; two subtractions therefore suffice. `SafeToRepeat` is not needed: whatever `square_repeat` leaves
  in `N` limbs stands for the right power (`SquaredForm`), and the product by the table reduces it.

* `ArithProofs`: three of the families of `Arith`, as theorems of its `Spec`.

  The schoolbook products and squares, of operands of any two lengths, in a buffer of any length that
  `Schoolbook` hands them; in the run `arith` they are a part of `LoopsExact` and
  `ResultCorrect`. A row is done limb by limb (`MulAddRowIs`: the buffer and the carry are the buffer before and the row
  cut to its length); a row that ends inside the buffer leaves its carry pending one limb above, at most a bit
  (`WrappingRowInside`), and one that reaches the end adds it to what has left the buffer (`WrappingRowAtEnd`), so
  that the invariant `WrappingMulInv` is a congruence one limb beyond the buffer (`Holds`). `square_wide` doubles
  without losing a bit since the rows below the diagonal of n limbs stay below limb 2n - 1
  (`CrossBelow`), and rows and diagonal make up the square (`SquareSplits`). The limb loop of `wrapping_square` keeps
  `LimbsSquared`: the limbs done, both carries, twice the limbs above, and the squares not yet added. At the end, what is
  cut off at each row is a multiple of the buffer's weight (`CutRowsCongruent`, `DiagonalAbove`), which gives the residue, and
  where the buffer has room for all of it nothing was cut.

  Long division, with `DigitsExact` and `AssertionsHold`. Neither is inductive: that a digit can be
  estimated depends on the normalisation of the divisor, and `DivInv` says so from the call on. On entry it has the ranges
  of the call and the words of the divisor in use; `EnterLarge` and its kin shift both operands until the divisor's top bit
  is set, and less than a word leaves the dividend at the top (`DividendShifted`). In the loop from the high end, `DivKept` says that
  the divisor as stored is `ShiftedY` moved to the top of its limbs (`Normalized`), that the leading two words of what remains are
  at most the divisor's, and (`Kept`) that what remains at this limb, with the limbs of a wide dividend still to come in, is below the
  divisor, congruent to the dividend and with the digits stored equal to it. It holds as long as there is a digit left to find, also for the
  digits of zero that the constant-time loop goes through above the divisor. For one digit, `reciprocal_3by2` of the two
  leading words is the reciprocal (`ReciprocalOfTwo`), two corrections with words that wrap make its product a quotient of three words by two (`Estimated`),
  such a quotient is at most one too large for all words of the divisor (`EstimateClose`), and adding the divisor back once leaves the exact digit and remainder
  (`QuotientDigit`), although the subtraction is done in a window that may be shorter than the divisor as stored (`DigitDone`).
  `div_exact` runs from the low end. `HenselKept` has an odd divisor, from the shift by its trailing zeros, whose length in limbs is
  bounded by the limbs of the loop, and `HenselEqn`: the dividend is the divisor times the limbs of the quotient, plus the limbs not yet
  cleared, less the meta-carry at the top of the window. A digit is right because `invert_odd` inverts the lowest limb modulo `B`:
  its seed is right in five bits (`SeedRight`), each step doubles them (`StepError`), and the number of steps is enough for any word size (`InverseRight`).
  Inside the dividend the borrow is stored in the limb above (`HenselInside`); at its end it is counted (`HenselAtEnd`), where the
  proof needs that the divisor in use still fits below the end.

  Boxed integers and wrappers, with `WrappersHold`. That a `NonZero` or an `Odd` keeps its promise depends on operations that
  drop limbs, and so on what the limbs held before; the invariant `ValuesKept` has both: the integer stored fits its limbs, of which there
  are at least one and at most `ValueLimbs`, and what its wrapper promises holds (`Good`), unless `resize_unchecked` of a wrapper has broken it and nothing since has made it
  legal, which the history variable `broken` says. One lemma per action says that every result is good; below them,
  loops that append a word and hand a carry on never leave the weight of the limbs done (`LimbsBelow`), whatever the carry, which covers sums,
  differences and negations of integers of unequal lengths. Four operations need more. A product of two `NonZero` or two `Odd` that does not overflow is neither zero nor even,
  since it is the whole product (`LegalProduct`). A random odd integer takes its bits from `|` with one, which keeps the lowest limb's
  lowest bit (`AndIs`, `LowestBit`). `try_resize` of a wrapped integer, to fewer limbs, trusts `leading_zeros`: limbs that were counted whole
  are zero, so that an integer with at most `p` bits counted fits the limbs that `p` bits take and keeps its value (`CountedFits`, `WithinBits`).
  `resize_unchecked` of a wrapper promises nothing: what it leaves fits, and if it is not legal it is marked as broken (`TruncateKeeps`); that it does happen is
  what the run `documented` shows. And `zeroize` of a wrapper has to leave a one.

**Only model-checked.** The other families of `Arith` (shifts, signed integers, roots and powers, Karatsuba), what the operations on boxed
integers return and answer (`ResultCorrect` and `QueriesAgree`, of `Values`), what the divisions return after their last digit, the properties of `Numbers`,
and its liveness (`Termination`), which is out of the prover's reach.
That Karatsuba's recursion computes products would be an induction over data, out of its reach too. `Encodings` uses the
bitwise operators, so that nothing can be proved in a module that reaches it, as `Numbers` does; the other
five families of `Numbers` can be proved about on their own.

## 5. The plan

What is left, most important first: proofs about families of `Arith` and `Numbers`.

1. `Division`: the end of the loops, from `DivInv` to quotient and remainder; division by one limb.
2. `Values`: `ResultCorrect` and `QueriesAgree`, operation by operation.
3. `Roots`: no Newton step falls below the root; `InverseTracks`.
4. `RandomMod`: results are in range and draws uniform; `SafeGcd`: `d` and `e` stay below the modulus.

## 6. Not modelled

* Trait declarations, operator sugar by value and by reference, size aliases, macros and
  generated impls: they forward to what is modelled.
* Formatting, serde, hybrid-array and zeroizing of memory as such; the DER reader and writer and
  the RLP stream, which are external and appear by what is read from and written to them.
* Constant-time behaviour: a property of the machine code, not of the values.
* The number of limbs at which a routine is chosen and which sizes the compiler instantiates:
  every routine is run at every size of the instances.
* The sequence of multiplications inside a reciprocal of 32 or 64 bits, and `u32_rem`: their
  reference definitions are used.
* Gcds, roots, shifts and random integers of a single limb or an `Int` as types of their own, where they
  forward to the routines of integers.
* Buffers of a multiplier that is kept while other calls are made: a run of consecutive calls is enough to meet
  everything the buffer may hold.
* What an operation on a `NonZero` or an `Odd` that an unchecked resize has broken returns, beyond `Values`:
  divisors and moduli of the other modules are nonzero and odd.
* Benches and tests: read as statements of what is intended.
