------------------------------- MODULE Arith -------------------------------
(***************************************************************************)
(* The routines on integers that know no modulus, in families: schoolbook  *)
(* and Karatsuba multiplication, long division, shifts, signed integers,   *)
(* roots and powers.  A behaviour is one call of one routine of a family,  *)
(* or, for integers of varying length and their wrappers, any sequence.    *)
(***************************************************************************)
EXTENDS Bits

CONSTANTS
    SchoolSizes, SchoolValues(_),         \* arguments of Schoolbook,
    KaratsubaSizes, KaratsubaValues(_),   \* of Karatsuba,
    DivisionShapes,                       \* of Division,
    ShiftSizes, ShiftValues(_),           \* of Shifts,
    SignedSizes, SignedValues(_),         \* of Signed,
    RootSizes, RootValues(_), RootExps,   \* of Roots
    InvertSizes, InvertValues(_), InvertWidths,
    PowSizes, PowValues(_), PowExpSizes,  \* of UintPow
    ValueLimbs, ValueOperands(_)          \* and of Values

\* Dividend and divisor have limbs, and the widest product of a division has a weight.
ASSUME ShapesAssumption ==
    \A shape \in DivisionShapes : /\ shape \in (0..N) \X (1..(2 * N)) \X (1..N)
                                  /\ shape[1] + shape[2] < 2 * N

VARIABLES
    family,       \* one of those below
    call,         \* the call
    out, aux,     \* what a loop works on
    i, flag,      \* its counter, a bit it carries along
    x_lo, x_hi, x_xi, extra_limbs,   \* the rest of Division's dividend,
    ylen, ywords, lshift,            \* of its divisor
    meta_carry, zero_hi,             \* and of its exact division
    pc, res

loop     == <<out, aux, i, flag>>
division == <<x_lo, x_hi, x_xi, extra_limbs, ylen, ywords, lshift, meta_carry, zero_hi>>
vars == <<family, call, loop, division, pc, res>>

School == INSTANCE Schoolbook WITH Sizes <- SchoolSizes, Values <- SchoolValues,
                                   carry <- aux, hi_bit <- flag
Kara   == INSTANCE Karatsuba WITH Sizes <- KaratsubaSizes, Values <- KaratsubaValues
Div    == INSTANCE Division WITH Shapes <- DivisionShapes, x <- out, y <- aux, yn <- ylen, xi <- i
Shift  == INSTANCE Shifts WITH Sizes <- ShiftSizes, Values <- ShiftValues
Sign   == INSTANCE Signed WITH Sizes <- SignedSizes, Values <- SignedValues
Root   == INSTANCE Roots WITH Sizes <- RootSizes, Values <- RootValues,
                              Exps <- RootExps, Inverted <- InvertValues,
                              Widths <- InvertWidths, x <- out, q <- aux
Pow    == INSTANCE UintPow WITH Sizes <- PowSizes, Values <- PowValues,
                                ExpSizes <- PowExpSizes,
                                ret <- out, product <- aux, pos <- i, overflow <- flag

Vals   == INSTANCE Values WITH Operands <- ValueOperands, val <- res, broken <- flag

\* Schoolbook is given operands that fit their limbs.
ASSUME SchoolAssumption == School!ArgumentsFit

\* And so is Values.
ASSUME ValuesAssumption == Vals!ArgumentsFit

NoLoop == out = 0 /\ aux = 0 /\ i = 0 /\ flag = 0

NoDivision ==
    /\ x_lo = 0 /\ x_hi = 0 /\ x_xi = 0 /\ extra_limbs = 0
    /\ ylen = 0 /\ ywords = 0 /\ lshift = 0 /\ meta_carry = 0 /\ zero_hi = TRUE

Init ==
    \/ family = "division" /\ Div!Init /\ flag = 0
    \/ /\ NoDivision
       /\ \/ family = "schoolbook" /\ School!Init
          \/ family = "karatsuba"  /\ Kara!Init   /\ NoLoop
          \/ family = "shifts"     /\ Shift!Init  /\ NoLoop
          \/ family = "signed"     /\ Sign!Init   /\ NoLoop
          \/ family = "roots"      /\ Root!Init   /\ flag = 0
          \/ family = "pow"        /\ Pow!Init
          \/ family = "values"     /\ Vals!Init   /\ NoLoop

Next ==
    \/ family = "division"   /\ Div!Next    /\ UNCHANGED <<family, flag>>
    \/ family = "schoolbook" /\ School!Next /\ UNCHANGED <<family, division>>
    \/ family = "karatsuba"  /\ Kara!Next   /\ UNCHANGED <<family, loop, division>>
    \/ family = "shifts"     /\ Shift!Next  /\ UNCHANGED <<family, loop, division>>
    \/ family = "signed"     /\ Sign!Next   /\ UNCHANGED <<family, loop, division>>
    \/ family = "roots"      /\ Root!Next   /\ UNCHANGED <<family, flag, division>>
    \/ family = "pow"        /\ Pow!Next    /\ UNCHANGED <<family, division>>
    \/ family = "values"     /\ Vals!Next   /\ UNCHANGED <<family, out, aux, i, division>>

\* A call that has returned is all; any other state that has no successor is a
\* deadlock that TLC reports.
Returned == pc = "done" /\ UNCHANGED vars

Spec == Init /\ [][Next \/ Returned]_vars
----------------------------------------------------------------------------
\* The debug assertions of the quotient estimates hold at every iteration.
AssertionsHold == family = "division" => Div!AssertionsHold

\* A long division keeps the dividend as the divisor times the quotient limbs
\* found plus a rest below it, from the high end or, exact, from the low end.
DigitsExact == family = "division" => Div!DigitsExact /\ Div!HenselExact

\* Between two iterations nothing is lost: the buffer of a schoolbook product
\* with its pending carry holds the rows done so far, an approximation of a root
\* is not below it and the next step cannot overflow, an inverse modulo a power
\* of two is right in the limbs done and zero above, and a power by squaring
\* and the overflow reported with it belong to the bits done so far.
LoopsExact ==
    /\ family = "schoolbook" => School!RowsExact
    /\ family = "roots"      => Root!NeverBelow /\ Root!InverseTracks
    /\ family = "pow"        => Pow!PowerTracks

\* Whatever is done in whatever order to a value, only an unchecked resize makes a
\* NonZero zero or an Odd even, also the value held by a CtOption that is none.
WrappersHold == family = "values" => Vals!WrappersHold

\* For integers of any two lengths, the comparisons and the questions about bits
\* give one answer in constant and in variable time, that of the integers.
QueriesAgree == family = "values" => Vals!QueriesAgree

\* Products and squares, quotients and remainders, shifts, signed sums, products
\* and quotients, roots and powers are those of the integers, also for integers
\* of unequal lengths and in wrappers; what does not fit is cut off, none, the
\* nearest bound or a panic, as the routine says, and nothing that fits is.
ResultCorrect ==
    /\ family = "schoolbook" => School!ResultCorrect
    /\ family = "karatsuba"  => Kara!ResultCorrect
    /\ family = "division"   => Div!ResultCorrect
    /\ family = "shifts"     => Shift!ResultCorrect
    /\ family = "signed"     => Sign!ResultCorrect
    /\ family = "roots"      => Root!ResultCorrect
    /\ family = "pow"        => Pow!ResultCorrect
    /\ family = "values"     => Vals!ResultCorrect

\* Newton's iterations in variable time come strictly closer to the root in
\* every step, so that they end; Uint's in constant time never move away.
NewtonDescends == [][family = "roots" => Root!Descends]_vars
============================================================================
