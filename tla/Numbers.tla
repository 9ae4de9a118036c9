------------------------------ MODULE Numbers ------------------------------
(***************************************************************************)
(* Number theory and the ways in and out of the program: the three         *)
(* families of gcd routines, square roots modulo a prime, text and bytes,  *)
(* and random integers.  A behaviour is one call of one routine of one     *)
(* family; the families share the variables.                               *)
(***************************************************************************)
EXTENDS Bits

CONSTANTS
    Odds, Others,                           \* arguments of BinGcd,
    XgcdLefts, XgcdRights, SignedCalls,     \* of Xgcd
    SafeSizes, SafeLefts(_), SafeRights(_), \* of SafeGcd
    Primes, Generators(_), Squares(_), Assigned(_),      \* of ModSqrt
    ByteBits, RADIX_ENCODING_LIMBS_LARGE, RADIX_ENCODING_THRESHOLD_LARGE,
    Radices, Texts(_), TextLimbs, Encoded(_), EncodedLimbs,
    ByteStrings, ByteLimbs, Precisions,
    HexStrings, HexFirst, HexSecond,                     \* of Encodings
    Moduli, RandLimbs, BitLengths, RandPrecisions        \* and of RandomMod

VARIABLES
    family,                       \* "bingcd", "xgcd", "safegcd", "sqrt", "encoding" or "random"
    routine, lhs, rhs,            \* the call
    a, b, i,                      \* the integers and the iterations (steps)
    jacobi_neg,                   \* of BinGcd
    signed,                       \* of Xgcd
    adjuster,                     \* of SafeGcd
    matrix,                       \* of Xgcd; sizes; the parameters of a prime; text
    d, e, delta,                  \* of SafeGcd and ModSqrt; what is left to encode
    pc, res

ofCoefficients == <<d, e, delta>>
ofGcds == <<jacobi_neg, signed, adjuster>>
vars == <<family, routine, lhs, rhs, a, b, i, matrix, ofCoefficients, ofGcds,
          pc, res>>

Bin  == INSTANCE BinGcd WITH iterations <- i
Ext  == INSTANCE Xgcd WITH Lefts <- XgcdLefts, Rights <- XgcdRights
Safe == INSTANCE SafeGcd WITH Sizes <- SafeSizes, Lefts <- SafeLefts, Rights <- SafeRights,
                              sizes <- matrix, f <- a, g <- b, steps <- i

Root == INSTANCE ModSqrt WITH params <- matrix, x <- a, z <- e, v <- delta, max_v <- i
Code == INSTANCE Encodings WITH limbs <- a, len <- b, text <- matrix, high <- d,
                                high_len <- e, bits_acc <- delta, start <- i
Rand == INSTANCE RandomMod WITH x <- a

IdleGcds == jacobi_neg = FALSE /\ signed = FALSE /\ adjuster = 1
IdleCoefficients == d = 0 /\ e = 0 /\ delta = 1

Init ==
    \/ /\ family = "bingcd" /\ Bin!Init
       /\ signed = FALSE /\ adjuster = 1 /\ matrix = Ext!UNIT /\ IdleCoefficients
    \/ /\ family = "xgcd" /\ Ext!Init
       /\ jacobi_neg = FALSE /\ adjuster = 1 /\ IdleCoefficients
    \/ /\ family = "safegcd" /\ Safe!Init
       /\ jacobi_neg = FALSE /\ signed = FALSE
    \/ /\ family = "sqrt" /\ Root!Init
       /\ routine = "sqrt" /\ b = 0 /\ IdleGcds
    \/ /\ family = "encoding" /\ Code!Init /\ IdleGcds
    \/ /\ family = "random" /\ Rand!Init
       /\ b = 0 /\ i = 0 /\ matrix = Ext!UNIT /\ IdleCoefficients /\ IdleGcds

Next ==
    /\ UNCHANGED family
    /\ \/ /\ family = "bingcd" /\ Bin!Next
          /\ UNCHANGED <<signed, adjuster, matrix, ofCoefficients>>
       \/ /\ family = "xgcd" /\ Ext!Next
          /\ UNCHANGED <<jacobi_neg, adjuster, ofCoefficients>>
       \/ family = "safegcd"  /\ Safe!Next /\ UNCHANGED <<jacobi_neg, signed>>
       \/ family = "sqrt"     /\ Root!Next /\ UNCHANGED <<routine, b, ofGcds>>
       \/ family = "encoding" /\ Code!Next /\ UNCHANGED ofGcds
       \/ family = "random"   /\ Rand!Next /\ UNCHANGED <<b, i, matrix, ofCoefficients, ofGcds>>

\* A call that has returned is all; any other state that has no successor is a
\* deadlock that TLC reports.
Returned == pc = "done" /\ UNCHANGED vars

\* A call runs to its end: weak fairness of Next, which is enabled until then.
Progress == []<>(pc = "done") \/ []<><<Next>>_vars

\* A fair generator does not draw integers that are rejected for ever.
DrawAccepted ==
    /\ family = "random" /\ Rand!Accept
    /\ UNCHANGED <<family, b, i, matrix, ofCoefficients, ofGcds>>

Spec == Init /\ [][Next \/ Returned]_vars /\ Progress /\ SF_vars(DrawAccepted)
----------------------------------------------------------------------------
\* The assertions and expectations of the code hold and no fixed-width value
\* overflows, in each of the families; the parameters of a prime and of a radix
\* are those of that prime and radix.
AssertionsHold ==
    /\ family = "bingcd"   => Bin!AssertionsHold
    /\ family = "xgcd"     => Ext!AssertionsHold
    /\ family = "safegcd"  => Safe!AssertionsHold
    /\ family = "sqrt"     => Root!AssertionsHold
    /\ family = "encoding" => Code!AssertionsHold

\* The integers a loop works on keep the gcd of the arguments, and what is
\* recorded along with them (a matrix, or the coefficients d and e) leads from
\* the arguments to them.
CoefficientsTrack ==
    /\ family = "bingcd"  => Bin!GcdPreserved
    /\ family = "xgcd"    => Ext!RowsTrack
    /\ family = "safegcd" => Safe!CoefficientsTrack

\* The sign of the Jacobi symbol is right at every step of the binary gcd.
JacobiExact == family = "bingcd" => Bin!JacobiExact

\* At every step of reading and writing text the limbs and the digits together
\* are the argument: no digit or carry is lost between limbs and batches.
TextTracks == family = "encoding" => Code!TextTracks

\* The square of what becomes a root modulo a prime stays the value, up to a
\* root of unity whose order the iterations bound.
RootTracks == family = "sqrt" => Root!RootTracks

\* However many draws were rejected, the next is uniform.
DrawsUniform == family = "random" => Rand!DrawsUniform

\* Gcds, symbols, quotients, Bezout coefficients, inverses and roots are right;
\* text and bytes are read and written as the integers they denote, or refused;
\* random integers are in their range.
ResultCorrect ==
    /\ family = "bingcd"   => Bin!ResultCorrect
    /\ family = "xgcd"     => Ext!ResultCorrect
    /\ family = "safegcd"  => Safe!ResultCorrect
    /\ family = "sqrt"     => Root!ResultCorrect
    /\ family = "encoding" => Code!ResultCorrect
    /\ family = "random"   => Rand!ResultCorrect

\* "Given (self, rhs), computes (g, x, y) s.t. self * x + rhs * y = g": the
\* documentation of the extended gcd, of any arguments.
BezoutIdentity == family = "xgcd" => Ext!BezoutIdentity

\* Every call returns, those in variable time included, whose loops end only
\* when an integer has become zero, and those that reject what is drawn.
Termination == <>(pc = "done")
============================================================================
