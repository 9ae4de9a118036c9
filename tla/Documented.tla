----------------------------- MODULE Documented -----------------------------
(***************************************************************************)
(* Statements of the documentation, and of the assertions, that the code   *)
(* does not keep.  Each is defined beside the routine it is about:         *)
(*                                                                         *)
(*   "root"       Roots!RootIsReturned         src/src/uint/root.rs        *)
(*   "remainder"  Signed!RemainderHasSign      src/src/int/div_unsigned.rs *)
(*   "quotient"   Signed!QuotientFits          src/src/int/div.rs          *)
(*   "precision"  Encodings!PrecisionRefused   uint/boxed/encoding.rs      *)
(*   "limbs"      Encodings!HasLimbs           uint/ref_type/cmp.rs        *)
(*   "inverse"    SafeGcd!InverseIsReturned    uint/boxed/invert_mod.rs    *)
(*   "parameters" ModSqrt!ParametersExact      modular/prime_params.rs     *)
(*   "wrapper"    Values!WrapperIsOne          non_zero.rs, odd.rs         *)
(*                                                                         *)
(* A behaviour is a program that calls these routines one after another,   *)
(* each with a few arguments; `contradicted` remembers the statements that *)
(* what was returned contradicts.                                          *)
(***************************************************************************)
EXTENDS Bits, Sequences

CONSTANTS RootArguments,   \* integers whose roots are taken,
          RootExps,        \* and their degrees
          Dividends,       \* signed integers of two limbs, by their bits, also divisors
          Divisors,        \* unsigned integers of one limb
          ByteBits,
          OneByte,         \* bytes, read in strings of two
          Precisions,      \* to so many bits
          OneDigit,        \* text of one digit
          Moduli,          \* of two limbs
          Inverted,        \* of one limb
          Primes, Replaced, Generators,   \* whose parameters are assigned over others
          ToBeWrapped      \* integers of two limbs to be made a NonZero or an Odd

VARIABLES
    contradicted,    \* history: the statements contradicted so far
    statement,       \* what the call in progress is about, "none" between calls
    call,            \* of Roots, Signed and Values
    routine, lhs, rhs, adjuster, aux, d, e, delta,   \* of SafeGcd, Encodings and ModSqrt
    a, b, i,         \* what loops work on
    pc, res

ofGcd == <<adjuster, delta>>
vars  == <<contradicted, statement, call, routine, lhs, rhs, aux, d, e, ofGcd, a, b, i, pc, res>>

None(n)     == {}
InTwo(S, n) == IF n = 2 THEN S ELSE {}
InOne(S, n) == IF n = 1 THEN S ELSE {}

Root == INSTANCE Roots WITH Values <- LAMBDA n : InTwo(RootArguments, n), Sizes <- {2},
            Exps <- RootExps, Inverted <- None, InvertSizes <- {}, Widths <- {},
            x <- a, q <- b
Sign == INSTANCE Signed WITH Values <- LAMBDA n : IF n = 2 THEN Dividends ELSE Divisors,
            Sizes <- {1, 2}
Code == INSTANCE Encodings WITH
            RADIX_ENCODING_LIMBS_LARGE <- 2, RADIX_ENCODING_THRESHOLD_LARGE <- 3,
            Radices <- {10}, Texts <- None, TextLimbs <- {}, Encoded <- None, EncodedLimbs <- {},
            ByteStrings <- [1..2 -> OneByte], ByteLimbs <- {1}, HexStrings <- {}, HexFirst <- {},
            HexSecond <- {}, limbs <- a, len <- b, text <- aux, high <- d, high_len <- e,
            bits_acc <- delta, start <- i
Safe == INSTANCE SafeGcd WITH Sizes <- {<<2, 1>>}, Lefts <- LAMBDA n : InTwo(Moduli, n),
            Rights <- LAMBDA n : InOne(Inverted, n), sizes <- aux, f <- a, g <- b, steps <- i
Prim == INSTANCE ModSqrt WITH Generators <- LAMBDA q : Generators, Squares <- LAMBDA q : {1},
            Assigned <- LAMBDA q : Replaced, params <- aux, x <- a, z <- e, v <- delta, max_v <- i
Vals == INSTANCE Values WITH ValueLimbs <- 2, Operands <- LAMBDA n : InTwo(ToBeWrapped, n),
            val <- res, broken <- i

Statements ==
    {"root", "remainder", "quotient", "precision", "limbs", "inverse", "parameters", "wrapper"}

Init ==
    /\ contradicted = {}
    /\ statement = "none" /\ call = Vals!NoCall /\ pc = "idle" /\ res = <<>>
    /\ routine = "none" /\ lhs = 0 /\ rhs = 0 /\ aux = <<>>
    /\ d = 0 /\ e = 0 /\ delta = 1 /\ adjuster = 1 /\ a = 0 /\ b = 0 /\ i = 0
----------------------------------------------------------------------------
\* A call is made, in the state in which its own specification begins.
Begin(s) ==
    /\ pc = "idle" /\ statement' = s
    /\ UNCHANGED contradicted

CallRoot ==
    /\ Begin("root")
    /\ call' \in Root!RootCalls
    /\ pc' = "call"
    /\ UNCHANGED <<routine, lhs, rhs, aux, d, e, ofGcd, a, b, i, res>>

CallRemainder ==
    /\ Begin("remainder")
    /\ call' \in {c \in Sign!Calls : c.routine = "div_rem_unsigned" /\ c.xn = 2 /\ c.yn = 1}
    /\ pc' = "call"
    /\ UNCHANGED <<routine, lhs, rhs, aux, d, e, ofGcd, a, b, i, res>>

CallQuotient ==
    /\ Begin("quotient")
    /\ call' \in {c \in Sign!Calls : c.routine = "div_rem" /\ c.xn = 2 /\ c.yn = 2}
    /\ pc' = "call"
    /\ UNCHANGED <<routine, lhs, rhs, aux, d, e, ofGcd, a, b, i, res>>

CallPrecision ==
    /\ Begin("precision")
    /\ routine' = "boxed_from_slice" /\ lhs' \in [1..2 -> OneByte]
    /\ \E p \in Precisions, order \in Code!Orders : rhs' = Code!Rhs(0, 1, p, order)
    /\ delta' = 0 /\ pc' = "enter" /\ res' = Code!No
    /\ UNCHANGED <<call, aux, d, e, adjuster, a, b, i>>

CallLimbs ==
    /\ Begin("limbs")
    /\ routine' = "from_str_boxed" /\ lhs' \in {<<c>> : c \in OneDigit}
    /\ rhs' = Code!Rhs(10, 0, 0, "be")
    /\ delta' = 0 /\ pc' = "enter" /\ res' = Code!No
    /\ UNCHANGED <<call, aux, d, e, adjuster, a, b, i>>

CallInverse ==
    /\ Begin("inverse")
    /\ routine' \in {"invert", "invert_vartime"} /\ aux' = <<2, 1>>
    /\ lhs' \in Moduli /\ rhs' \in Inverted
    /\ a' = 1 /\ pc' = "enter" /\ res' = <<0, FALSE>>
    /\ UNCHANGED <<call, d, e, ofGcd, b, i>>

CallParameters ==
    /\ Begin("parameters")
    /\ \E q \in Primes, g \in Generators, old \in Replaced : rhs' = [p |-> q, g |-> g, old |-> old]
    /\ lhs' = 1 /\ aux' = Prim!NoParams
    /\ delta' = 0 /\ pc' = "enter" /\ res' = Prim!No
    /\ UNCHANGED <<call, routine, d, e, adjuster, a, b, i>>

CallWrapper ==
    /\ Begin("wrapper")
    /\ \E v \in ToBeWrapped : res' = Vals!As("uint", Vals!U(v, 2))
    /\ pc' = "ready"
    /\ UNCHANGED <<call, routine, lhs, rhs, aux, d, e, ofGcd, a, b, i>>

Begins == \/ CallRoot \/ CallRemainder \/ CallQuotient \/ CallPrecision \/ CallLimbs
          \/ CallInverse \/ CallParameters \/ CallWrapper

\* And runs as that specification says; an integer is wrapped and then resized.
Runs ==
    /\ UNCHANGED <<contradicted, statement>>
    /\ \/ /\ statement = "root" /\ Root!Next
          /\ UNCHANGED <<routine, lhs, rhs, aux, d, e, ofGcd>>
       \/ /\ statement \in {"remainder", "quotient"} /\ Sign!Next
          /\ UNCHANGED <<routine, lhs, rhs, aux, d, e, ofGcd, a, b, i>>
       \/ statement \in {"precision", "limbs"} /\ Code!Next /\ UNCHANGED <<call, adjuster>>
       \/ statement = "inverse" /\ Safe!Next /\ UNCHANGED call
       \/ statement = "parameters" /\ Prim!Next /\ UNCHANGED <<call, routine, b, adjuster>>
       \/ /\ statement = "wrapper" /\ (Vals!Wrap \/ Vals!Resize \/ Vals!Continue)
          /\ UNCHANGED <<routine, lhs, rhs, aux, d, e, ofGcd, a, b>>

Kept(s) ==
    CASE s = "root"      -> Root!RootIsReturned
      [] s = "remainder" -> Sign!RemainderHasSign
      [] s = "quotient"  -> Sign!QuotientFits
      [] s = "precision" -> Code!PrecisionRefused
      [] s = "limbs"     -> Code!HasLimbs
      [] s = "inverse"   -> Safe!InverseIsReturned
      [] s = "parameters" -> Prim!ParametersExact
      [] s = "wrapper"   -> Vals!WrapperIsOne

\* It has returned: the program looks at the result and forgets it.
End ==
    /\ pc \in {"done", "ready"}
    /\ contradicted' = IF Kept(statement) THEN contradicted ELSE contradicted \cup {statement}
    /\ statement' = "none" /\ call' = Vals!NoCall /\ pc' = "idle" /\ res' = <<>>
    /\ routine' = "none" /\ lhs' = 0 /\ rhs' = 0 /\ aux' = <<>>
    /\ d' = 0 /\ e' = 0 /\ delta' = 1 /\ adjuster' = 1 /\ a' = 0 /\ b' = 0 /\ i' = 0

Next == Begins \/ Runs \/ End

Spec == Init /\ [][Next]_vars
----------------------------------------------------------------------------
=============================================================================
