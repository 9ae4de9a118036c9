----------------------------- MODULE MontyLimbs -----------------------------
(***************************************************************************)
(* The inner loops of Montgomery arithmetic that work limb by limb on an   *)
(* accumulator they overwrite while they read it: multiplication (Fios),   *)
(* reduction of a double-width operand (Redc), the product by one that     *)
(* leaves Montgomery form (Retrieve) and the interleaved sum of products   *)
(* (Lincomb).  A behaviour is one call of one of them.                     *)
(***************************************************************************)
EXTENDS ModOps, Sequences

CONSTANTS
    BITS,        \* Word::BITS
    Moduli,      \* the moduli considered
    Products(_)  \* for a modulus, the arguments of a linear combination

ASSUME BitsAssumption     == BITS \in Nat /\ B = PowerOfTwo(BITS)
ASSUME ModuliAssumption   == Moduli \subseteq {n \in Uint : n % 2 = 1}
ASSUME ProductsAssumption ==
    \A n \in Moduli :
        Products(n) \subseteq Seq((0..(n - 1)) \X (0..(n - 1))) \ {<<>>}

VARIABLES
    routine,       \* "multiply", "reduce", "retrieve" or "lincomb"
    x, y, t, m, k, \* factors, double-width operand, modulus and mod_neg_inv
    out,           \* the accumulator of a product
    lower, upper,  \* the halves of a reduction
    meta_carry,    \* the carry out of the row before
    i, j,          \* the row and the limb
    u, carry,      \* the row's multiple of the modulus and running carry
    products,      \* a linear combination: the pairs,
    first, count,  \* the window of pairs it works on
    ret,           \* and the sum of the windows before it
    pc,            \* the place in the routine
    acc, q         \* history, as in MontyRows

ofProduct   == <<x, y, out, acc>>
ofReduction == <<t, lower, upper>>
ofLincomb   == <<products, first, count, ret>>
vars == <<routine, x, y, t, m, k, out, lower, upper, meta_carry, i, j, u,
          carry, ofLincomb, pc, acc, q>>

Mul == INSTANCE Fios
Red == INSTANCE Redc
Ret == INSTANCE Retrieve
\* The accumulator u is out; hi and hi_carry are the two carries.
Lin == INSTANCE Lincomb WITH u <- out, hi <- carry, hi_carry <- meta_carry

NoLincomb == products = <<>> /\ first = 1 /\ count = 0 /\ ret = 0

Init ==
    /\ m \in Moduli
    /\ \/ /\ routine = "multiply" /\ Mul!Init
          /\ t = 0 /\ lower = 0 /\ upper = 0 /\ NoLincomb
       \/ /\ routine = "reduce" /\ Red!Init
          /\ x = 0 /\ y = 0 /\ out = 0 /\ acc = 0 /\ NoLincomb
       \/ /\ routine = "retrieve" /\ Ret!Init
          /\ y = 1 /\ t = 0 /\ lower = 0 /\ upper = 0
          /\ meta_carry = 0 /\ carry = 0 /\ NoLincomb
       \/ /\ routine = "lincomb" /\ Lin!Init
          /\ x = 0 /\ y = 0 /\ acc = 0 /\ u = 0
          /\ t = 0 /\ lower = 0 /\ upper = 0

Next ==
    /\ UNCHANGED routine
    /\ \/ /\ routine = "multiply" /\ Mul!Next
          /\ UNCHANGED <<ofReduction, ofLincomb>>
       \/ /\ routine = "reduce" /\ Red!Next
          /\ UNCHANGED <<ofProduct, ofLincomb>>
       \/ /\ routine = "retrieve" /\ Ret!Next
          /\ UNCHANGED <<ofReduction, ofLincomb, y, meta_carry, carry>>
       \/ /\ routine = "lincomb" /\ Lin!Next
          /\ UNCHANGED <<ofReduction, x, y, acc, u>>

Spec == Init /\ [][Next]_vars
----------------------------------------------------------------------------
\* No wide addition of the multiplication that is meant to fit overflows (the
\* bounds in the comments of mul.rs), and what leaves a row is one bit, as is the
\* meta-carry of a reduction, which the code keeps in a limb, whatever the
\* operand; carries and words fit their types in all four routines.
WideSumsFit ==
    /\ routine = "multiply" => Mul!TypeOK /\ Mul!WideSumsFit
    /\ routine = "reduce"   => Red!TypeOK
    /\ routine = "retrieve" => Ret!TypeOK
    /\ routine = "lincomb"  => Lin!TypeOK

\* In the middle of a row, the limbs already overwritten together with the
\* running carry (or the one parked in the limb below) are exact, and the
\* limbs not yet read are those of the row before: no carry is lost where a
\* limb is stored one place down, where the reduction crosses from the lower
\* to the upper half, where the carry has no variable of its own, or however
\* many pairs of a linear combination share a row.
RowPrefixExact ==
    /\ routine = "multiply" => Mul!RowPrefixExact
    /\ routine = "reduce"   => Red!RowsExact /\ Red!RowPrefixExact
    /\ routine = "retrieve" => Ret!ParkedCarryExact
    /\ routine = "lincomb"  => Lin!WindowExact

\* A reduction is reduced by one correction whenever the operand is below
\* m * R, retrieval needs none for any operand that is not a nonzero multiple
\* of the modulus, and a linear combination needs one for each window of
\* max_accum pairs; the windows add up to the reduced sum of products.
ResultReduced ==
    /\ routine = "reduce"   => Red!ResultReduced
    /\ routine = "retrieve" => Ret!NeedsNoCorrection
    /\ routine = "lincomb"  => Lin!LincombCorrect

\* The rows of a multiplication and of a retrieval (as a multiplication by
\* one) are those of MontyRows.  The other two are not instances of it and are
\* mapped to a call not yet begun.
Other == routine \in {"reduce", "lincomb"}
Rows == INSTANCE MontyRows
            WITH caller <- IF routine = "multiply" THEN "amm" ELSE "mul",
                 res <- 0,
                 acc <- IF Other THEN 0 ELSE acc,
                 q   <- IF Other THEN 0 ELSE q,
                 i   <- IF Other THEN 0 ELSE i,
                 pc  <- IF pc = "done" /\ ~Other THEN "correct" ELSE "rows"
ImplementsRows == Rows!Spec
============================================================================
