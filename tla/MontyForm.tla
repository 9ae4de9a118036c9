------------------------------ MODULE MontyForm ------------------------------
(***************************************************************************)
(* Integers in Montgomery form: registers that share the parameters of one *)
(* odd modulus, and the calls of the public interface.  The forms are      *)
(* fixed (FixedMontyForm, and ConstMontyForm, which is the fixed one with  *)
(* the parameters of its type) or boxed (BoxedMontyForm); see              *)
(* src/src/modular/{fixed,const,boxed}_monty_form.rs and their submodules. *)
(* Register values are the raw montgomery_form limbs; nothing but the      *)
(* operations themselves keeps them below the modulus.                     *)
(***************************************************************************)
EXTENDS ModOps

CONSTANTS
    Regs,      \* the forms the caller holds
    Moduli,    \* the odd moduli considered
    MaxRepeat  \* bound on the count of square_repeat_vartime

ASSUME ModuliAssumption == Moduli \subseteq {n \in Uint : n % 2 = 1}
ASSUME RepeatAssumption == MaxRepeat \in Nat
\* The word base is a power of two, so that an odd modulus has the inverse that
\* the parameters hold in mod_neg_inv.
ASSUME NegInvAssumption == \A n \in Moduli : \E k \in Word : IsModNegInv(k, n)

VARIABLES
    m,        \* params.modulus
    one,      \* params.one
    r2,       \* params.r2
    boxed,    \* BoxedMontyForm rather than FixedMontyForm?
    reg,      \* the montgomery_form of each register
    product,  \* the buffer of the caller's BoxedMontyMultiplier, 0 without one
    call      \* history: the last call, as in ResidueRing

vars   == <<m, one, r2, boxed, reg, product, call>>
params == <<m, one, r2>>

\* FixedMontyParams::new and BoxedMontyParams::new, and registers set to zero.
Init ==
    /\ m \in Moduli
    /\ one = ParamOne(m)
    /\ r2 = ParamR2(m)
    /\ boxed \in BOOLEAN
    /\ reg = [d \in Regs |-> 0]
    /\ product = 0
    /\ call = <<"none", 0, 0, 0>>

Record(op, d, s, n, v) ==
    /\ reg' = [reg EXCEPT ![d] = v]
    /\ call' = <<op, d, s, n>>
    /\ UNCHANGED <<params, boxed>>

\* A call without the multiplier.  It ends a run of calls that share one (the
\* bound on how long the caller keeps it), whose buffer Drop zeroizes.
Assign(op, d, s, n, v) == Record(op, d, s, n, v) /\ product' = 0

Choose(fixed_form, boxed_form) == IF boxed THEN boxed_form ELSE fixed_form

(***************************************************************************)
(* The boxed multiplication accumulates into out, which its caller zeroed, *)
(* and corrects in place.                                                  *)
(***************************************************************************)
montgomery_mul(a, b, out) ==
    LET acc == Acc(out + a * b, m)
    IN  SubAssignModWithCarry(Out(acc), Over(acc), m)

BoxedNew(v)    == montgomery_mul(v, r2, 0)
BoxedMul(a, b) == montgomery_mul(a, b, 0)

\* new of any integer, reduced or not.
New(d, v) ==
    Assign("load", d, 0, v, Choose(mul_montgomery_form(v, r2, m),
                                   BoxedNew(v)))

Zero(d) == \E s \in Regs : Assign("zero", d, s, 0, 0)
One(d)  == \E s \in Regs : Assign("one", d, s, 0, one)

CopyFrom(d, s) == Assign("copy", d, s, 0, reg[s])

BoxedAdd(a, b) == BoxedAddMod(a, b, m)
BoxedDouble(a) == BoxedDoubleMod(a, m)
BoxedSub(a, b) == BoxedSubMod(a, b, m)

Add(d, s) ==
    Assign("add", d, s, 0,
           Choose(AddMod(reg[d], reg[s], m), BoxedAdd(reg[d], reg[s])))
Double(d, s) ==
    Assign("double", d, s, 0, Choose(DoubleMod(reg[s], m), BoxedDouble(reg[s])))
Sub(d, s) ==
    Assign("sub", d, s, 0,
           Choose(SubMod(reg[d], reg[s], m), BoxedSub(reg[d], reg[s])))

\* The two types negate and halve alike.
Neg(d, s)      == Assign("neg", d, s, 0, NegMod(reg[s], m))
DivByTwo(d, s) == Assign("half", d, s, 0, DivBy2(reg[s], m))

\* mul and square; the boxed ones accumulate into a new integer.
Mul(d, s) ==
    Assign("mul", d, s, 0, Choose(mul_montgomery_form(reg[d], reg[s], m),
                                  BoxedMul(reg[d], reg[s])))
Square(d, s) ==
    Assign("square", d, s, 0, Choose(square_montgomery_form(reg[s], m),
                                     BoxedMul(reg[s], reg[s])))

\* Only the fixed forms have it.
SquareRepeat(d, s, n) ==
    /\ ~boxed
    /\ Assign("square_repeat", d, s, n,
              square_repeat_montgomery_form(reg[s], n, m))

\* The product is accumulated into what the buffer holds and copied to lhs.
Multiply(op, d, s, buffer) ==
    LET v == montgomery_mul(reg[d], reg[s], buffer)
    IN  boxed /\ Record(op, d, s, 0, v) /\ product' = v

\* Slip: the buffer is not zeroed before it is used again.
MulAssignUncleared(d, s) == Multiply("mul", d, s, product)

\* mul_assign and square_assign of a BoxedMontyMultiplier: set_zero first.
MulAssign(d, s) == Multiply("mul", d, s, 0)
SquareAssign(d, s) == d = s /\ Multiply("square", d, s, 0)

\* Deserialize of a ConstMontyForm takes limbs as they are and refuses those
\* that are not reduced; the integer is what it retrieves to.
Deserialize(d, form) ==
    /\ ~boxed /\ form < m
    /\ Assign("load", d, 0, montgomery_retrieve(form, m), form)

\* From a fixed or constant form, parameters included.
IntoBoxed ==
    /\ ~boxed /\ boxed' = TRUE
    /\ UNCHANGED <<params, reg, product, call>>

Call(d) == \/ \E v \in Uint : New(d, v) \/ Deserialize(d, v)
           \/ Zero(d) \/ One(d)
           \/ \E s \in Regs :
                \/ CopyFrom(d, s)
                \/ Add(d, s) \/ Double(d, s) \/ Sub(d, s) \/ Neg(d, s)
                \/ DivByTwo(d, s)
                \/ Mul(d, s) \/ Square(d, s)
                \/ MulAssign(d, s) \/ SquareAssign(d, s)
                \/ \E n \in 0..MaxRepeat : SquareRepeat(d, s, n)

Next == IntoBoxed \/ \E d \in Regs : Call(d)

Spec == Init /\ [][Next]_vars
-----------------------------------------------------------------------------
\* The variables have their types; the forms are canonical (below
\* m), so that Eq, which compares their limbs, tells residues apart and nothing
\* else.
TypeOK ==
    /\ m \in Moduli
    /\ one \in 0..(m - 1) /\ r2 \in 0..(m - 1)
    /\ boxed \in BOOLEAN
    /\ reg \in [Regs -> 0..(m - 1)]
    /\ product \in 0..(m - 1) /\ (product # 0 => boxed)

\* The residue a form stands for: form * R^-1 modulo m.
Residue(form) == CHOOSE v \in 0..(m - 1) : (v * R) % m = form % m

\* Every call is the operation of the residue ring on what the forms stand
\* for, whatever was computed before: loading reduces any integer, one is one
\* (and zero when m = 1), a multiplier's products do not depend on the ones it
\* made before, and a form keeps its meaning when it changes its type.
Ring == INSTANCE ResidueRing
            WITH reg <- [d \in Regs |-> Residue(reg[d])],
                 Numbers <- Uint, Counts <- 0..MaxRepeat
ImplementsRing == Ring!RingSpec

\* retrieve, which corrects nothing, returns the residue itself, reduced.
RetrieveExact ==
    \A d \in Regs : montgomery_retrieve(reg[d], m) = Residue(reg[d])

\* square_repeat_montgomery_form (mul.rs): "intermediate results are in Almost
\* Montgomery form ... may require the modulus to be subtracted twice", so the
\* two corrections at the end leave the result reduced.
SquareRepeatReduced == call[1] = "square_repeat" => reg[call[2]] < m
==============================================================================
