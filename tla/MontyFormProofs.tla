---------------------------- MODULE MontyFormProofs ----------------------------
(***************************************************************************)
(* Montgomery forms, for every word base, number of limbs, set of odd      *)
(* moduli and sequence of calls: the forms stay canonical, retrieval       *)
(* returns the residue, and every call is the operation of the residue     *)
(* ring on what the forms stand for.                                       *)
(*                                                                         *)
(* Repeated squaring is the exception the runs found: the results hold for *)
(* the moduli and counts of SafeToRepeat.                                  *)
(***************************************************************************)
EXTENDS MontyForm, LimbsProofs

\* The inductive invariant: the forms are canonical and the parameters are
\* those of the modulus, which square_repeat may be used with.
Inv ==
    /\ TypeOK
    /\ one = ParamOne(m) /\ r2 = ParamR2(m)
    /\ SafeToRepeat(m, MaxRepeat)

----------------------------------------------------------------------------
(* What the forms stand for.                                               *)

\* The modulus is a positive N-limb integer with an inverse.
LEMMA Modulus ==
    ASSUME m \in Moduli
    PROVE  /\ m \in Uint /\ m \in Nat /\ m > 0 /\ m < R /\ m % 2 = 1
           /\ HasNegInv(m) /\ R \in Nat
<1>1. m \in Uint /\ m % 2 = 1 /\ HasNegInv(m)
  BY ModuliAssumption, NegInvAssumption DEF HasNegInv
<1>2. 0 % 2 = 0
  BY SMT
<1> QED
  BY <1>1, <1>2, BaseFacts, SMT DEF Uint

\* A form stands for its residue.
LEMMA ResidueStands ==
    ASSUME m \in Moduli, NEW form \in Nat
    PROVE  Residue(form) \in 0..(m - 1) /\ Stands(form, Residue(form), m)
<1>1. \E v \in 0..(m - 1) : (v * R) % m = form % m
  BY Modulus, ResidueExists
<1>2. /\ Residue(form) \in 0..(m - 1)
      /\ (Residue(form) * R) % m = form % m
  BY <1>1 DEF Residue
<1> QED
  BY <1>2, Modulus, SMT DEF Stands

\* And for nothing else.
LEMMA ResidueIs ==
    ASSUME m \in Moduli, NEW form \in Nat, NEW v \in 0..(m - 1),
           Stands(form, v, m)
    PROVE  Residue(form) = v
<1>1. /\ Residue(form) \in 0..(m - 1)
      /\ (Residue(form) * R) % m = (v * R) % m
  BY ResidueStands DEF Stands
<1> QED
  BY <1>1, Modulus, ResidueUnique

----------------------------------------------------------------------------
(* The value each call assigns.                                            *)

\* Value v goes into the destination of a call named op, and is the form of
\* what the ring makes of the operands a and b.
Performs(op, a, b, v) ==
    /\ v \in 0..(m - 1)
    /\ Residue(v) = Ring!Apply(op, Residue(a), Residue(b))

\* The additive operations, in both types.
LEMMA AdditiveForms ==
    ASSUME Inv, NEW a \in 0..(m - 1), NEW b \in 0..(m - 1)
    PROVE  /\ Performs("add", a, b, AddMod(a, b, m))
           /\ Performs("add", a, b, BoxedAdd(a, b))
           /\ Performs("double", a, b, DoubleMod(b, m))
           /\ Performs("double", a, b, BoxedDouble(b))
           /\ Performs("sub", a, b, SubMod(a, b, m))
           /\ Performs("sub", a, b, BoxedSub(a, b))
           /\ Performs("neg", a, b, NegMod(b, m))
<1> DEFINE v == Residue(a)
           w == Residue(b)
<1>1. /\ m \in Moduli /\ m \in Uint /\ m \in Nat /\ m > 0 /\ m < R
      /\ a \in Uint /\ b \in Uint /\ a \in Nat /\ b \in Nat /\ a < m /\ b < m
  <2>1. m \in Moduli
    BY DEF Inv, TypeOK
  <2>2. m \in Uint /\ m \in Nat /\ m > 0 /\ m < R /\ R \in Nat
    BY <2>1, Modulus
  <2> QED
    BY <2>1, <2>2, SMT DEF Uint
<1>2. /\ v \in 0..(m - 1) /\ Stands(a, v, m)
      /\ w \in 0..(m - 1) /\ Stands(b, w, m)
  BY <1>1, ResidueStands
<1>3. v \in Int /\ w \in Int /\ a \in Int /\ b \in Int
  BY <1>1, <1>2
<1> HIDE DEF v, w
<1>4. ASSUME NEW s \in Int, NEW r \in Int,
             NEW z, z = s * a + r * b, NEW u, u = s * v + r * w
      PROVE  z % m \in 0..(m - 1) /\ Residue(z % m) = u % m
  <2>1. z \in Int /\ u \in Int
    BY <1>3, <1>4, SMT
  <2>2. z % m \in 0..(m - 1) /\ u % m \in 0..(m - 1)
    BY <1>1, <2>1, ResidueOf
  <2>3. Stands(z % m, u % m, m)
    BY <1>1, <1>2, <1>3, <1>4, LinearStands
  <2>4. z % m \in Nat
    BY <2>2
  <2> QED
    BY <1>1, <2>2, <2>3, <2>4, ResidueIs
<1>5. a + b \in Nat /\ a + b < 2 * m /\ 2 * b \in Nat /\ 2 * b < 2 * m
      /\ a - b >= -m /\ a - b < m
  BY <1>1, SMT
<1>6. /\ (a + b) % m \in 0..(m - 1)
      /\ Residue((a + b) % m) = Ring!Apply("add", v, w)
  <2>1. a + b = 1 * a + 1 * b /\ v + w = 1 * v + 1 * w /\ 1 \in Int
    BY <1>3, SMT
  <2>2. (a + b) % m \in 0..(m - 1) /\ Residue((a + b) % m) = (v + w) % m
    BY <1>4, <2>1
  <2> QED
    BY <2>2 DEF Ring!Apply
<1>7. AddMod(a, b, m) = (a + b) % m /\ BoxedAdd(a, b) = (a + b) % m
  <2>1. UintCarryingAdd(a, b, 0) = <<(a + b) % R, (a + b) \div R>>
    BY <1>1, SumSplits
  <2>2. /\ TrySubWithCarry((a + b) % R, (a + b) \div R, m)[1] = (a + b) % m
        /\ SubAssignModWithCarry((a + b) % R, (a + b) \div R, m) = (a + b) % m
    BY <1>1, <1>5, TrySubReduces, SubAssignReduces
  <2> QED
    BY <2>1, <2>2 DEF AddMod, BoxedAdd, BoxedAddMod
<1>8. /\ (2 * b) % m \in 0..(m - 1)
      /\ Residue((2 * b) % m) = Ring!Apply("double", v, w)
  <2>1. 2 * b = 0 * a + 2 * b /\ 2 * w = 0 * v + 2 * w /\ 0 \in Int /\ 2 \in Int
    BY <1>3, SMT
  <2>2. (2 * b) % m \in 0..(m - 1) /\ Residue((2 * b) % m) = (2 * w) % m
    BY <1>4, <2>1
  <2> QED
    BY <2>2 DEF Ring!Apply
<1>9. DoubleMod(b, m) = (2 * b) % m /\ BoxedDouble(b) = (2 * b) % m
  <2>1. /\ TrySubWithCarry((2 * b) % R, (2 * b) \div R, m)[1] = (2 * b) % m
        /\ SubAssignModWithCarry((2 * b) % R, (2 * b) \div R, m) = (2 * b) % m
    BY <1>1, <1>5, TrySubReduces, SubAssignReduces
  <2> QED
    BY <2>1 DEF DoubleMod, BoxedDouble, BoxedDoubleMod, UintShl1
<1>10. /\ (a - b) % m \in 0..(m - 1)
       /\ Residue((a - b) % m) = Ring!Apply("sub", v, w)
  <2>1. a - b = 1 * a + (-1) * b /\ v - w = 1 * v + (-1) * w
        /\ 1 \in Int /\ -1 \in Int
    BY <1>3, SMT
  <2>2. (a - b) % m \in 0..(m - 1) /\ Residue((a - b) % m) = (v - w) % m
    BY <1>4, <2>1
  <2> QED
    BY <2>2 DEF Ring!Apply
<1>11. SubMod(a, b, m) = (a - b) % m /\ BoxedSub(a, b) = (a - b) % m
  BY <1>1, <1>5, SubModReduces DEF BoxedSub
<1>12. /\ (-b) % m \in 0..(m - 1)
       /\ Residue((-b) % m) = Ring!Apply("neg", v, w)
  <2>1. -b = 0 * a + (-1) * b /\ -w = 0 * v + (-1) * w /\ 0 \in Int /\ -1 \in Int
    BY <1>3, SMT
  <2>2. (-b) % m \in 0..(m - 1) /\ Residue((-b) % m) = (-w) % m
    BY <1>4, <2>1
  <2> QED
    BY <2>2 DEF Ring!Apply
<1>13. NegMod(b, m) = (-b) % m
  BY <1>1, NegModReduced
<1> QED
  BY <1>6, <1>7, <1>8, <1>9, <1>10, <1>11, <1>12, <1>13 DEF Performs, v, w

\* The products, in both types.
LEMMA ProductForms ==
    ASSUME Inv, NEW a \in 0..(m - 1), NEW b \in 0..(m - 1)
    PROVE  /\ Performs("mul", a, b, mul_montgomery_form(a, b, m))
           /\ Performs("mul", a, b, montgomery_mul(a, b, 0))
           /\ Performs("square", a, b, square_montgomery_form(b, m))
           /\ Performs("square", a, b, montgomery_mul(b, b, 0))
<1>1. /\ m \in Moduli /\ m \in Uint /\ m \in Nat /\ m > 0 /\ m < R
      /\ HasNegInv(m) /\ R \in Nat
  BY Modulus DEF Inv, TypeOK
<1>2. ASSUME NEW x \in 0..(m - 1), NEW y \in 0..(m - 1)
      PROVE  /\ mul_montgomery_form(x, y, m) \in 0..(m - 1)
             /\ montgomery_mul(x, y, 0) = mul_montgomery_form(x, y, m)
             /\ Residue(mul_montgomery_form(x, y, m))
                  = (Residue(x) * Residue(y)) % m
  <2> DEFINE v == Residue(x)
             w == Residue(y)
             z == Acc(x * y, m) % m
             u == (v * w) % m
  <2>1. x \in Uint /\ y \in Uint /\ x < m /\ x \in Nat /\ y \in Nat
    BY <1>1, SMT DEF Uint
  <2>2. /\ v \in 0..(m - 1) /\ Stands(x, v, m)
        /\ w \in 0..(m - 1) /\ Stands(y, w, m)
    BY <1>1, <2>1, ResidueStands
  <2>3. v \in Int /\ w \in Int /\ v * w \in Int /\ x \in Int /\ y \in Int
    BY <2>1, <2>2, SMT
  <2> HIDE DEF v, w
  <2>4. /\ x * y \in Nat
        /\ mul_montgomery_form(x, y, m) = z
        /\ SubAssignModWithCarry(Out(Acc(x * y, m)), Over(Acc(x * y, m)), m) = z
    BY <1>1, <2>1, MulForm
  <2>5. z \in 0..(m - 1) /\ (z * R) % m = (x * y) % m
    BY <1>1, <2>4, ResidueExists, AccCongruent
  <2>6. montgomery_mul(x, y, 0) = z
    <3>1. 0 + x * y = x * y
      BY <2>4, SMT
    <3> QED
      BY <2>4, <3>1 DEF montgomery_mul
  <2> HIDE DEF z
  <2>7. Stands(z, u, m)
    <3>1. z \in Int
      BY <2>5
    <3> QED
      BY <1>1, <2>2, <2>3, <2>5, <3>1, ProductStands
  <2>8. u \in 0..(m - 1)
    BY <1>1, <2>3, ResidueOf
  <2>9. Residue(z) = u
    <3>1. z \in Nat
      BY <2>5
    <3> HIDE DEF u
    <3> QED
      BY <1>1, <2>7, <2>8, <3>1, ResidueIs
  <2> QED
    BY <2>4, <2>5, <2>6, <2>9 DEF v, w
<1>3. /\ Performs("mul", a, b, mul_montgomery_form(a, b, m))
      /\ montgomery_mul(a, b, 0) = mul_montgomery_form(a, b, m)
  BY <1>2 DEF Performs, Ring!Apply
<1>4. /\ Performs("square", a, b, mul_montgomery_form(b, b, m))
      /\ montgomery_mul(b, b, 0) = mul_montgomery_form(b, b, m)
  BY <1>2 DEF Performs, Ring!Apply
<1> QED
  BY <1>3, <1>4 DEF square_montgomery_form

\* Halving, and the calls without arithmetic.
LEMMA OtherForms ==
    ASSUME Inv, NEW a \in 0..(m - 1), NEW b \in 0..(m - 1)
    PROVE  /\ Performs("half", a, b, DivBy2(b, m))
           /\ Performs("copy", a, b, b)
           /\ Performs("zero", a, b, 0)
           /\ Performs("one", a, b, one)
<1>1. /\ m \in Moduli /\ m \in Uint /\ m \in Nat /\ m > 0 /\ m < R
      /\ HasNegInv(m) /\ m % 2 = 1 /\ b \in Nat /\ R \in Nat
  BY Modulus DEF Inv, TypeOK
<1>2. Performs("half", a, b, DivBy2(b, m))
  <2> DEFINE h == DivBy2(b, m)
             v == Residue(b)
             w == Residue(h)
  <2>1. h \in 0..(m - 1)
    BY <1>1, HalfReduced
  <2>2. v \in 0..(m - 1) /\ Stands(b, v, m)
    BY <1>1, ResidueStands
  <2>3. w \in 0..(m - 1) /\ Stands(h, w, m)
    <3>1. h \in Nat
      BY <2>1
    <3> QED
      BY <1>1, <3>1, ResidueStands
  <2> HIDE DEF v, w
  <2>4. w = CHOOSE u \in 0..(m - 1) : (u + u) % m = v
    BY <1>1, <2>2, <2>3, HalfStands
  <2>5. Ring!Apply("half", Residue(a), v) = w
    BY <2>4 DEF Ring!Apply, Ring!Half, Ring!Residues
  <2> QED
    BY <2>1, <2>5 DEF Performs, v, w
<1>3. Performs("copy", a, b, b)
  BY DEF Performs, Ring!Apply
<1>4. Performs("zero", a, b, 0)
  <2>1. 0 \in 0..(m - 1) /\ 0 \in Nat /\ 0 * R = 0
    BY <1>1, SMT
  <2>2. Stands(0, 0, m)
    BY <2>1 DEF Stands
  <2>3. Residue(0) = 0
    BY <1>1, <2>1, <2>2, ResidueIs
  <2> QED
    BY <2>1, <2>3 DEF Performs, Ring!Apply
<1>5. Performs("one", a, b, one)
  <2>1. one \in 0..(m - 1) /\ Stands(one, 1 % m, m)
    BY <1>1, OneStands DEF Inv
  <2>2. 1 % m \in 0..(m - 1) /\ one \in Nat
    BY <1>1, <2>1, ResidueOf, SMT
  <2>3. Residue(one) = 1 % m
    BY <1>1, <2>1, <2>2, ResidueIs
  <2> QED
    BY <2>1, <2>3 DEF Performs, Ring!Apply
<1> QED
  BY <1>2, <1>3, <1>4, <1>5

\* Loading reduces any integer; so does taking over a reduced form.
LEMMA LoadedForms ==
    ASSUME Inv, NEW v \in Uint
    PROVE  /\ BoxedNew(v) = mul_montgomery_form(v, r2, m)
           /\ mul_montgomery_form(v, r2, m) \in 0..(m - 1)
           /\ Residue(mul_montgomery_form(v, r2, m)) = v % m
           /\ v < m => /\ montgomery_retrieve(v, m) \in Uint
                       /\ montgomery_retrieve(v, m) = Residue(v)
                       /\ Residue(v) = montgomery_retrieve(v, m) % m
<1> DEFINE z == mul_montgomery_form(v, r2, m)
<1>1. /\ m \in Moduli /\ m \in Uint /\ m \in Nat /\ m > 0 /\ m < R
      /\ HasNegInv(m) /\ R \in Nat /\ v \in Nat /\ v \in Int
  BY Modulus, SMT DEF Inv, TypeOK, Uint
<1>2. r2 \in Uint /\ r2 < m /\ r2 = ParamR2(m)
  <2>1. r2 \in 0..(m - 1) /\ r2 = ParamR2(m)
    BY DEF Inv, TypeOK
  <2> QED
    BY <1>1, <2>1, SMT DEF Uint
<1>3. /\ v * r2 \in Nat
      /\ z = Acc(v * r2, m) % m
      /\ SubAssignModWithCarry(Out(Acc(v * r2, m)), Over(Acc(v * r2, m)), m) = z
  BY <1>1, <1>2, MulForm
<1>4. BoxedNew(v) = z
  <2>1. 0 + v * r2 = v * r2
    BY <1>3, SMT
  <2> QED
    BY <1>3, <2>1 DEF BoxedNew, montgomery_mul
<1>5. z \in 0..(m - 1)
  BY <1>1, <1>3, ResidueExists
<1>6. Residue(z) = v % m
  <2>1. Stands(z, v % m, m)
    BY <1>1, <1>2, <1>3, LoadStands
  <2>2. v % m \in 0..(m - 1) /\ z \in Nat
    BY <1>1, <1>5, ResidueOf, SMT
  <2> HIDE DEF z
  <2> QED
    BY <1>1, <2>1, <2>2, ResidueIs
<1>7. ASSUME v < m
      PROVE  /\ montgomery_retrieve(v, m) \in 0..(m - 1)
             /\ montgomery_retrieve(v, m) = Residue(v)
  <2>1. v \in 0..(m - 1)
    BY <1>1, <1>7, SMT
  <2>2. /\ montgomery_retrieve(v, m) \in 0..(m - 1)
        /\ Stands(v, montgomery_retrieve(v, m), m)
    BY <1>1, <2>1, RetrieveStands
  <2> QED
    BY <1>1, <2>2, ResidueIs
<1>8. ASSUME v < m
      PROVE  /\ montgomery_retrieve(v, m) \in Uint
             /\ Residue(v) = montgomery_retrieve(v, m) % m
  <2> DEFINE t == montgomery_retrieve(v, m)
  <2>1. t \in 0..(m - 1) /\ t = Residue(v)
    BY <1>7, <1>8
  <2> HIDE DEF t
  <2>2. t % m = t
    BY <1>1, <2>1, ResidueItself
  <2>3. t \in Uint
    BY <1>1, <2>1, SMT DEF Uint
  <2> QED
    BY <2>1, <2>2, <2>3 DEF t
<1> QED
  BY <1>4, <1>5, <1>6, <1>7, <1>8

\* The ring's repeated squaring is the sequence of reduced squares.
LEMMA RingSquares ==
    ASSUME Inv, NEW v \in 0..(m - 1), NEW n \in Nat
    PROVE  \E sq : /\ sq[0] = v
                   /\ \A j \in 1..n : sq[j] = (sq[j - 1] * sq[j - 1]) % m
                   /\ Ring!RepeatedSquare(v, n) = sq[n]
<1> DEFINE S == 0..(m - 1)
           F == [j \in Nat |-> [w \in S |-> (w * w) % m]]
           Sq == CHOOSE sq : sq = [j \in 0..n |->
                    IF j = 0 THEN v ELSE (sq[j - 1] * sq[j - 1]) % m]
<1>1. m \in Nat /\ m > 0
  BY Modulus DEF Inv, TypeOK
<1>2. ASSUME NEW w \in S PROVE (w * w) % m \in S
  <2>1. w * w \in Int
    BY <1>1, SMT
  <2> QED
    BY <1>1, <2>1, ResidueOf
<1>3. Closed(F, S)
  BY <1>2 DEF Closed
<1>4. v \in S
  OBVIOUS
<1> HIDE DEF F, S
<1>5. PICK f : IsRecursion(f, S, v, n, F)
  BY <1>3, <1>4, RecursionExists
<1>6. ASSUME NEW j \in 1..n PROVE f[j] = (f[j - 1] * f[j - 1]) % m
  <2>1. j \in Nat /\ f[j - 1] \in S /\ f[j] = F[j][f[j - 1]]
    BY <1>5, SMT DEF IsRecursion
  <2> QED
    BY <2>1 DEF F
<1>7. f = [j \in 0..n |-> IF j = 0 THEN v ELSE (f[j - 1] * f[j - 1]) % m]
  <2>1. \A j \in 0..n : j = 0 \/ j \in 1..n
    BY SMT
  <2>2. f \in [0..n -> S] /\ f[0] = v
    BY <1>5 DEF IsRecursion
  <2> QED
    BY <1>6, <2>1, <2>2
<1>8. Sq = [j \in 0..n |-> IF j = 0 THEN v ELSE (Sq[j - 1] * Sq[j - 1]) % m]
  BY <1>7
<1>9. Ring!RepeatedSquare(v, n) = Sq[n]
  BY DEF Ring!RepeatedSquare
<1> HIDE DEF Sq
<1>10. Sq[0] = v
  BY <1>8, SMT
<1>11. \A j \in 1..n : Sq[j] = (Sq[j - 1] * Sq[j - 1]) % m
  BY <1>8, SMT
<1> QED
  BY <1>9, <1>10, <1>11

\* Repeated squaring, for a safe modulus and count.
LEMMA RepeatedForms ==
    ASSUME Inv, NEW a \in 0..(m - 1), NEW n \in 0..MaxRepeat
    PROVE  /\ square_repeat_montgomery_form(a, n, m) \in 0..(m - 1)
           /\ Residue(square_repeat_montgomery_form(a, n, m))
                = Ring!RepeatedSquare(Residue(a), n)
<1> DEFINE v == Residue(a)
           z == square_repeat_montgomery_form(a, n, m)
<1>1. /\ m \in Moduli /\ m \in Uint /\ m \in Nat /\ m > 0 /\ m < R
      /\ HasNegInv(m) /\ R \in Nat /\ a \in Nat
  BY Modulus DEF Inv, TypeOK
<1>2. v \in 0..(m - 1) /\ Stands(a, v, m)
  BY <1>1, ResidueStands
<1> HIDE DEF v
<1>3. n \in Nat /\ SafeToRepeat(m, n)
  <2>1. SafeToRepeat(m, MaxRepeat)
    BY DEF Inv
  <2> QED
    BY <1>1, <2>1, RepeatAssumption, SMT DEF SafeToRepeat
<1>4. PICK sq : /\ sq[0] = v
                /\ \A j \in 1..n : sq[j] = (sq[j - 1] * sq[j - 1]) % m
                /\ Ring!RepeatedSquare(v, n) = sq[n]
  BY <1>2, <1>3, RingSquares
<1>5. z \in 0..(m - 1) /\ Stands(z, sq[n], m)
  BY <1>1, <1>2, <1>3, <1>4, SquareRepeatForm
<1>6. sq[n] \in 0..(m - 1)
  <2> DEFINE S == 0..(m - 1)
  <2>1. \A j \in 1..n : sq[j - 1] \in S => sq[j] \in S
    <3> SUFFICES ASSUME NEW j \in 1..n, sq[j - 1] \in S
                 PROVE  sq[j] \in S
      OBVIOUS
    <3>1. sq[j - 1] * sq[j - 1] \in Int
      BY <1>1, SMT
    <3>2. (sq[j - 1] * sq[j - 1]) % m \in S
      BY <1>1, <3>1, ResidueOf
    <3> QED
      BY <1>4, <3>2
  <2>2. sq[0] \in S
    BY <1>2, <1>4
  <2> HIDE DEF S
  <2>3. \A j \in 0..n : sq[j] \in S
    BY <1>3, <2>1, <2>2, RecursionStaysIn
  <2> QED
    BY <1>3, <2>3, SMT DEF S
<1>7. Residue(z) = sq[n]
  <2>1. z \in Nat
    BY <1>5
  <2> HIDE DEF z
  <2> QED
    BY <1>1, <1>5, <1>6, <2>1, ResidueIs
<1> QED
  BY <1>4, <1>5, <1>7 DEF v, z

----------------------------------------------------------------------------
(* The steps.                                                              *)

\* The buffer of a multiplier stays reduced, and only a boxed form has one.
BufferOK == product' \in 0..(m - 1) /\ (product' # 0 => boxed)

\* The three kinds of calls, by what they do in the ring.
RingCall(d) ==
    \E op \in Ring!Ops, s \in Regs, v \in 0..(m - 1) :
        Record(op, d, s, 0, v) /\ Performs(op, reg[d], reg[s], v)

LoadCall(d) ==
    \E num \in Uint, v \in 0..(m - 1) :
        Record("load", d, 0, num, v) /\ Residue(v) = num % m

RepeatCall(d) ==
    \E s \in Regs, n \in 0..MaxRepeat, v \in 0..(m - 1) :
        /\ Record("square_repeat", d, s, n, v)
        /\ Residue(v) = Ring!RepeatedSquare(Residue(reg[s]), n)

\* A call that assigns what the ring operation op makes is a ring call.
LEMMA AssignsInRing ==
    ASSUME Inv, NEW d \in Regs, NEW s \in Regs, NEW op \in Ring!Ops, NEW v,
           Performs(op, reg[d], reg[s], v), Assign(op, d, s, 0, v)
    PROVE  RingCall(d) /\ BufferOK
<1>1. v \in 0..(m - 1)
  BY DEF Performs
<1>2. Record(op, d, s, 0, v) /\ product' = 0
  BY DEF Assign
<1>3. 0 \in 0..(m - 1)
  BY Modulus, SMT DEF Inv, TypeOK
<1> QED
  BY <1>1, <1>2, <1>3 DEF RingCall, BufferOK

\* Every call is of one of the three kinds.
LEMMA CallKinds ==
    ASSUME Inv, NEW d \in Regs, Call(d)
    PROVE  (RingCall(d) \/ LoadCall(d) \/ RepeatCall(d)) /\ BufferOK
<1>1. reg[d] \in 0..(m - 1) /\ \A s \in Regs : reg[s] \in 0..(m - 1)
  BY DEF Inv, TypeOK
<1>2. 0 \in 0..(m - 1)
  BY Modulus, SMT DEF Inv, TypeOK
<1>3. {"add", "sub", "mul", "double", "neg", "square", "half", "copy", "zero",
       "one"} = Ring!Ops
  BY DEF Ring!Ops
<1>4. ASSUME NEW v \in Uint, New(d, v)
      PROVE  LoadCall(d) /\ BufferOK
  <2> DEFINE z == mul_montgomery_form(v, r2, m)
  <2>1. Choose(z, BoxedNew(v)) = z
    BY LoadedForms DEF Choose
  <2>2. Record("load", d, 0, v, z) /\ product' = 0
    BY <1>4, <2>1 DEF New, Assign
  <2>3. z \in 0..(m - 1) /\ Residue(z) = v % m
    BY LoadedForms
  <2> HIDE DEF z
  <2> QED
    BY <1>2, <2>2, <2>3 DEF LoadCall, BufferOK
<1>5. ASSUME NEW v \in Uint, Deserialize(d, v)
      PROVE  LoadCall(d) /\ BufferOK
  <2> DEFINE num == montgomery_retrieve(v, m)
  <2>1. v < m /\ Record("load", d, 0, num, v) /\ product' = 0
    BY <1>5 DEF Deserialize, Assign
  <2>2. num \in Uint /\ Residue(v) = num % m
    BY <2>1, LoadedForms
  <2>3. v \in 0..(m - 1)
    BY <2>1, BaseFacts, Modulus, SMT DEF Inv, TypeOK, Uint
  <2> HIDE DEF num
  <2> QED
    BY <1>2, <2>1, <2>2, <2>3 DEF LoadCall, BufferOK
<1>6. ASSUME Zero(d) \/ One(d)
      PROVE  RingCall(d) /\ BufferOK
  <2>1. ASSUME NEW s \in Regs, Assign("zero", d, s, 0, 0)
        PROVE  RingCall(d) /\ BufferOK
    BY <1>1, <1>3, <2>1, OtherForms, AssignsInRing
  <2>2. ASSUME NEW s \in Regs, Assign("one", d, s, 0, one)
        PROVE  RingCall(d) /\ BufferOK
    BY <1>1, <1>3, <2>2, OtherForms, AssignsInRing
  <2> QED
    BY <1>6, <2>1, <2>2 DEF Zero, One
<1>7. ASSUME NEW s \in Regs,
             \/ CopyFrom(d, s) \/ Add(d, s) \/ Double(d, s) \/ Sub(d, s)
             \/ Neg(d, s) \/ DivByTwo(d, s) \/ Mul(d, s) \/ Square(d, s)
      PROVE  RingCall(d) /\ BufferOK
  <2>1. CASE CopyFrom(d, s)
    BY <1>1, <1>3, <2>1, OtherForms, AssignsInRing DEF CopyFrom
  <2>2. CASE Add(d, s)
    BY <1>1, <1>3, <2>2, AdditiveForms, AssignsInRing DEF Add, Choose
  <2>3. CASE Double(d, s)
    BY <1>1, <1>3, <2>3, AdditiveForms, AssignsInRing DEF Double, Choose
  <2>4. CASE Sub(d, s)
    BY <1>1, <1>3, <2>4, AdditiveForms, AssignsInRing DEF Sub, Choose
  <2>5. CASE Neg(d, s)
    BY <1>1, <1>3, <2>5, AdditiveForms, AssignsInRing DEF Neg
  <2>6. CASE DivByTwo(d, s)
    BY <1>1, <1>3, <2>6, OtherForms, AssignsInRing DEF DivByTwo
  <2>7. CASE Mul(d, s)
    BY <1>1, <1>3, <2>7, ProductForms, AssignsInRing DEF Mul, Choose, BoxedMul
  <2>8. CASE Square(d, s)
    BY <1>1, <1>3, <2>8, ProductForms, AssignsInRing DEF Square, Choose, BoxedMul
  <2> QED
    BY <1>7, <2>1, <2>2, <2>3, <2>4, <2>5, <2>6, <2>7, <2>8
<1>8. ASSUME NEW s \in Regs, MulAssign(d, s) \/ SquareAssign(d, s)
      PROVE  RingCall(d) /\ BufferOK
  <2>1. ASSUME NEW op \in Ring!Ops, Multiply(op, d, s, 0),
               Performs(op, reg[d], reg[s], montgomery_mul(reg[d], reg[s], 0))
        PROVE  RingCall(d) /\ BufferOK
    <3> DEFINE v == montgomery_mul(reg[d], reg[s], 0)
    <3>1. boxed /\ Record(op, d, s, 0, v) /\ product' = v
      BY <2>1 DEF Multiply
    <3>2. v \in 0..(m - 1) /\ Performs(op, reg[d], reg[s], v)
      BY <2>1 DEF Performs
    <3> HIDE DEF v
    <3> QED
      BY <3>1, <3>2 DEF RingCall, BufferOK
  <2>2. CASE MulAssign(d, s)
    BY <1>1, <1>3, <2>1, <2>2, ProductForms DEF MulAssign
  <2>3. CASE SquareAssign(d, s)
    BY <1>1, <1>3, <2>1, <2>3, ProductForms DEF SquareAssign
  <2> QED
    BY <1>8, <2>2, <2>3
<1>9. ASSUME NEW s \in Regs, NEW n \in 0..MaxRepeat, SquareRepeat(d, s, n)
      PROVE  RepeatCall(d) /\ BufferOK
  <2> DEFINE z == square_repeat_montgomery_form(reg[s], n, m)
  <2>1. Record("square_repeat", d, s, n, z) /\ product' = 0
    BY <1>9 DEF SquareRepeat, Assign
  <2>2. /\ z \in 0..(m - 1)
        /\ Residue(z) = Ring!RepeatedSquare(Residue(reg[s]), n)
    BY <1>1, RepeatedForms
  <2> HIDE DEF z
  <2> QED
    BY <1>2, <2>1, <2>2 DEF RepeatCall, BufferOK
<1> QED
  BY <1>4, <1>5, <1>6, <1>7, <1>8, <1>9 DEF Call

----------------------------------------------------------------------------
(* The invariant.                                                          *)

\* The registers start at zero, with the parameters of the modulus.
LEMMA InitInv == Init /\ SafeToRepeat(m, MaxRepeat) => Inv
<1> SUFFICES ASSUME Init, SafeToRepeat(m, MaxRepeat) PROVE Inv
  OBVIOUS
<1>1. m \in Moduli /\ m \in Uint /\ m \in Nat /\ m > 0
  BY Modulus DEF Init
<1>2. one \in 0..(m - 1)
  BY <1>1, OneStands DEF Init
<1>3. r2 \in 0..(m - 1)
  <2>1. R * R \in Int
    BY BaseFacts, SMT
  <2>2. (R * R) % m \in 0..(m - 1)
    BY <1>1, <2>1, ResidueOf
  <2> QED
    BY <1>1, <2>2, ParamR2Is DEF Init
<1>4. 0 \in 0..(m - 1)
  BY <1>1, SMT
<1> QED
  BY <1>1, <1>2, <1>3, <1>4 DEF Init, Inv, TypeOK

\* Every call leaves its destination canonical and the rest alone.
LEMMA NextInv == Inv /\ [Next]_vars => Inv'
<1> SUFFICES ASSUME Inv, [Next]_vars PROVE Inv'
  OBVIOUS
<1>1. ASSUME NEW d \in Regs, NEW op, NEW s, NEW n, NEW v \in 0..(m - 1),
             Record(op, d, s, n, v), BufferOK
      PROVE  Inv'
  <2>1. reg' = [reg EXCEPT ![d] = v] /\ UNCHANGED <<m, one, r2, boxed>>
    BY <1>1 DEF Record, params
  <2>2. reg' \in [Regs -> 0..(m - 1)]
    BY <2>1 DEF Inv, TypeOK
  <2>3. TypeOK'
    BY <1>1, <2>1, <2>2 DEF Inv, TypeOK, BufferOK
  <2> QED
    BY <2>1, <2>3 DEF Inv
<1>2. ASSUME NEW d \in Regs, Call(d) PROVE Inv'
  BY <1>1, <1>2, CallKinds DEF RingCall, LoadCall, RepeatCall
<1>3. CASE IntoBoxed
  BY <1>3 DEF IntoBoxed, params, Inv, TypeOK
<1>4. CASE UNCHANGED vars
  BY <1>4 DEF vars, Inv, TypeOK
<1> QED
  BY <1>2, <1>3, <1>4 DEF Next

\* The inductive invariant holds throughout, for a safe modulus.
THEOREM Invariance == Spec /\ SafeToRepeat(m, MaxRepeat) => []Inv
<1> QED
  BY InitInv, NextInv, PTL DEF Spec

----------------------------------------------------------------------------
(* What the forms promise.                                                 *)

\* Forms are canonical, so that comparing their limbs compares residues,
\* whatever the order of the calls, for the fixed and the boxed types.
THEOREM Canonical == Spec /\ SafeToRepeat(m, MaxRepeat) => []TypeOK
<1>1. Inv => TypeOK
  BY DEF Inv
<1> QED
  BY <1>1, Invariance, PTL

\* retrieve corrects nothing and still returns the reduced residue.
THEOREM Retrieval == Spec /\ SafeToRepeat(m, MaxRepeat) => []RetrieveExact
<1>1. Inv => RetrieveExact
  <2> SUFFICES ASSUME Inv, NEW d \in Regs
               PROVE  montgomery_retrieve(reg[d], m) = Residue(reg[d])
    BY DEF RetrieveExact
  <2>1. reg[d] \in 0..(m - 1)
    BY DEF Inv, TypeOK
  <2>2. reg[d] \in Uint /\ reg[d] < m
    BY <2>1, Modulus, SMT DEF Inv, TypeOK, Uint
  <2> QED
    BY <2>2, LoadedForms
<1> QED
  BY <1>1, Invariance, PTL

\* Every call is the operation of the residue ring on what the forms stand
\* for: the ring never sees limbs, carries, corrections, buffers or types.
THEOREM Refinement == Spec /\ SafeToRepeat(m, MaxRepeat) => ImplementsRing
<1> DEFINE residues == [d \in Regs |-> Residue(reg[d])]
<1>1. Inv /\ Init => Ring!RingInit
  <2> SUFFICES ASSUME Inv, Init PROVE Ring!RingInit
    OBVIOUS
  <2>1. m \in Nat \ {0}
    BY Modulus, SMT DEF Init
  <2>2. residues \in [Regs -> 0..(m - 1)]
    BY ResidueStands DEF Inv, TypeOK
  <2> QED
    BY <2>1, <2>2 DEF Init, Ring!RingInit, Ring!Residues, Ring!NoCall
<1>2. Inv /\ [Next]_vars => [Ring!RingNext]_<<m, residues, call>>
  <2> SUFFICES ASSUME Inv, [Next]_vars
               PROVE  Ring!RingNext \/ UNCHANGED <<m, residues, call>>
    OBVIOUS
  <2>1. ASSUME NEW d \in Regs, NEW op, NEW s, NEW n, NEW v,
               Record(op, d, s, n, v)
        PROVE  /\ m' = m /\ call' = <<op, d, s, n>>
               /\ residues' = [residues EXCEPT ![d] = Residue(v)]
    <3>1. reg' = [reg EXCEPT ![d] = v] /\ m' = m /\ call' = <<op, d, s, n>>
      BY <2>1 DEF Record, params
    <3>2. \A e \in Regs : reg'[e] = IF e = d THEN v ELSE reg[e]
      BY <3>1 DEF Inv, TypeOK
    <3>3. residues' = [e \in Regs |-> Residue(reg[e])']
      OBVIOUS
    <3>4. ASSUME NEW e \in Regs
          PROVE  Residue(reg[e])' = IF e = d THEN Residue(v) ELSE Residue(reg[e])
      BY <3>1, <3>2 DEF Residue
    <3>5. residues' = [e \in Regs |->
                         IF e = d THEN Residue(v) ELSE Residue(reg[e])]
      BY <3>3, <3>4, Zenon
    <3>6. residues = [e \in Regs |-> Residue(reg[e])]
      OBVIOUS
    <3>7. residues' = [residues EXCEPT ![d] = Residue(v)]
      BY <3>5, <3>6
    <3> QED
      BY <3>1, <3>7
  <2>2. ASSUME NEW d \in Regs, RingCall(d)
        PROVE  Ring!RingNext
    <3>1. PICK op \in Ring!Ops, s \in Regs, v \in 0..(m - 1) :
              Record(op, d, s, 0, v) /\ Performs(op, reg[d], reg[s], v)
      BY <2>2 DEF RingCall
    <3>2. m % 2 = 1
      BY Modulus DEF Inv, TypeOK
    <3>3. Ring!Perform(op, d, s)
      BY <2>1, <3>1, <3>2 DEF Ring!Perform, Performs
    <3> QED
      BY <3>1, <3>3 DEF Ring!RingNext
  <2>3. ASSUME NEW d \in Regs, LoadCall(d)
        PROVE  Ring!RingNext
    <3>1. PICK num \in Uint, v \in 0..(m - 1) :
              Record("load", d, 0, num, v) /\ Residue(v) = num % m
      BY <2>3 DEF LoadCall
    <3>2. Ring!Load(d, num)
      BY <2>1, <3>1 DEF Ring!Load
    <3> QED
      BY <3>1, <3>2 DEF Ring!RingNext
  <2>4. ASSUME NEW d \in Regs, RepeatCall(d)
        PROVE  Ring!RingNext
    <3>1. PICK s \in Regs, n \in 0..MaxRepeat, v \in 0..(m - 1) :
              /\ Record("square_repeat", d, s, n, v)
              /\ Residue(v) = Ring!RepeatedSquare(Residue(reg[s]), n)
      BY <2>4 DEF RepeatCall
    <3>2. Ring!Raise(d, s, n)
      BY <2>1, <3>1 DEF Ring!Raise
    <3> QED
      BY <3>1, <3>2 DEF Ring!RingNext
  <2>5. CASE \E d \in Regs : Call(d)
    BY <2>2, <2>3, <2>4, <2>5, CallKinds
  <2>6. CASE IntoBoxed
    BY <2>6 DEF IntoBoxed, params, Residue
  <2>7. CASE UNCHANGED vars
    BY <2>7 DEF vars, Residue
  <2> QED
    BY <2>5, <2>6, <2>7 DEF Next
<1> QED
  BY <1>1, <1>2, InitInv, Invariance, PTL DEF Spec, ImplementsRing, Ring!RingSpec
================================================================================
