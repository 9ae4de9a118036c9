---------------------------- MODULE ModularProofs ----------------------------
(***************************************************************************)
(* The modular operations of Uint and BoxedUint, for every modulus of      *)
(* every width: under the assumptions their documentation states, each     *)
(* returns the reduced sum, difference, negation or half, so the integers  *)
(* a program holds stay reduced whatever the order of its calls; and the   *)
(* routines for the special moduli MAX + 1 - c do the same wherever the    *)
(* carry of their product fits a limb.                                     *)
(***************************************************************************)
EXTENDS Modular, LimbsProofs

\* What a call leaves in its destination, for both types.
LEMMA CallValues ==
    ASSUME TypeOK, NEW d \in Regs, NEW s \in Regs
    PROVE  /\ p \in Nat /\ p > 0
           /\ AddMod(reg[d], reg[s], p) = (reg[d] + reg[s]) % p
           /\ BoxedAddMod(reg[d], reg[s], p) = (reg[d] + reg[s]) % p
           /\ DoubleMod(reg[s], p) = (2 * reg[s]) % p
           /\ BoxedDoubleMod(reg[s], p) = (2 * reg[s]) % p
           /\ SubMod(reg[d], reg[s], p) = (reg[d] - reg[s]) % p
           /\ BoxedSubMod(reg[d], reg[s], p) = (reg[d] - reg[s]) % p
           /\ NegMod(reg[s], p) = (-reg[s]) % p
<1> DEFINE a == reg[d]
           b == reg[s]
<1>1. a \in 0..(p - 1) /\ b \in 0..(p - 1) /\ p \in Uint /\ p > 0 /\ p \in Nat
  BY BaseFacts, SMT DEF TypeOK, Uint
<1>2. a \in Uint /\ b \in Uint /\ a \in Nat /\ b \in Nat
  BY <1>1, BaseFacts, SMT DEF Uint
<1> HIDE DEF a, b
<1>3. a + b \in Nat /\ a + b < 2 * p /\ 2 * b \in Nat /\ 2 * b < 2 * p
  BY <1>1, <1>2, SMT
<1>4. UintCarryingAdd(a, b, 0) = <<(a + b) % R, (a + b) \div R>>
  BY <1>2, SumSplits
<1>5. AddMod(a, b, p) = (a + b) % p /\ BoxedAddMod(a, b, p) = (a + b) % p
  <2>1. TrySubWithCarry((a + b) % R, (a + b) \div R, p)[1] = (a + b) % p
    BY <1>1, <1>3, TrySubReduces
  <2>2. SubAssignModWithCarry((a + b) % R, (a + b) \div R, p) = (a + b) % p
    BY <1>1, <1>3, SubAssignReduces
  <2> QED
    BY <1>4, <2>1, <2>2 DEF AddMod, BoxedAddMod
<1>6. DoubleMod(b, p) = (2 * b) % p /\ BoxedDoubleMod(b, p) = (2 * b) % p
  <2>1. TrySubWithCarry((2 * b) % R, (2 * b) \div R, p)[1] = (2 * b) % p
    BY <1>1, <1>3, TrySubReduces
  <2>2. SubAssignModWithCarry((2 * b) % R, (2 * b) \div R, p) = (2 * b) % p
    BY <1>1, <1>3, SubAssignReduces
  <2> QED
    BY <2>1, <2>2 DEF DoubleMod, BoxedDoubleMod, UintShl1
<1>7. SubMod(a, b, p) = (a - b) % p /\ BoxedSubMod(a, b, p) = (a - b) % p
  <2>1. a - b >= -p /\ a - b < p
    BY <1>1, SMT
  <2> QED
    BY <1>1, <1>2, <2>1, SubModReduces
<1>8. NegMod(b, p) = (-b) % p
  BY <1>1, NegModReduced
<1> QED
  BY <1>1, <1>5, <1>6, <1>7, <1>8 DEF a, b

\* The caller starts from reduced integers.
LEMMA InitType == Init => TypeOK
  BY DEF Init, TypeOK

\* Every modular operation leaves its destination reduced.
LEMMA NextType == TypeOK /\ [Next]_vars => TypeOK'
<1> SUFFICES ASSUME TypeOK, [Next]_vars PROVE TypeOK'
  OBVIOUS
<1>1. ASSUME NEW d \in Regs, NEW s \in Regs,
             Add(d, s) \/ Double(d, s) \/ Sub(d, s) \/ Neg(d, s) \/ Halve(d, s)
      PROVE  TypeOK'
  <2>1. p \in Nat /\ p > 0 /\ reg[d] \in Int /\ reg[s] \in Int
    BY CallValues, SMT DEF TypeOK
  <2>2. /\ (reg[d] + reg[s]) % p \in 0..(p - 1)
        /\ (2 * reg[s]) % p \in 0..(p - 1)
        /\ (reg[d] - reg[s]) % p \in 0..(p - 1)
        /\ (-reg[s]) % p \in 0..(p - 1)
    BY <2>1, ResidueOf, SMT
  <2>3. PICK v \in 0..(p - 1) : \E op : Assign(op, d, s, v)
    <3>1. CASE Add(d, s)
      BY <2>2, <3>1, CallValues DEF Add
    <3>2. CASE Double(d, s)
      BY <2>2, <3>2, CallValues DEF Double
    <3>3. CASE Sub(d, s)
      BY <2>2, <3>3, CallValues DEF Sub
    <3>4. CASE Neg(d, s)
      BY <2>2, <3>4, CallValues DEF Neg
    <3>5. CASE Halve(d, s)
      <4>1. DivBy2(reg[s], p) \in 0..(p - 1)
        BY <3>5, HalfIsHalf, CallValues DEF TypeOK, Halve
      <4> QED
        BY <3>5, <4>1 DEF Halve
    <3> QED
      BY <1>1, <3>1, <3>2, <3>3, <3>4, <3>5
  <2> QED
    BY <2>3 DEF TypeOK, Assign
<1>2. CASE UNCHANGED vars
  BY <1>2 DEF TypeOK, vars
<1> QED
  BY <1>1, <1>2 DEF Next

\* The integers stay reduced, whatever the modulus, the number of limbs and
\* the order of the calls, for Uint and for BoxedUint.
THEOREM StaysReduced == Spec => []TypeOK
<1> QED
  BY InitType, NextType, PTL DEF Spec
\* The documented assumption of add_mod suffices for operands of any size:
\* `self + rhs as unbounded integer is < 2p`.
LEMMA AdditionReduces == TypeOK => AddModAssumption
<1>1. ASSUME TypeOK, NEW a \in Uint, NEW b \in Uint, a + b < 2 * p
      PROVE  /\ AddMod(a, b, p) = (a + b) % p
             /\ SubAssignModWithCarry((a + b) % R, (a + b) \div R, p)
                  = (a + b) % p
  <2>1. p \in Uint /\ p > 0
    BY <1>1, BaseFacts, SMT DEF TypeOK, Uint
  <2>2. /\ a + b \in Nat
        /\ UintCarryingAdd(a, b, 0) = <<(a + b) % R, (a + b) \div R>>
    BY SumSplits
  <2>3. TrySubWithCarry((a + b) % R, (a + b) \div R, p)[1] = (a + b) % p
    BY <1>1, <2>1, <2>2, TrySubReduces
  <2>4. SubAssignModWithCarry((a + b) % R, (a + b) \div R, p) = (a + b) % p
    BY <1>1, <2>1, <2>2, SubAssignReduces
  <2> QED
    BY <2>2, <2>3, <2>4 DEF AddMod
<1>2. ASSUME TypeOK, NEW r \in Regs, NEW b \in Uint
      PROVE  (reg[r] + b) % R \in Uint
  <2>1. reg[r] + b \in Int
    BY <1>2, BaseFacts, SMT DEF TypeOK, Uint
  <2> QED
    BY <2>1, BaseFacts, ResidueOf DEF Uint
<1> QED
  BY <1>1, <1>2 DEF AddModAssumption

\* And that of sub_mod: `self - rhs as unbounded signed integer is in [-p, p)`.
LEMMA SubtractionReduces == TypeOK => SubModAssumption
<1>1. ASSUME TypeOK, NEW a \in Uint, NEW b \in Uint, a - b >= -p, a - b < p
      PROVE  SubMod(a, b, p) = (a - b) % p /\ BoxedSubMod(a, b, p) = (a - b) % p
  <2>1. p \in Uint /\ p > 0
    BY <1>1, BaseFacts, SMT DEF TypeOK, Uint
  <2> QED
    BY <1>1, <2>1, SubModReduces
<1>2. ASSUME TypeOK, NEW r \in Regs, NEW b \in Uint
      PROVE  (reg[r] + b) % R \in Uint
  <2>1. reg[r] + b \in Int
    BY <1>2, BaseFacts, SMT DEF TypeOK, Uint
  <2> QED
    BY <2>1, BaseFacts, ResidueOf DEF Uint
<1> QED
  BY <1>1, <1>2 DEF SubModAssumption

\* Hence in every state of a program over the general routines.
THEOREM AdditionAssumption == Spec => []AddModAssumption
  BY AdditionReduces, StaysReduced, PTL

\* Likewise.
THEOREM SubtractionAssumption == Spec => []SubModAssumption
  BY SubtractionReduces, StaysReduced, PTL

\* The caller's integers start as residues.
LEMMA RingStart == Init => Ring!RingInit
<1> SUFFICES ASSUME Init PROVE Ring!RingInit
  OBVIOUS
<1>1. p \in Nat \ {0}
  BY BaseFacts, SMT DEF Init, Uint
<1> QED
  BY <1>1 DEF Init, Ring!RingInit, Ring!Residues, Ring!NoCall

\* Every call is the operation it is named for.
LEMMA RingStep == TypeOK /\ [Next]_vars => [Ring!RingNext]_<<p, reg, call>>
<1> SUFFICES ASSUME TypeOK, [Next]_vars
             PROVE  Ring!RingNext \/ UNCHANGED <<p, reg, call>>
  OBVIOUS
<1>1. ASSUME NEW d \in Regs, NEW s \in Regs, NEW op \in Ring!Ops,
             Assign(op, d, s, Ring!Apply(op, reg[d], reg[s])),
             op = "half" => p % 2 = 1
      PROVE  Ring!RingNext
  <2>1. Ring!Perform(op, d, s)
    BY <1>1 DEF Ring!Perform, Assign
  <2> QED
    BY <1>1, <2>1 DEF Ring!RingNext
<1>2. ASSUME NEW d \in Regs, NEW s \in Regs,
             Add(d, s) \/ Double(d, s) \/ Sub(d, s) \/ Neg(d, s)
               \/ Halve(d, s)
      PROVE  Ring!RingNext
  <2>1. CASE Add(d, s)
    <3>1. Assign("add", d, s, Ring!Apply("add", reg[d], reg[s]))
      BY <2>1, CallValues DEF Add, Ring!Apply
    <3> QED
      BY <1>1, <3>1 DEF Ring!Ops
  <2>2. CASE Double(d, s)
    <3>1. Assign("double", d, s, Ring!Apply("double", reg[d], reg[s]))
      BY <2>2, CallValues DEF Double, Ring!Apply
    <3> QED
      BY <1>1, <3>1 DEF Ring!Ops
  <2>3. CASE Sub(d, s)
    <3>1. Assign("sub", d, s, Ring!Apply("sub", reg[d], reg[s]))
      BY <2>3, CallValues DEF Sub, Ring!Apply
    <3> QED
      BY <1>1, <3>1 DEF Ring!Ops
  <2>4. CASE Neg(d, s)
    <3>1. Assign("neg", d, s, Ring!Apply("neg", reg[d], reg[s]))
      BY <2>4, CallValues DEF Neg, Ring!Apply
    <3> QED
      BY <1>1, <3>1 DEF Ring!Ops
  <2>5. CASE Halve(d, s)
    <3>1. p % 2 = 1 /\ Assign("half", d, s, DivBy2(reg[s], p))
      BY <2>5 DEF Halve
    <3>2. reg[s] \in 0..(p - 1) /\ p \in Uint /\ p > 0
      BY CallValues DEF TypeOK
    <3>3. DivBy2(reg[s], p)
            = CHOOSE w \in 0..(p - 1) : (w + w) % p = reg[s]
      BY <3>1, <3>2, HalfIsHalf
    <3>4. Ring!Apply("half", reg[d], reg[s]) = DivBy2(reg[s], p)
      BY <3>3 DEF Ring!Apply, Ring!Half, Ring!Residues
    <3> QED
      BY <1>1, <3>1, <3>4 DEF Ring!Ops
  <2> QED
    BY <1>2, <2>1, <2>2, <2>3, <2>4, <2>5
<1>3. CASE UNCHANGED vars
  BY <1>3 DEF vars
<1> QED
  BY <1>2, <1>3 DEF Next

\* Every call is the operation of the residue ring it is named for.
THEOREM Refinement == Spec => ImplementsRing
  BY RingStart, RingStep, StaysReduced, PTL
     DEF Spec, ImplementsRing, Ring!RingSpec

----------------------------------------------------------------------------
(* Special moduli.                                                         *)

\* `carry + 1` of mul_mod_special fits a limb: always, but for c = MAX and an
\* integer of three limbs or more (SpecialModMax.cfg).
CarryFits == N <= 2 \/ WordMAX \notin Cs

\* The instance's operators are those of Limbs.
LEMMA SpecialOps ==
    /\ Special!R = R /\ Special!B = B /\ Special!Uint = Uint
    /\ Special!p = R - c
    /\ \A v, w, k : Special!UintCarryingAdd(v, w, k)
                      = <<(v + w + k) % R, (v + w + k) \div R>>
    /\ \A v, w : Special!UintWrappingSub(v, w) = UintWrappingSub(v, w)
    /\ \A v, w : Special!UintBorrowingSub(v, w, 0) = UintBorrowingSub(v, w, 0)
    /\ \A v, w, a, k : Special!UintMacByLimb(v, w, a, k)
                         = <<(v + w * a + k) % R, (v + w * a + k) \div R>>
    /\ \A v, w : Special!wrapping_add(v, w) = (v + w) % B
    /\ \A v, w : Special!wrapping_sub(v, w) = (v - w) % B
    /\ \A v : Special!UnlessCarried(v) = IF (v - 1) % B = WordMAX THEN c ELSE 0
    /\ \A v, w : Special!Masked(v, w) = IF w THEN v ELSE 0
  BY DEF Special!R, R, Special!B, B, Special!Uint, Uint, Special!p,
         Special!UintCarryingAdd, Special!UintWrappingSub, UintWrappingSub,
         Special!UintBorrowingSub, UintBorrowingSub, Special!BorrowBit, BorrowBit,
         Special!Mask, Mask, Special!WordMAX, WordMAX, Special!UintMacByLimb,
         Special!wrapping_add, Special!wrapping_sub, Special!UnlessCarried,
         Special!Masked

\* The sizes of a special modulus.
LEMMA SpecialSizes ==
    ASSUME c \in Word, c # 0
    PROVE  /\ c \in Nat /\ c > 0 /\ c < B /\ B <= R /\ c \in Uint
           /\ R - c \in Nat /\ R - c > 0 /\ R - c \in Uint
           /\ N >= 2 => B * B <= R
<1>1. B \in Nat /\ B >= 2 /\ N \in Nat /\ N >= 1 /\ R \in Nat
  BY BaseFacts
<1>2. c \in Nat /\ c > 0 /\ c < B
  BY <1>1, SMT DEF Word
<1>3. W[1] = B
  <2>1. 0 \in 0..(2 * N - 1) /\ 0 + 1 = 1
    BY <1>1, SMT
  <2>2. W[0 + 1] = B * W[0]
    BY <2>1, WeightAssumption
  <2> QED
    BY <1>1, <2>1, <2>2, WeightAssumption, SMT
<1>4. PICK z \in Nat : R = B * z
  <2>1. 1 \in 0..N
    BY <1>1, SMT
  <2> QED
    BY <1>3, <2>1, WeightDividesRadix
<1>5. B <= R
  <2>1. z # 0
    BY <1>1, <1>4, BaseFacts, SMT
  <2>2. B * 1 <= B * z
    BY <1>1, <1>4, <2>1, Monotone, SMT
  <2> QED
    BY <1>1, <1>4, <2>2, SMT
<1>6. N >= 2 => B * B <= R
  <2> SUFFICES ASSUME N >= 2 PROVE B * B <= R
    OBVIOUS
  <2>1. 1 \in 0..(2 * N) /\ 1 + 1 = 2 /\ 1 + 1 <= 2 * N /\ 2 \in 0..N
    BY <1>1, SMT
  <2>2. W[2] = B * B
    BY <1>3, <2>1, WeightsMultiply
  <2>3. PICK y \in Nat : R = (B * B) * y
    BY <2>1, <2>2, WeightDividesRadix
  <2>4. y # 0 /\ B * B \in Nat
    BY <1>1, <2>3, BaseFacts, SMT
  <2>5. (B * B) * 1 <= (B * B) * y
    BY <2>3, <2>4, Monotone, SMT
  <2> QED
    BY <2>3, <2>4, <2>5, SMT
<1> QED
  BY <1>1, <1>2, <1>5, <1>6, SMT DEF Uint

\* c is taken back from a sum that holds it, unless the sum overflowed.
LEMMA TakenBack ==
    ASSUME c \in Word, c # 0, NEW v \in Nat, v < 2 * (R - c)
    PROVE  Special!UintWrappingSub((v + c) % R, Special!UnlessCarried((v + c) \div R))
             = v % (R - c)
<1> DEFINE n == R - c
           s == v + c
           lo == s % R
           hi == s \div R
<1>1. /\ c \in Nat /\ c > 0 /\ c < R /\ c \in Uint /\ R \in Nat /\ R > 0
      /\ n \in Nat /\ n > 0 /\ s \in Nat /\ s < 2 * R
  BY SpecialSizes, BaseFacts, SMT
<1>2. v % n = IF v < n THEN v ELSE v - n
  BY <1>1, ModBelowTwice
<1>3. lo = (IF s < R THEN s ELSE s - R) /\ hi = IF s < R THEN 0 ELSE 1
  <2> HIDE DEF s
  <2>1. CASE s < R
    <3>1. s = R * 0 + s /\ s \in 0..(R - 1) /\ 0 \in Int /\ s \in Int
      BY <1>1, <2>1, SMT
    <3>2. s \div R = 0 /\ s % R = s
      BY <1>1, <3>1, DivisionIs
    <3> QED
      BY <2>1, <3>2
  <2>2. CASE ~(s < R)
    <3>1. s = R * 1 + (s - R) /\ s - R \in 0..(R - 1) /\ 1 \in Int /\ s \in Int
      BY <1>1, <2>2, SMT
    <3>2. s \div R = 1 /\ s % R = s - R
      BY <1>1, <3>1, DivisionIs
    <3> QED
      BY <2>2, <3>2
  <2> QED
    BY <2>1, <2>2
<1>4. (0 - 1) % B = WordMAX /\ (1 - 1) % B = 0 /\ WordMAX # 0
  <2>1. B \in Nat /\ B >= 2
    BY BaseFacts
  <2>2. -1 = B * (-1) + (B - 1) /\ B - 1 \in 0..(B - 1) /\ -1 \in Int
        /\ 0 = B * 0 + 0 /\ 0 \in 0..(B - 1) /\ 0 \in Int
    BY <2>1, SMT
  <2>3. (-1) % B = B - 1
    BY <2>1, <2>2, DivisionIs
  <2>4. 0 % B = 0
    BY <2>1, <2>2, DivisionIs
  <2> QED
    BY <2>1, <2>3, <2>4, SMT DEF WordMAX
<1>5. CASE s < R
  <2>1. lo = s /\ s \in Uint /\ s >= c /\ Special!UnlessCarried(hi) = c
    <3>1. hi = 0 /\ lo = s
      BY <1>3, <1>5
    <3>2. Special!UnlessCarried(0) = c
      BY <1>4, SpecialOps
    <3> QED
      BY <1>1, <1>5, <3>1, <3>2, SMT DEF Uint
  <2>2. UintBorrowingSub(s, c, 0) = <<s - c, 0>>
    BY <1>1, <2>1, PlainSub
  <2> HIDE DEF lo, hi
  <2>3. Special!UintWrappingSub(lo, Special!UnlessCarried(hi)) = s - c
    BY <2>1, <2>2, SpecialOps DEF UintWrappingSub
  <2>4. s - c = v % n
    BY <1>1, <1>2, <1>5, SMT
  <2> QED
    BY <2>3, <2>4 DEF lo, hi
<1>6. CASE ~(s < R)
  <2>1. lo = s - R /\ s - R \in Uint /\ s - R >= 0 /\ 0 \in Uint
        /\ Special!UnlessCarried(hi) = 0
    <3>1. hi = 1 /\ lo = s - R
      BY <1>3, <1>6
    <3>2. Special!UnlessCarried(1) = 0
      BY <1>4, SpecialOps
    <3> QED
      BY <1>1, <1>6, <3>1, <3>2, SMT DEF Uint
  <2>2. UintBorrowingSub(s - R, 0, 0) = <<s - R - 0, 0>>
    BY <1>1, <2>1, PlainSub
  <2> HIDE DEF lo, hi
  <2>3. Special!UintWrappingSub(lo, Special!UnlessCarried(hi)) = s - R - 0
    BY <2>1, <2>2, SpecialOps DEF UintWrappingSub
  <2>4. s - R - 0 = v % n
    BY <1>1, <1>2, <1>6, SMT
  <2> QED
    BY <2>3, <2>4 DEF lo, hi
<1> QED
  BY <1>5, <1>6

\* A sum below twice the modulus.
LEMMA SpecialAdd ==
    ASSUME c \in Word, c # 0, NEW a \in Uint, NEW b \in Uint,
           a + b < 2 * (R - c)
    PROVE  Special!AddModSpecial(a, b) = (a + b) % (R - c)
<1>1. a \in Nat /\ b \in Nat
  BY BaseFacts, SMT DEF Uint
<1> DEFINE v == a + b
<1>2. Special!AddModSpecial(a, b)
        = Special!UintWrappingSub((v + c) % R, Special!UnlessCarried((v + c) \div R))
  BY SpecialOps DEF Special!AddModSpecial
<1>3. v \in Nat /\ v < 2 * (R - c)
  BY <1>1
<1> HIDE DEF v
<1>4. Special!AddModSpecial(a, b) = v % (R - c)
  BY <1>2, <1>3, TakenBack
<1> QED
  BY <1>4 DEF v

\* A difference no more than the modulus away from its range.
LEMMA SpecialSub ==
    ASSUME c \in Word, c # 0, NEW a \in Uint, NEW b \in Uint,
           a - b >= -(R - c), a - b < R - c
    PROVE  Special!SubModSpecial(a, b) = (a - b) % (R - c)
<1> DEFINE n == R - c
           sub == UintBorrowingSub(a, b, 0)
<1>1. /\ a \in Nat /\ b \in Nat /\ a < R /\ b < R /\ c \in Nat /\ c > 0 /\ c < R
      /\ c \in Uint /\ R \in Nat /\ R > 0 /\ n \in Nat /\ n > 0 /\ a - b \in Int
  BY SpecialSizes, BaseFacts, SMT DEF Uint
<1>2. (a - b) % n = IF a - b >= 0 THEN a - b ELSE a - b + n
  BY <1>1, ModOfDifference
<1>3. Special!SubModSpecial(a, b)
        = UintWrappingSub(sub[1], IF sub[2] # 0 THEN c ELSE 0)
  BY SpecialOps DEF Special!SubModSpecial
<1>4. CASE a >= b
  <2>1. sub = <<a - b, 0>> /\ a - b \in Uint /\ 0 \in Uint /\ a - b >= 0
    BY <1>1, <1>4, PlainSub, SMT DEF Uint
  <2>2. UintBorrowingSub(a - b, 0, 0) = <<a - b - 0, 0>>
    BY <2>1, PlainSub
  <2> HIDE DEF sub
  <2>3. Special!SubModSpecial(a, b) = a - b - 0
    BY <1>3, <2>1, <2>2 DEF UintWrappingSub
  <2> QED
    BY <1>1, <1>2, <2>1, <2>3, SMT
<1>5. CASE ~(a >= b)
  <2>1. sub = <<a - b + R, WordMAX>> /\ a - b + R \in Uint /\ a - b + R >= c
        /\ WordMAX # 0
    BY <1>1, <1>5, PlainSub, BaseFacts, SMT DEF Uint, WordMAX
  <2>2. UintBorrowingSub(a - b + R, c, 0) = <<a - b + R - c, 0>>
    BY <1>1, <2>1, PlainSub
  <2> HIDE DEF sub
  <2>3. Special!SubModSpecial(a, b) = a - b + R - c
    BY <1>3, <2>1, <2>2 DEF UintWrappingSub
  <2> QED
    BY <1>1, <1>2, <1>5, <2>3, SMT
<1> QED
  BY <1>4, <1>5

(***************************************************************************)
(* The reduction of a product lo + R * hi: R is c modulo the modulus, so   *)
(* hi * c replaces R * hi, and the carry of that sum is replaced likewise. *)
(***************************************************************************)

\* The carry of the first replacement is at most c; it is all ones for no
\* product of two limbs with a factor that is reduced.
LEMMA FirstCarry ==
    ASSUME c \in Word, c # 0, N >= 2, N = 2 \/ c # WordMAX,
           NEW lo \in Uint, NEW hi \in Uint,
           lo + R * hi <= (R - c - 1) * (R - 1)
    PROVE  /\ (lo + hi * c) \div R \in Nat /\ (lo + hi * c) \div R <= c
           /\ (lo + hi * c) \div R < WordMAX
<1> DEFINE v == lo + hi * c
           k == v \div R
<1>1. /\ lo \in Nat /\ hi \in Nat /\ lo <= R - 1 /\ hi <= R - 1
      /\ c \in Nat /\ c > 0 /\ c < B /\ R \in Nat /\ R > 0 /\ B * B <= R
      /\ B \in Nat /\ B >= 2
  BY SpecialSizes, BaseFacts, SMT DEF Uint
<1>2. v \in Nat
  <2>1. hi * c \in Nat
    BY <1>1, SMT
  <2> QED
    BY <1>1, <2>1, SMT
<1>3. k \in Nat /\ R * k <= v
  <2> HIDE DEF v
  <2> QED
    BY <1>1, <1>2, DivMod, SMT
<1>4. v < R * (c + 1)
  <2>1. c * hi <= c * (R - 1) /\ c * hi = hi * c
    BY <1>1, Monotone, SMT
  <2>2. c * (R - 1) = R * c - c /\ R * (c + 1) = R * c + R /\ R * c \in Int
        /\ hi * c \in Int
    BY <1>1, SMT
  <2> QED
    BY <1>1, <2>1, <2>2, SMT
<1> HIDE DEF v, k
<1>5. k < c + 1
  <2>1. R * k < R * (c + 1) /\ c + 1 \in Int /\ k \in Int
    BY <1>1, <1>2, <1>3, <1>4, SMT
  <2> QED
    BY <1>1, <2>1, Cancel
<1>6. CASE c # WordMAX
  BY <1>1, <1>3, <1>5, <1>6, SMT DEF WordMAX, k, v
<1>7. CASE c = WordMAX /\ N = 2
  <2>1. R = B * B
    <3>1. N = 2 /\ 0 \in 0..(2 * N - 1) /\ 1 \in 0..(2 * N - 1) /\ 0 + 1 = 1 /\ 1 + 1 = 2
      BY <1>7, SMT
    <3>2. W[0 + 1] = B * W[0] /\ W[1 + 1] = B * W[1] /\ W[0] = 1
      BY <3>1, WeightAssumption
    <3>3. W[1] = B * 1 /\ W[2] = B * W[1]
      BY <3>1, <3>2
    <3>4. W[2] = B * B
      BY <1>1, <3>3, SMT
    <3> QED
      BY <3>1, <3>4 DEF R
  <2>2. c = B - 1
    BY <1>7 DEF WordMAX
  <2>3. (R - c - 1) * (R - 1) = R * (R - B) - (R - B) /\ R - c - 1 = R - B
        /\ R * (R - B) \in Int
    BY <1>1, <2>2, SMT
  <2>4. hi < R - B
    <3>1. R * hi \in Int
      BY <1>1, SMT
    <3>2. B <= R
      <4>1. B * 1 <= B * B
        BY <1>1, Monotone, SMT
      <4> QED
        BY <1>1, <2>1, <4>1, SMT
    <3>3. R * hi < R * (R - B) \/ R = B
      BY <1>1, <2>3, <3>1, <3>2, SMT
    <3>4. R # B
      BY <1>1, <2>1, SMT
    <3>5. hi \in Int /\ R - B \in Int
      BY <1>1, SMT
    <3> QED
      BY <1>1, <3>3, <3>4, <3>5, Cancel
  <2>5. v < R * (B - 1)
    <3>0. hi <= R - B - 1
      BY <1>1, <2>4, SMT
    <3>1. CASE hi = R - B - 1
      <4>1. R * hi = R * (R - B) - R
        BY <1>1, <3>1, SMT
      <4>2. lo <= B
        BY <1>1, <2>3, <4>1, SMT
      <4>3. hi * c = R * (B - 1) - (B + 1) * (B - 1) /\ R * (B - 1) \in Int
        BY <1>1, <2>2, <3>1, SMT
      <4>4. (B + 1) * (B - 1) = B * B - 1 /\ B * B \in Int
        BY <1>1, SMT
      <4>5. B * 2 <= B * B
        BY <1>1, Monotone, SMT
      <4> QED
        BY <1>1, <4>2, <4>3, <4>4, <4>5, SMT DEF v
    <3>2. CASE hi <= R - B - 2
      <4>1. c * hi <= c * (R - B - 2) /\ c * hi = hi * c
        BY <1>1, <3>2, Monotone, SMT
      <4>2. c * (R - B - 2) = R * (B - 1) - (B + 2) * (B - 1)
            /\ R * (B - 1) \in Int
        BY <1>1, <2>2, SMT
      <4>3. (B + 2) * (B - 1) = B * B + B - 2
        BY <1>1, SMT
      <4> QED
        BY <1>1, <2>1, <4>1, <4>2, <4>3, SMT DEF v
    <3> QED
      BY <1>1, <3>0, <3>1, <3>2, SMT
  <2>6. k < B - 1
    <3>1. R * k < R * (B - 1) /\ B - 1 \in Int /\ k \in Int /\ R * k \in Int
      BY <1>1, <1>2, <1>3, <2>5, SMT
    <3> QED
      BY <1>1, <3>1, Cancel
  <2> QED
    BY <1>3, <1>5, <2>6, <1>1, SMT DEF WordMAX, k, v
<1> QED
  BY <1>6, <1>7

\* The second replacement leaves less than twice the modulus, and what each
\* replacement drops is a multiple of the modulus.
LEMMA SecondCarry ==
    ASSUME c \in Word, c # 0, N >= 2,
           NEW t \in Nat, NEW lo \in Uint, NEW hi \in Uint, t = lo + R * hi,
           NEW out \in Uint, NEW k \in Nat, k <= c, lo + hi * c = R * k + out
    PROVE  /\ out + k * c \in Nat /\ out + k * c < 2 * (R - c)
           /\ (out + k * c) % (R - c) = t % (R - c)
<1>1. /\ lo \in Nat /\ hi \in Nat /\ out \in Nat /\ out <= R - 1
      /\ c \in Nat /\ c > 0 /\ c < B /\ R \in Nat /\ R > 0 /\ B * B <= R
      /\ B \in Nat /\ B >= 2
      /\ R - c \in Nat /\ R - c > 0
  BY SpecialSizes, BaseFacts, SMT DEF Uint
<1> DEFINE v == out + k * c
           n == R - c
           e == -(hi + k)
<1>2. v \in Nat
  <2>1. k * c \in Nat
    BY <1>1, SMT
  <2> QED
    BY <1>1, <2>1, SMT
<1>3. v < 2 * n
  <2>1. c * k <= c * c /\ c * k = k * c
    BY <1>1, Monotone, SMT
  <2>2. (c + 1) * (c + 1) <= B * B
    <3>1. (c + 1) * (c + 1) <= (c + 1) * B /\ B * (c + 1) <= B * B
      BY <1>1, Monotone, SMT
    <3>2. (c + 1) * B = B * (c + 1) /\ (c + 1) * B \in Int /\ B * B \in Int
      BY <1>1, SMT
    <3> QED
      BY <1>1, <3>1, <3>2, SMT
  <2>3. (c + 1) * (c + 1) = c * c + 2 * c + 1 /\ c * c \in Int /\ B * B \in Int
        /\ k * c \in Int
    BY <1>1, SMT
  <2> QED
    BY <1>1, <2>1, <2>2, <2>3, SMT
<1>4. v = t + e * n /\ e \in Int
  <2>1. (R * k) \in Int /\ R * hi \in Int /\ hi * c \in Int /\ k * c \in Int
    BY <1>1, SMT
  <2>2. e * n = -(R * hi) + hi * c - R * k + k * c
    BY <1>1, SMT
  <2> QED
    BY <1>1, <2>1, <2>2, SMT
<1>5. v \in Int /\ t \in Int /\ n \in Nat /\ n > 0
  BY <1>1, <1>2
<1> HIDE DEF v, n, e
<1>6. v % n = t % n
  BY <1>4, <1>5, SameResidue
<1> QED
  BY <1>2, <1>3, <1>6 DEF v, n

\* The product of a reduced integer and any other is reduced.
LEMMA SpecialMul ==
    ASSUME c \in Word, c # 0, N <= 2 \/ c # WordMAX,
           NEW a \in 0..(R - c - 1), NEW b \in Uint
    PROVE  Special!MulModSpecial(a, b) = (a * b) % (R - c)
<1>1. /\ a \in Nat /\ a <= R - c - 1 /\ b \in Nat /\ b <= R - 1
      /\ c \in Nat /\ c > 0 /\ c < B /\ R \in Nat /\ R > 0
      /\ B \in Nat /\ B >= 2 /\ N \in Nat /\ N >= 1
      /\ R - c \in Nat /\ R - c > 0
  BY SpecialSizes, BaseFacts, SMT DEF Uint
<1> DEFINE t == a * b
<1>2. t \in Nat
  BY <1>1, SMT
<1>3. CASE N = 1
  <2>1. R = B
    <3>1. 0 \in 0..(2 * N - 1) /\ 0 + 1 = 1
      BY <1>3, SMT
    <3>2. W[0 + 1] = B * W[0] /\ W[0] = 1
      BY <3>1, WeightAssumption
    <3>3. W[1] = B * 1
      BY <3>1, <3>2
    <3> QED
      BY <1>1, <1>3, <3>3, SMT DEF R
  <2>2. (0 - c) % B = B - c
    <3>1. 0 - c = B * (-1) + (B - c) /\ B - c \in 0..(B - 1)
          /\ 0 - c \in Int /\ -1 \in Int /\ B > 0
      BY <1>1, SMT
    <3> QED
      BY <1>1, <3>1, DivisionIs
  <2> QED
    BY <1>3, <2>1, <2>2, SpecialOps DEF Special!MulModSpecial
<1>4. CASE N # 1
  <2> DEFINE lo == t % R
             hi == t \div R
             v == lo + hi * c
             out == v % R
             k == v \div R
  <2> HIDE DEF t
  <2>1. /\ lo \in Uint /\ lo \in Nat /\ hi \in Nat /\ t = R * hi + lo
    BY <1>1, <1>2, DivMod, SMT DEF Uint
  <2>2. t <= (R - c - 1) * (R - 1)
    <3>1. b * a <= b * (R - c - 1)
      BY <1>1, Monotone, SMT
    <3>2. (R - c - 1) * b <= (R - c - 1) * (R - 1) /\ R - c - 1 \in Nat
      BY <1>1, Monotone, SMT
    <3>3. b * a = t /\ b * (R - c - 1) = (R - c - 1) * b
          /\ (R - c - 1) * b \in Int /\ (R - c - 1) * (R - 1) \in Int
      BY <1>1, SMT DEF t
    <3> QED
      BY <1>2, <3>1, <3>2, <3>3, SMT
  <2> HIDE DEF lo, hi
  <2>3. hi \in Uint
    <3>1. R * hi < R * R
      <4>1. (R - c - 1) * (R - 1) = R * R - R - c * (R - 1) - (R - 1)
            /\ c * (R - 1) \in Nat /\ R * R \in Int /\ R * hi \in Int
        BY <1>1, <2>1, SMT
      <4> QED
        BY <1>1, <1>2, <2>1, <2>2, <4>1, SMT
    <3>2. hi < R
      BY <1>1, <2>1, <3>1, Cancel
    <3> QED
      BY <2>1, <3>2, <1>1, SMT DEF Uint
  <2>4. t = lo + R * hi /\ R * hi \in Int
    BY <1>1, <2>1, SMT
  <2>5. N >= 2 /\ (N = 2 \/ c # WordMAX)
    BY <1>1, <1>4, SMT
  <2>6. lo + R * hi <= (R - c - 1) * (R - 1)
    BY <2>2, <2>4
  <2>7. k \in Nat /\ k <= c /\ k < WordMAX
    BY <2>1, <2>3, <2>5, <2>6, FirstCarry
  <2>8. v \in Nat
    <3>1. hi * c \in Nat
      BY <1>1, <2>1, SMT
    <3> QED
      BY <2>1, <3>1, SMT
  <2> HIDE DEF v
  <2>9. out \in Uint /\ v = R * k + out
    BY <1>1, <2>8, DivMod, SMT DEF Uint
  <2> HIDE DEF out, k
  <2>10. lo + hi * c = R * k + out
    BY <2>9 DEF v
  <2>11. /\ out + k * c \in Nat /\ out + k * c < 2 * (R - c)
         /\ (out + k * c) % (R - c) = t % (R - c)
    BY <1>2, <2>1, <2>3, <2>4, <2>5, <2>7, <2>9, <2>10, SecondCarry
  <2> DEFINE w == out + k * c
             s == out + (k + 1) * c + 0
  <2>12. (k + 1) % B = k + 1 /\ s = w + c
    <3>1. k + 1 = B * 0 + (k + 1) /\ k + 1 \in 0..(B - 1) /\ 0 \in Int
          /\ k + 1 \in Int
      BY <1>1, <2>7, SMT DEF WordMAX
    <3>2. (k + 1) % B = k + 1
      BY <1>1, <3>1, DivisionIs
    <3>3. out \in Int
      BY <2>9, <1>1, SMT DEF Uint
    <3> QED
      BY <1>1, <2>7, <3>2, <3>3, SMT
  <2>13. Special!MulModSpecial(a, b)
           = Special!UintWrappingSub(s % R, Special!UnlessCarried(s \div R))
    <3>1. lo + hi * c + 0 = v
      BY <2>8 DEF v
    <3>2. /\ Special!UintMacByLimb((a * b) % R, (a * b) \div R, c, 0) = <<out, k>>
      BY <3>1, SpecialOps DEF out, k, lo, hi, t
    <3>3. Special!wrapping_add(k, 1) = k + 1
      BY <2>12, SpecialOps
    <3> HIDE DEF s
    <3>4. Special!UintCarryingAdd(out, (k + 1) * c, 0) = <<s % R, s \div R>>
      BY SpecialOps DEF s
    <3> QED
      BY <1>4, <3>2, <3>3, <3>4, SpecialOps DEF Special!MulModSpecial
  <2> HIDE DEF s, w
  <2>14. w \in Nat /\ w < 2 * (R - c) /\ w % (R - c) = t % (R - c)
    BY <2>11 DEF w
  <2>15. Special!MulModSpecial(a, b) = w % (R - c)
    BY <2>12, <2>13, <2>14, TakenBack
  <2> QED
    BY <2>14, <2>15 DEF t
<1> QED
  BY <1>3, <1>4

----------------------------------------------------------------------------
(* Programs that use both kinds of routines.                               *)

\* A modulus used as a special one is the modulus of the registers.
SpecialModulus ==
    /\ c \in {0} \cup Cs
    /\ c # 0 => p = R - c

\* The inductive invariant.
ModularInv == TypeOK /\ SpecialModulus

LEMMA SpecialLimb ==
    ASSUME SpecialModulus, c # 0, CarryFits
    PROVE  c \in Word /\ p = R - c /\ (N <= 2 \/ c # WordMAX)
  BY CsAssumption DEF SpecialModulus, CarryFits

\* What the special routines leave in their destination.
LEMMA SpecialValues ==
    ASSUME ModularInv, c # 0, CarryFits, NEW d \in Regs, NEW s \in Regs
    PROVE  /\ Special!AddModSpecial(reg[d], reg[s]) = (reg[d] + reg[s]) % p
           /\ Special!SubModSpecial(reg[d], reg[s]) = (reg[d] - reg[s]) % p
           /\ Special!NegModSpecial(reg[s]) = (-reg[s]) % p
           /\ Special!MulModSpecial(reg[d], reg[s]) = (reg[d] * reg[s]) % p
<1> DEFINE a == reg[d]
           b == reg[s]
<1>1. c \in Word /\ p = R - c /\ (N <= 2 \/ c # WordMAX)
  BY SpecialLimb DEF ModularInv
<1>2. a \in 0..(R - c - 1) /\ b \in 0..(R - c - 1) /\ R - c \in Nat /\ R - c > 0
      /\ R \in Nat /\ c \in Nat
  BY <1>1, SpecialSizes, BaseFacts DEF ModularInv, TypeOK
<1> HIDE DEF a, b
<1>3. a \in Uint /\ b \in Uint /\ 0 \in Uint /\ a \in Nat /\ b \in Nat
      /\ a + b < 2 * (R - c)
      /\ a - b >= -(R - c) /\ a - b < R - c
      /\ 0 - b >= -(R - c) /\ 0 - b < R - c /\ 0 - b = -b
  BY <1>2, SMT DEF Uint
<1>4. Special!AddModSpecial(a, b) = (a + b) % (R - c)
  BY <1>1, <1>3, SpecialAdd
<1>5. Special!SubModSpecial(a, b) = (a - b) % (R - c)
  BY <1>1, <1>3, SpecialSub
<1>6. Special!NegModSpecial(b) = (0 - b) % (R - c)
  BY <1>1, <1>3, SpecialSub DEF Special!NegModSpecial
<1>7. Special!MulModSpecial(a, b) = (a * b) % (R - c)
  BY <1>1, <1>2, <1>3, SpecialMul
<1> QED
  BY <1>1, <1>3, <1>4, <1>5, <1>6, <1>7 DEF a, b

\* A call of a special routine is the operation of the ring.
LEMMA SpecialCalls ==
    ASSUME ModularInv, c # 0, CarryFits, Special!Next, UNCHANGED <<p, boxed>>
    PROVE  /\ c' = c
           /\ \E op \in Ring!Ops \ {"half"}, d \in Regs, s \in Regs :
                 /\ reg' = [reg EXCEPT ![d] = Ring!Apply(op, reg[d], reg[s])]
                 /\ Ring!Apply(op, reg[d], reg[s]) \in 0..(p - 1)
                 /\ call' = <<op, d, s, 0>>
<1>1. PICK d \in Regs, s \in Regs : Special!Add(d, s) \/ Special!Sub(d, s)
                                      \/ Special!Neg(d, s) \/ Special!Mul(d, s)
  BY DEF Special!Next
<1>2. p \in Nat /\ p > 0 /\ reg[d] \in Int /\ reg[s] \in Int
  BY CallValues, SMT DEF ModularInv, TypeOK
<1>3. /\ (reg[d] + reg[s]) % p \in 0..(p - 1)
      /\ (reg[d] - reg[s]) % p \in 0..(p - 1)
      /\ (-reg[s]) % p \in 0..(p - 1)
      /\ (reg[d] * reg[s]) % p \in 0..(p - 1)
  <2>1. reg[d] * reg[s] \in Int
    BY <1>2, SMT
  <2> QED
    BY <1>2, <2>1, ResidueOf, SMT
<1>4. CASE Special!Add(d, s)
  <2>1. /\ "add" \in Ring!Ops \ {"half"}
        /\ Ring!Apply("add", reg[d], reg[s]) = (reg[d] + reg[s]) % p
    BY DEF Ring!Ops, Ring!Apply
  <2> QED
    BY <1>3, <1>4, <2>1, SpecialValues DEF Special!Add, Special!Assign
<1>5. CASE Special!Sub(d, s)
  <2>1. /\ "sub" \in Ring!Ops \ {"half"}
        /\ Ring!Apply("sub", reg[d], reg[s]) = (reg[d] - reg[s]) % p
    BY DEF Ring!Ops, Ring!Apply
  <2> QED
    BY <1>3, <1>5, <2>1, SpecialValues DEF Special!Sub, Special!Assign
<1>6. CASE Special!Neg(d, s)
  <2>1. /\ "neg" \in Ring!Ops \ {"half"}
        /\ Ring!Apply("neg", reg[d], reg[s]) = (-reg[s]) % p
    BY DEF Ring!Ops, Ring!Apply
  <2> QED
    BY <1>3, <1>6, <2>1, SpecialValues DEF Special!Neg, Special!Assign
<1>7. CASE Special!Mul(d, s)
  <2>1. /\ "mul" \in Ring!Ops \ {"half"}
        /\ Ring!Apply("mul", reg[d], reg[s]) = (reg[d] * reg[s]) % p
    BY DEF Ring!Ops, Ring!Apply
  <2> QED
    BY <1>3, <1>7, <2>1, SpecialValues DEF Special!Mul, Special!Assign
<1> QED
  BY <1>1, <1>4, <1>5, <1>6, <1>7

LEMMA ModularInitInv == ModularInit => ModularInv
  BY InitType DEF ModularInit, ModularInv, SpecialModulus

LEMMA ModularNextInv ==
    ModularInv /\ CarryFits /\ [ModularNext]_<<vars, c>> => ModularInv'
<1> SUFFICES ASSUME ModularInv, CarryFits, [ModularNext]_<<vars, c>>
             PROVE  ModularInv'
  OBVIOUS
<1>1. CASE Next /\ UNCHANGED c
  <2>1. TypeOK'
    BY <1>1, NextType DEF ModularInv
  <2>2. p' = p
    BY <1>1 DEF Next, Add, Double, Sub, Neg, Halve, Assign
  <2> QED
    BY <1>1, <2>1, <2>2 DEF ModularInv, SpecialModulus
<1>2. CASE c # 0 /\ Special!Next /\ UNCHANGED <<p, boxed>>
  BY <1>2, SpecialCalls DEF ModularInv, TypeOK, SpecialModulus
<1>3. CASE UNCHANGED <<vars, c>>
  BY <1>3 DEF ModularInv, TypeOK, SpecialModulus, vars
<1> QED
  BY <1>1, <1>2, <1>3 DEF ModularNext

\* The integers stay reduced when general and special routines alternate.
THEOREM ModularStaysReduced ==
    ASSUME CarryFits
    PROVE  ModularSpec => [](TypeOK /\ SpecialModulus)
<1>1. ModularInv /\ [ModularNext]_<<vars, c>> => ModularInv'
  BY ModularNextInv
<1>2. ModularInv => TypeOK /\ SpecialModulus
  BY DEF ModularInv
<1> QED
  BY <1>1, <1>2, ModularInitInv, PTL DEF ModularSpec

\* Each routine, general or special, needs no more than its documented
\* assumption, and mul_mod_special only one reduced factor.
THEOREM DocumentedAssumptions ==
    ASSUME CarryFits
    PROVE  ModularSpec => [](/\ AddModAssumption
                             /\ SubModAssumption
                             /\ SpecialAssumptions)
<1>1. ASSUME TypeOK, SpecialModulus, c # 0
      PROVE  Special!AddSubSpecialAssumption
  <2>1. c \in Word /\ p = R - c /\ R - c \in Nat
    BY <1>1, SpecialLimb, SpecialSizes
  <2>2. ASSUME NEW r \in Regs, NEW b \in Uint
        PROVE  LET a == (reg[r] + b) % R
               IN  /\ a + b < 2 * (R - c) =>
                          Special!AddModSpecial(a, b) = (a + b) % (R - c)
                   /\ (a - b >= -(R - c) /\ a - b < R - c) =>
                          Special!SubModSpecial(a, b) = (a - b) % (R - c)
    <3> DEFINE a == (reg[r] + b) % R
    <3>1. a \in Uint
      <4>1. reg[r] + b \in Int
        BY <1>1, BaseFacts, SMT DEF TypeOK, Uint
      <4> QED
        BY <4>1, BaseFacts, ResidueOf DEF Uint
    <3> HIDE DEF a
    <3>2. a + b < 2 * (R - c) => Special!AddModSpecial(a, b) = (a + b) % (R - c)
      BY <1>1, <2>1, <2>2, <3>1, SpecialAdd
    <3>3. (a - b >= -(R - c) /\ a - b < R - c) =>
              Special!SubModSpecial(a, b) = (a - b) % (R - c)
      BY <1>1, <2>1, <2>2, <3>1, SpecialSub
    <3> QED
      BY <3>2, <3>3 DEF a
  <2> QED
    BY <2>2, SpecialOps DEF Special!AddSubSpecialAssumption
<1>2. ASSUME TypeOK, SpecialModulus, c # 0
      PROVE  Special!MulSpecialCorrect
  <2>1. c \in Word /\ p = R - c /\ (N <= 2 \/ c # WordMAX)
    BY <1>2, SpecialLimb
  <2>2. ASSUME NEW r \in Regs, NEW b \in Uint
        PROVE  Special!MulModSpecial(reg[r], b) = (reg[r] * b) % (R - c)
    <3>1. reg[r] \in 0..(R - c - 1)
      BY <1>2, <2>1 DEF TypeOK
    <3> QED
      BY <1>2, <2>1, <2>2, <3>1, SpecialMul
  <2> QED
    BY <2>2, SpecialOps DEF Special!MulSpecialCorrect
<1>3. TypeOK /\ SpecialModulus => SpecialAssumptions
  BY <1>1, <1>2 DEF SpecialAssumptions
<1> QED
  BY <1>3, AdditionReduces, SubtractionReduces, ModularStaysReduced, PTL

\* Programs over both kinds of routines compute in the ring of residues.
THEOREM ModularRefinement ==
    ASSUME CarryFits
    PROVE  ModularSpec => ImplementsRing
<1>1. ModularInit => Ring!RingInit
  BY RingStart DEF ModularInit
<1>2. ModularInv /\ [ModularNext]_<<vars, c>> => [Ring!RingNext]_<<p, reg, call>>
  <2> SUFFICES ASSUME ModularInv, [ModularNext]_<<vars, c>>
               PROVE  Ring!RingNext \/ UNCHANGED <<p, reg, call>>
    OBVIOUS
  <2>1. CASE Next /\ UNCHANGED c
    BY <2>1, RingStep DEF ModularInv
  <2>2. CASE c # 0 /\ Special!Next /\ UNCHANGED <<p, boxed>>
    <3>1. PICK op \in Ring!Ops \ {"half"}, d \in Regs, s \in Regs :
             /\ reg' = [reg EXCEPT ![d] = Ring!Apply(op, reg[d], reg[s])]
             /\ call' = <<op, d, s, 0>>
      BY <2>2, SpecialCalls
    <3>2. Ring!Perform(op, d, s)
      BY <2>2, <3>1 DEF Ring!Perform
    <3> QED
      BY <3>2 DEF Ring!RingNext
  <2>3. CASE UNCHANGED <<vars, c>>
    BY <2>3 DEF vars
  <2> QED
    BY <2>1, <2>2, <2>3 DEF ModularNext
<1>3. ModularInv /\ [ModularNext]_<<vars, c>> => ModularInv'
  BY ModularNextInv
<1> QED
  BY <1>1, <1>2, <1>3, ModularInitInv, PTL
     DEF ModularSpec, ImplementsRing, Ring!RingSpec
=============================================================================
