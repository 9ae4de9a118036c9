-------------------------- MODULE CarryChainProofs --------------------------
(***************************************************************************)
(* Proofs about CarryChain: whatever the word base, the number of limbs    *)
(* and the arguments, every carry and borrow loop keeps its prefix exact,  *)
(* fresh or in place, and returns what Limbs promises.                     *)
(***************************************************************************)
EXTENDS CarryChain, LimbsProofs

\* Before the first iteration the running carry is the one passed in.
CarryAtStart == i = 0 => carry = cin

\* The inductive invariant.  UnreadIntact is what makes the in-place loops
\* read the operand that was passed, and LegalCall what makes a negation start
\* from a carry of one.
Inv == TypeOK /\ LegalCall /\ CarryAtStart /\ UnreadIntact /\ PrefixExact

----------------------------------------------------------------------------
(* One iteration of a loop.                                                *)

\* What limb i adds to the left operand and to what is added to or taken from
\* it.
LeftLimb  == IF op = "carrying_neg" THEN WordMAX - Limb(a, i) ELSE Limb(a, i)
RightLimb == CASE op = "mac_by_limb"        -> Limb(b, i) * mul
               [] op = "borrowing_sub_limb" -> IF i = 0 THEN b ELSE 0
               [] OTHER                     -> Masked(Limb(b, i), choice)

\* The limbs read are words, and limb i of the left operand is the one that
\* was passed, also when the operand is being overwritten.
LEMMA LimbsRead ==
    ASSUME TypeOK, UnreadIntact, i < N
    PROVE  /\ i \in 0..(N - 1) /\ i \in 0..(2 * N - 1) /\ i \in 0..(2 * N)
           /\ Limb(a, i) \in Word /\ Limb(b, i) \in Word
           /\ Src = Limb(a, i)
<1>1. i \in 0..(N - 1) /\ i \in 0..(2 * N - 1) /\ i \in 0..(2 * N)
      /\ a \in Nat /\ b \in Nat
  BY BaseFacts, SMT DEF TypeOK, Uint
<1>2. Limb(a, i) \in Word /\ Limb(b, i) \in Word
  BY <1>1, LimbType
<1>3. inplace => out \div W[i] = a \div W[i]
  BY DEF UnreadIntact
<1> QED
  BY <1>1, <1>2, <1>3 DEF Src, Limb

\* The operands' low limbs grow by limb i.
LEMMA LowGrows ==
    ASSUME TypeOK, LegalCall, i < N, i \in 0..(2 * N - 1),
           Limb(a, i) \in Word, Limb(b, i) \in Word
    PROVE  /\ LeftLow(i) \in Int /\ LeftLimb \in Word /\ RightLow(i) \in Int
           /\ RightLimb \in Int
           /\ LeftLow(i + 1) = LeftLow(i) + W[i] * LeftLimb
           /\ RightLow(i + 1) = RightLow(i) + W[i] * RightLimb
<1>1. /\ W[i] \in Nat /\ W[i] > 0 /\ W[i + 1] = B * W[i]
      /\ W[i + 1] \in Nat /\ W[i + 1] > 0 /\ W[0] = 1
  <2>1. i \in 0..(2 * N) /\ i < 2 * N /\ i + 1 \in 0..(2 * N)
    BY LimbsAssumption, SMT
  <2> QED
    BY <2>1, WeightFacts, WeightAssumption
<1>2. a \in Nat /\ b \in Nat /\ mul \in Nat /\ B \in Nat /\ B >= 2
  BY BaseFacts, SMT DEF TypeOK, Uint, Word
<1>3. /\ a % W[i + 1] = (a % W[i]) + W[i] * Limb(a, i)
      /\ b % W[i + 1] = (b % W[i]) + W[i] * Limb(b, i)
  BY <1>2, LowLimbs
<1>4. a % W[i] \in Nat /\ b % W[i] \in Nat
  BY <1>1, <1>2, DivMod, SMT
<1> DEFINE aw == a % W[i]
           bw == b % W[i]
           al == Limb(a, i)
           bl == Limb(b, i)
<1>5. aw \in Nat /\ bw \in Nat /\ al \in Word /\ bl \in Word
      /\ a % W[i + 1] = aw + W[i] * al
      /\ b % W[i + 1] = bw + W[i] * bl
  BY <1>3, <1>4
<1>6. /\ LeftLow(i) \in Int /\ LeftLimb \in Word
      /\ LeftLow(i + 1) = LeftLow(i) + W[i] * LeftLimb
  <2>1. CASE op = "carrying_neg"
    <3>1. /\ LeftLow(i) = W[i] - 1 - aw /\ LeftLimb = WordMAX - al
          /\ LeftLow(i + 1) = W[i + 1] - 1 - (aw + W[i] * al)
      BY <1>5, <2>1 DEF LeftLow, LeftLimb
    <3> HIDE DEF aw, al
    <3>2. W[i] * (WordMAX - al) = B * W[i] - W[i] - W[i] * al
      BY <1>1, <1>2, <1>5, SMT DEF Word, WordMAX
    <3> QED
      BY <3>1, <3>2, <1>1, <1>2, <1>5, SMT DEF Word, WordMAX
  <2>2. CASE op # "carrying_neg"
    <3>1. /\ LeftLow(i) = aw /\ LeftLimb = al
          /\ LeftLow(i + 1) = aw + W[i] * al
      BY <1>5, <2>2 DEF LeftLow, LeftLimb
    <3> QED
      BY <3>1, <1>5
  <2> QED
    BY <2>1, <2>2
<1>7. /\ RightLow(i) \in Int /\ RightLimb \in Int
      /\ RightLow(i + 1) = RightLow(i) + W[i] * RightLimb
  <2>1. CASE op = "mac_by_limb"
    <3>1. /\ RightLow(i) = bw * mul /\ RightLimb = bl * mul
          /\ RightLow(i + 1) = (bw + W[i] * bl) * mul
      BY <1>5, <2>1 DEF RightLow, RightLimb
    <3> HIDE DEF bw, bl
    <3> QED
      BY <3>1, <1>1, <1>2, <1>5, SMT DEF Word
  <2>2. CASE op = "borrowing_sub_limb"
    <3>1. /\ RightLow(i) = (IF i = 0 THEN 0 ELSE b)
          /\ RightLimb = (IF i = 0 THEN b ELSE 0)
          /\ RightLow(i + 1) = b
      BY <2>2, SMT DEF RightLow, RightLimb
    <3> QED
      BY <3>1, <1>1, <1>2, SMT
  <2>3. CASE op \notin {"mac_by_limb", "borrowing_sub_limb"}
    <3>1. /\ RightLow(i) = Masked(bw, choice)
          /\ RightLimb = Masked(bl, choice)
          /\ RightLow(i + 1) = Masked(bw + W[i] * bl, choice)
      BY <1>5, <2>3 DEF RightLow, RightLimb
    <3> HIDE DEF bw, bl
    <3>2. CASE choice
      BY <3>1, <3>2, <1>1, <1>5, SMT DEF Masked, Word
    <3>3. CASE ~choice
      BY <3>1, <3>3, <1>1, SMT DEF Masked
    <3> QED
      BY <3>2, <3>3
  <2> QED
    BY <2>1, <2>2, <2>3
<1> QED
  BY <1>6, <1>7

\* Storing a limb leaves the call as it is, moves on by one limb and disturbs
\* no limb still to be read.
LEMMA StoreKeeps ==
    ASSUME TypeOK, UnreadIntact, i < N,
           NEW p, p[1] \in Word, p[2] \in Word, Store(p)
    PROVE  /\ UNCHANGED call /\ i' = i + 1 /\ i' \in 0..N
           /\ carry' = p[2] /\ out' \in Uint
           /\ out' % W[i + 1] = (out % W[i]) + W[i] * p[1]
           /\ UnreadIntact'
<1>1. i \in 0..(N - 1) /\ i \in 0..(2 * N - 1)
  BY LimbsRead
<1>2. UNCHANGED call /\ i' = i + 1 /\ carry' = p[2] /\ out' = SetLimb(out, i, p[1])
  BY DEF Store
<1>3. out \in Uint /\ out \in Nat /\ a \in Nat
  BY BaseFacts, SMT DEF TypeOK, Uint
<1>4. /\ out' \in Uint
      /\ out' % W[i + 1] = (out % W[i]) + W[i] * p[1]
      /\ out' \div W[i + 1] = out \div W[i + 1]
  BY <1>1, <1>2, <1>3, SetLimbFacts
<1>5. UnreadIntact'
  <2>1. /\ out \div W[i + 1] = (out \div W[i]) \div B
        /\ a \div W[i + 1] = (a \div W[i]) \div B
    BY <1>1, <1>3, HighLimbs
  <2>2. 0 \div B = 0
    BY BaseFacts, SMT
  <2>3. inplace' = inplace /\ a' = a
    BY <1>2 DEF call
  <2> QED
    BY <1>2, <1>4, <2>1, <2>2, <2>3 DEF UnreadIntact
<1>6. i' \in 0..N
  BY <1>1, <1>2, BaseFacts, SMT
<1> QED
  BY <1>2, <1>4, <1>5, <1>6

\* An iteration of an addition that stores the exact sum of its limbs keeps
\* the prefix exact.
LEMMA AddStep ==
    ASSUME Inv, i < N, op \in AddOps,
           NEW p, p[1] \in Word, p[2] \in Word, Store(p),
           p[1] + B * p[2] = LeftLimb + RightLimb + carry
    PROVE  PrefixExact'
<1> USE DEF Inv
<1>1. /\ UNCHANGED call /\ i' = i + 1 /\ carry' = p[2]
      /\ out' % W[i + 1] = (out % W[i]) + W[i] * p[1]
  BY StoreKeeps
<1>2. /\ LeftLow(i) \in Int /\ LeftLimb \in Word /\ RightLow(i) \in Int
      /\ RightLimb \in Int
      /\ LeftLow(i + 1) = LeftLow(i) + W[i] * LeftLimb
      /\ RightLow(i + 1) = RightLow(i) + W[i] * RightLimb
  BY LimbsRead, LowGrows
<1>3. LeftLow(i)' = LeftLow(i + 1) /\ RightLow(i)' = RightLow(i + 1)
  BY <1>1 DEF call, LeftLow, RightLow
<1>4. /\ W[i] \in Nat /\ W[i + 1] = B * W[i] /\ B \in Nat
      /\ out % W[i] \in Nat /\ carry \in Word /\ cin \in Word
  <2>1. i \in 0..(2 * N) /\ i < 2 * N /\ out \in Int
    BY LimbsRead, LimbsAssumption, BaseFacts, SMT DEF TypeOK, Uint
  <2> QED
    BY <2>1, WeightFacts, BaseFacts, DivMod DEF TypeOK
<1>5. (out % W[i]) + carry * W[i] = LeftLow(i) + RightLow(i) + cin
  BY DEF PrefixExact
<1>6. (out' % W[i + 1]) + p[2] * W[i + 1] = LeftLow(i + 1) + RightLow(i + 1) + cin
  <2> DEFINE o == out % W[i]
             w == W[i]
             l == LeftLow(i)
             r == RightLow(i)
             ll == LeftLimb
             rl == RightLimb
  <2>1. /\ o + carry * w = l + r + cin
        /\ p[1] + B * p[2] = ll + rl + carry
        /\ w \in Nat /\ o \in Nat /\ l \in Int /\ r \in Int /\ ll \in Word
        /\ rl \in Int /\ carry \in Word /\ cin \in Word /\ B \in Nat
    BY <1>2, <1>4, <1>5
  <2> HIDE DEF o, w, l, r, ll, rl
  <2>2. w * (p[1] + B * p[2]) = w * (ll + rl + carry)
    BY <2>1
  <2>3. o + w * p[1] + p[2] * (B * w) = (l + w * ll) + (r + w * rl) + cin
    BY <2>1, <2>2, SMT DEF Word
  <2> QED
    BY <2>3, <1>1, <1>2, <1>4 DEF o, w, l, r, ll, rl
<1> QED
  BY <1>1, <1>3, <1>6 DEF PrefixExact, call

\* The same for a subtraction.
LEMMA SubStep ==
    ASSUME Inv, i < N, op \in SubOps,
           NEW p, p[1] \in Word, p[2] \in Word, Store(p),
           p[1] - B * BorrowBit(p[2]) = LeftLimb - RightLimb - BorrowBit(carry)
    PROVE  PrefixExact'
<1> USE DEF Inv
<1>1. /\ UNCHANGED call /\ i' = i + 1 /\ carry' = p[2]
      /\ out' % W[i + 1] = (out % W[i]) + W[i] * p[1]
  BY StoreKeeps
<1>2. /\ LeftLow(i) \in Int /\ LeftLimb \in Word /\ RightLow(i) \in Int
      /\ RightLimb \in Int
      /\ LeftLow(i + 1) = LeftLow(i) + W[i] * LeftLimb
      /\ RightLow(i + 1) = RightLow(i) + W[i] * RightLimb
  BY LimbsRead, LowGrows
<1>3. LeftLow(i)' = LeftLow(i + 1) /\ RightLow(i)' = RightLow(i + 1)
  BY <1>1 DEF call, LeftLow, RightLow
<1>4. /\ W[i] \in Nat /\ W[i + 1] = B * W[i] /\ B \in Nat
      /\ out % W[i] \in Nat
      /\ BorrowBit(carry) \in Int /\ BorrowBit(cin) \in Int
      /\ BorrowBit(p[2]) \in Int
  <2>1. i \in 0..(2 * N) /\ i < 2 * N /\ out \in Int
    BY LimbsRead, LimbsAssumption, BaseFacts, SMT DEF TypeOK, Uint
  <2>2. W[i] \in Nat /\ W[i] > 0 /\ W[i + 1] = B * W[i]
    BY <2>1, WeightFacts
  <2>3. carry \in Word /\ cin \in Word
    BY DEF TypeOK
  <2>4. BorrowBit(carry) \in {0, 1} /\ BorrowBit(cin) \in {0, 1}
        /\ BorrowBit(p[2]) \in {0, 1}
    BY <2>3, BorrowBits
  <2>5. out % W[i] \in Nat
    BY <2>1, <2>2, DivMod
  <2> QED
    BY <2>2, <2>4, <2>5, BaseFacts, SMT
<1>5. op \notin AddOps
  BY DEF AddOps, SubOps
<1>6. (out % W[i]) - BorrowBit(carry) * W[i]
        = LeftLow(i) - RightLow(i) - BorrowBit(cin)
  BY <1>5 DEF PrefixExact
<1>7. (out' % W[i + 1]) - BorrowBit(p[2]) * W[i + 1]
        = LeftLow(i + 1) - RightLow(i + 1) - BorrowBit(cin)
  <2> DEFINE o == out % W[i]
             w == W[i]
             l == LeftLow(i)
             r == RightLow(i)
             ll == LeftLimb
             rl == RightLimb
             c0 == BorrowBit(cin)
             c1 == BorrowBit(carry)
             c2 == BorrowBit(p[2])
             v  == p[1]
  <2>1. /\ o - c1 * w = l - r - c0
        /\ v - B * c2 = ll - rl - c1
    BY <1>6
  <2>2. /\ w \in Nat /\ o \in Nat /\ l \in Int /\ r \in Int /\ ll \in Word
        /\ rl \in Int /\ c0 \in Int /\ c1 \in Int /\ c2 \in Int
        /\ v \in Word /\ B \in Nat
    BY <1>2, <1>4
  <2>3. /\ out' % W[i + 1] = o + w * v /\ W[i + 1] = B * w
        /\ LeftLow(i + 1) = l + w * ll /\ RightLow(i + 1) = r + w * rl
    BY <1>1, <1>2, <1>4
  <2> HIDE DEF o, w, l, r, ll, rl, c0, c1, c2, v
  <2>4. w * v = c2 * (B * w) + w * ll - w * rl - c1 * w
    <3>1. v = B * c2 + ll - rl - c1
      BY <2>1, <2>2, SMT DEF Word
    <3>2. w * v = w * (B * c2 + ll - rl - c1)
      BY <3>1
    <3> QED
      BY <3>2, <2>2, SMT DEF Word
  <2> DEFINE wv == w * v
             cw == c2 * (B * w)
             wl == w * ll
             wr == w * rl
             kw == c1 * w
  <2>5. wv \in Int /\ cw \in Int /\ wl \in Int /\ wr \in Int /\ kw \in Int
    BY <2>2, SMT DEF Word
  <2>6. wv = cw + wl - wr - kw /\ o - kw = l - r - c0
    BY <2>1, <2>4
  <2>7. (o + w * v) - c2 * (B * w) = (l + w * ll) - (r + w * rl) - c0
    <3>1. wv = cw + wl - wr - kw => (o + wv) - cw = (l + wl) - (r + wr) - c0
      <4> HIDE DEF wv, cw, wl, wr, kw
      <4> QED
        BY <2>2, <2>5, <2>6, SMT
    <3> QED
      BY <2>6, <3>1
  <2> QED
    BY <2>3, <2>7 DEF c0, c2
<1> QED
  BY <1>1, <1>3, <1>5, <1>7 DEF PrefixExact, call

----------------------------------------------------------------------------
(* The invariant.                                                          *)

\* The invariant holds when a call starts.
LEMMA InitInv == Init => Inv
<1> SUFFICES ASSUME Init PROVE Inv
  OBVIOUS
<1>1. N \in Nat /\ 0 \in 0..N /\ W[0] = 1 /\ 0 \in Uint
  BY BaseFacts, WeightAssumption, SMT DEF Uint
<1>2. TypeOK /\ LegalCall /\ CarryAtStart
  BY <1>1, SMT DEF Init, TypeOK, CarryShape, CarryAtStart
<1>3. a \in Nat /\ b \in Nat /\ mul \in Nat
  BY BaseFacts, SMT DEF Init, Uint, Word
<1>4. a % 1 = 0 /\ b % 1 = 0 /\ 0 % 1 = 0 /\ a \div 1 = a /\ 0 \div 1 = 0
  BY <1>3, DivisionIs, SMT
<1>5. UnreadIntact
  BY <1>1, <1>4 DEF Init, UnreadIntact
<1>6. PrefixExact
  <2>1. LeftLow(0) = 0
    BY <1>1, <1>4, SMT DEF LeftLow
  <2>2. RightLow(0) = 0
    BY <1>1, <1>3, <1>4, SMT DEF RightLow, Masked
  <2>3. out % W[i] = 0 /\ W[i] = 1 /\ i = 0 /\ carry = cin
    BY <1>1, <1>4 DEF Init
  <2>4. cin \in Nat /\ BorrowBit(cin) \in Int
    BY BorrowBits, BaseFacts, SMT DEF Init, Word
  <2> QED
    BY <2>1, <2>2, <2>3, <2>4, SMT DEF PrefixExact
<1> QED
  BY <1>2, <1>5, <1>6 DEF Inv

\* What an iteration has to show once its prefix is exact: that the carry it
\* stores has the range of its routine.
LEMMA StoreInv ==
    ASSUME Inv, i < N,
           NEW p, p[1] \in Word, p[2] \in Word, Store(p),
           PrefixExact',
           /\ op \in {"carrying_add", "conditional_add"} =>
                  p[2] <= 2 /\ (cin <= 1 => p[2] <= 1)
           /\ op \in {"overflowing_add_limb", "carrying_neg"} => p[2] <= 1
           /\ op \in SubOps => p[2] \in {0, WordMAX}
    PROVE  Inv'
<1>1. /\ UNCHANGED call /\ i' = i + 1 /\ i' \in 0..N
      /\ carry' = p[2] /\ out' \in Uint /\ UnreadIntact'
  BY StoreKeeps DEF Inv
<1>2. CarryShape'
  BY <1>1 DEF CarryShape, call
<1>3. TypeOK'
  BY <1>1, <1>2 DEF Inv, TypeOK, call
<1>4. LegalCall'
  BY <1>1 DEF Inv, LegalCall, call
<1>5. CarryAtStart'
  <2>1. i \in Nat
    BY BaseFacts, SMT DEF Inv, TypeOK
  <2> QED
    BY <1>1, <2>1, SMT DEF CarryAtStart
<1> QED
  BY <1>1, <1>3, <1>4, <1>5 DEF Inv

\* A carry passed in that is at most one stays at most one.
LEMMA CarryStaysSmall ==
    ASSUME Inv, op \in {"carrying_add", "conditional_add"}, cin <= 1
    PROVE  carry <= 1
<1>1. i \in Nat
  BY BaseFacts, SMT DEF Inv, TypeOK
<1>2. CASE i = 0
  BY <1>2 DEF Inv, CarryAtStart
<1>3. CASE i > 0
  BY <1>3 DEF Inv, TypeOK, CarryShape
<1> QED
  BY <1>1, <1>2, <1>3, SMT

\* One iteration of each loop keeps the invariant: carrying_add.
LEMMA CarryingAddInv == Inv /\ CarryingAdd => Inv'
<1> SUFFICES ASSUME Inv, CarryingAdd PROVE Inv'
  OBVIOUS
<1> DEFINE p == carrying_add(Src, Limb(b, i), carry)
<1>1. op = "carrying_add" /\ i < N /\ Store(p) /\ choice
  BY DEF CarryingAdd, Inv, LegalCall
<1>2. Src = Limb(a, i) /\ Limb(a, i) \in Word /\ Limb(b, i) \in Word /\ carry \in Word
  BY <1>1, LimbsRead DEF Inv, TypeOK
<1>3. LeftLimb = Limb(a, i) /\ RightLimb = Limb(b, i)
  BY <1>1 DEF LeftLimb, RightLimb, Masked
<1>4. /\ p[1] \in Word /\ p[2] \in Word
      /\ p[1] + B * p[2] = Src + Limb(b, i) + carry
      /\ p[2] <= 2 /\ (carry <= 1 => p[2] <= 1)
  BY <1>2, CarryingAddExact
<1> HIDE DEF p
<1>5. PrefixExact'
  BY <1>1, <1>2, <1>3, <1>4, AddStep DEF AddOps
<1> QED
  BY <1>1, <1>4, <1>5, StoreInv, CarryStaysSmall DEF SubOps

\* The addition of a limb that a mask may have cleared.
LEMMA ConditionalAddInv == Inv /\ ConditionalAdd => Inv'
<1> SUFFICES ASSUME Inv, ConditionalAdd PROVE Inv'
  OBVIOUS
<1> DEFINE r == Select(0, Limb(b, i), choice)
           p == carrying_add(Src, r, carry)
<1>1. op = "conditional_add" /\ i < N /\ Store(p)
  BY DEF ConditionalAdd
<1>2. Src = Limb(a, i) /\ Limb(a, i) \in Word /\ Limb(b, i) \in Word /\ carry \in Word
  BY <1>1, LimbsRead DEF Inv, TypeOK
<1>3. LeftLimb = Limb(a, i) /\ RightLimb = r /\ r \in Word
  BY <1>1, <1>2, BorrowBits DEF LeftLimb, RightLimb, Masked, Select
<1> HIDE DEF r
<1>4. /\ p[1] \in Word /\ p[2] \in Word
      /\ p[1] + B * p[2] = Src + r + carry
      /\ p[2] <= 2 /\ (carry <= 1 => p[2] <= 1)
  BY <1>2, <1>3, CarryingAddExact
<1> HIDE DEF p
<1>5. PrefixExact'
  BY <1>1, <1>2, <1>3, <1>4, AddStep DEF AddOps
<1> QED
  BY <1>1, <1>4, <1>5, StoreInv, CarryStaysSmall DEF SubOps

\* The propagation of a limb passed as the carry.
LEMMA OverflowingAddLimbInv == Inv /\ OverflowingAddLimb => Inv'
<1> SUFFICES ASSUME Inv, OverflowingAddLimb PROVE Inv'
  OBVIOUS
<1> DEFINE p == overflowing_add(Src, carry)
<1>1. op = "overflowing_add_limb" /\ i < N /\ Store(p) /\ b = 0
  BY DEF OverflowingAddLimb, Inv, LegalCall
<1>2. Src = Limb(a, i) /\ Limb(a, i) \in Word /\ carry \in Word
  BY <1>1, LimbsRead DEF Inv, TypeOK
<1>3. LeftLimb = Limb(a, i) /\ RightLimb = 0
  <2>1. Limb(b, i) = 0
    <3>1. W[i] \in Nat /\ W[i] > 0 /\ B \in Nat /\ B > 0
      BY <1>1, LimbsRead, WeightFacts, BaseFacts, SMT DEF Inv
    <3> QED
      BY <1>1, <3>1, DivisionIs, SMT DEF Limb
  <2> QED
    BY <1>1, <2>1 DEF LeftLimb, RightLimb, Masked
<1>4. /\ p[1] \in Word /\ p[2] \in Word
      /\ p[1] + B * p[2] = Src + carry
      /\ p[2] <= 1
  BY <1>2, OverflowingAddExact
<1> HIDE DEF p
<1>5. PrefixExact'
  <2>1. p[1] + B * p[2] = LeftLimb + RightLimb + carry
    BY <1>2, <1>3, <1>4, BaseFacts, SMT DEF Word
  <2> QED
    BY <1>1, <1>4, <2>1, AddStep DEF AddOps
<1> QED
  BY <1>1, <1>4, <1>5, StoreInv DEF SubOps

\* The multiply-accumulate by a limb.
LEMMA MacByLimbInv == Inv /\ MacByLimb => Inv'
<1> SUFFICES ASSUME Inv, MacByLimb PROVE Inv'
  OBVIOUS
<1> DEFINE p == carrying_mul_add(Limb(b, i), mul, Src, carry)
<1>1. op = "mac_by_limb" /\ i < N /\ Store(p)
  BY DEF MacByLimb
<1>2. /\ Src = Limb(a, i) /\ Limb(a, i) \in Word /\ Limb(b, i) \in Word
      /\ mul \in Word /\ carry \in Word
  BY <1>1, LimbsRead DEF Inv, TypeOK
<1>3. LeftLimb = Limb(a, i) /\ RightLimb = Limb(b, i) * mul
  BY <1>1 DEF LeftLimb, RightLimb
<1>4. /\ p[1] \in Word /\ p[2] \in Word
      /\ p[1] + B * p[2] = Limb(b, i) * mul + Src + carry
  BY <1>2, MulAddExact
<1> HIDE DEF p
<1>5. PrefixExact'
  <2>1. p[1] + B * p[2] = LeftLimb + RightLimb + carry
    BY <1>2, <1>3, <1>4, BaseFacts, SMT DEF Word
  <2> QED
    BY <1>1, <1>4, <2>1, AddStep DEF AddOps
<1> QED
  BY <1>1, <1>4, <1>5, StoreInv DEF SubOps

\* The complement with a carry.
LEMMA CarryingNegInv == Inv /\ CarryingNeg => Inv'
<1> SUFFICES ASSUME Inv, CarryingNeg PROVE Inv'
  OBVIOUS
<1> DEFINE r == (WordMAX - Src) + carry
           p == <<Lo(r), Hi(r)>>
<1>1. op = "carrying_neg" /\ i < N /\ Store(p) /\ b = 0
  BY DEF CarryingNeg, Inv, LegalCall
<1>2. Src = Limb(a, i) /\ Limb(a, i) \in Word /\ carry \in Word
  BY <1>1, LimbsRead DEF Inv, TypeOK
<1>3. LeftLimb = WordMAX - Src /\ RightLimb = 0
  <2>1. Limb(b, i) = 0
    <3>1. W[i] \in Nat /\ W[i] > 0 /\ B \in Nat /\ B > 0
      BY <1>1, LimbsRead, WeightFacts, BaseFacts, SMT DEF Inv
    <3> QED
      BY <1>1, <3>1, DivisionIs, SMT DEF Limb
  <2> QED
    BY <1>1, <1>2, <2>1 DEF LeftLimb, RightLimb, Masked
<1>4. /\ p[1] \in Word /\ p[2] \in Word
      /\ p[1] + B * p[2] = WordMAX - Src + carry
      /\ p[2] <= 1
  BY <1>2, NegExact
<1> HIDE DEF p
<1>5. PrefixExact'
  <2>1. p[1] + B * p[2] = LeftLimb + RightLimb + carry
    BY <1>2, <1>3, <1>4, BaseFacts, SMT DEF Word, WordMAX
  <2> QED
    BY <1>1, <1>4, <2>1, AddStep DEF AddOps
<1> QED
  BY <1>1, <1>4, <1>5, StoreInv DEF SubOps

\* The subtraction with a borrow.
LEMMA BorrowingSubInv == Inv /\ BorrowingSub => Inv'
<1> SUFFICES ASSUME Inv, BorrowingSub PROVE Inv'
  OBVIOUS
<1> DEFINE p == borrowing_sub(Src, Limb(b, i), carry)
<1>1. op = "borrowing_sub" /\ i < N /\ Store(p) /\ choice
  BY DEF BorrowingSub, Inv, LegalCall
<1>2. Src = Limb(a, i) /\ Limb(a, i) \in Word /\ Limb(b, i) \in Word /\ carry \in Word
  BY <1>1, LimbsRead DEF Inv, TypeOK
<1>3. LeftLimb = Limb(a, i) /\ RightLimb = Limb(b, i)
  BY <1>1 DEF LeftLimb, RightLimb, Masked
<1> HIDE DEF p
<1>4. /\ p[1] \in Word /\ p[2] \in Word /\ p[2] \in {0, WordMAX}
      /\ p[1] - B * BorrowBit(p[2]) = Src - Limb(b, i) - BorrowBit(carry)
  <2>1. Src \in Word /\ Limb(b, i) \in Word /\ carry \in Word /\ p = borrowing_sub(Src, Limb(b, i), carry)
    BY <1>2 DEF p
  <2> QED
    BY <2>1, BorrowingSubExact
<1>5. PrefixExact'
  BY <1>1, <1>2, <1>3, <1>4, SubStep DEF SubOps
<1> QED
  BY <1>1, <1>4, <1>5, StoreInv

\* The subtraction of a limb that a mask may have cleared.
LEMMA ConditionalBorrowingSubInv == Inv /\ ConditionalBorrowingSub => Inv'
<1> SUFFICES ASSUME Inv, ConditionalBorrowingSub PROVE Inv'
  OBVIOUS
<1> DEFINE r == Masked(Limb(b, i), choice)
           p == borrowing_sub(Src, r, carry)
<1>1. op = "conditional_borrowing_sub" /\ i < N /\ Store(p)
  BY DEF ConditionalBorrowingSub
<1>2. Src = Limb(a, i) /\ Limb(a, i) \in Word /\ Limb(b, i) \in Word /\ carry \in Word
  BY <1>1, LimbsRead DEF Inv, TypeOK
<1>3. LeftLimb = Limb(a, i) /\ RightLimb = r /\ r \in Word
  BY <1>1, <1>2, BorrowBits DEF LeftLimb, RightLimb, Masked
<1> HIDE DEF r, p
<1>4. /\ p[1] \in Word /\ p[2] \in Word /\ p[2] \in {0, WordMAX}
      /\ p[1] - B * BorrowBit(p[2]) = Src - r - BorrowBit(carry)
  <2>1. Src \in Word /\ r \in Word /\ carry \in Word /\ p = borrowing_sub(Src, r, carry)
    BY <1>2, <1>3 DEF p
  <2> QED
    BY <2>1, BorrowingSubExact
<1>5. PrefixExact'
  BY <1>1, <1>2, <1>3, <1>4, SubStep DEF SubOps
<1> QED
  BY <1>1, <1>4, <1>5, StoreInv

\* The subtraction of a single limb.
LEMMA BorrowingSubLimbInv == Inv /\ BorrowingSubLimb => Inv'
<1> SUFFICES ASSUME Inv, BorrowingSubLimb PROVE Inv'
  OBVIOUS
<1> DEFINE r == IF i = 0 THEN b ELSE 0
           p == borrowing_sub(Src, r, carry)
<1>1. op = "borrowing_sub_limb" /\ i < N /\ Store(p) /\ b \in Word
  BY DEF BorrowingSubLimb, Inv, LegalCall
<1>2. Src = Limb(a, i) /\ Limb(a, i) \in Word /\ carry \in Word
  BY <1>1, LimbsRead DEF Inv, TypeOK
<1>3. LeftLimb = Limb(a, i) /\ RightLimb = r /\ r \in Word
  BY <1>1, <1>2, BorrowBits DEF LeftLimb, RightLimb
<1> HIDE DEF r, p
<1>4. /\ p[1] \in Word /\ p[2] \in Word /\ p[2] \in {0, WordMAX}
      /\ p[1] - B * BorrowBit(p[2]) = Src - r - BorrowBit(carry)
  <2>1. Src \in Word /\ r \in Word /\ carry \in Word /\ p = borrowing_sub(Src, r, carry)
    BY <1>2, <1>3 DEF p
  <2> QED
    BY <2>1, BorrowingSubExact
<1>5. PrefixExact'
  BY <1>1, <1>2, <1>3, <1>4, SubStep DEF SubOps
<1> QED
  BY <1>1, <1>4, <1>5, StoreInv

\* Every step keeps the invariant.
LEMMA NextInv == Inv /\ [Next]_vars => Inv'
<1> SUFFICES ASSUME Inv, [Next]_vars PROVE Inv'
  OBVIOUS
<1>1. CASE UNCHANGED vars
  BY <1>1 DEF Inv, TypeOK, CarryShape, LegalCall, CarryAtStart, UnreadIntact,
              PrefixExact, LeftLow, RightLow, vars
<1>2. CASE Returned
  BY <1>1, <1>2 DEF Returned
<1>3. CASE Next
  BY <1>2, <1>3, CarryingAddInv, ConditionalAddInv, OverflowingAddLimbInv,
     MacByLimbInv, CarryingNegInv, BorrowingSubInv, ConditionalBorrowingSubInv,
     BorrowingSubLimbInv DEF Next
<1> QED
  BY <1>1, <1>3

----------------------------------------------------------------------------
(* What a call that has gone through all its limbs returns.                *)

\* At the end the prefix is the whole integer.
LEMMA WholePrefix ==
    ASSUME Inv, i = N
    PROVE  /\ R \in Nat /\ R > 0 /\ R = W[N]
           /\ out \in 0..(R - 1) /\ carry \in Word /\ cin \in Word /\ mul \in Word
           /\ a \in 0..(R - 1) /\ b \in 0..(R - 1)
           /\ out % W[N] = out /\ a % W[N] = a /\ b % W[N] = b
           /\ CarryShape /\ i > 0 /\ i # 0
<1>1. /\ R \in Nat /\ R > 0 /\ R = W[N] /\ N > 0
      /\ out \in 0..(R - 1) /\ a \in 0..(R - 1) /\ b \in 0..(R - 1)
  BY BaseFacts, SMT DEF Inv, TypeOK, Uint, R
<1>2. ASSUME NEW x \in 0..(R - 1) PROVE x % R = x
  <2>1. x = R * 0 + x /\ x \in Int
    BY <1>1, SMT
  <2> QED
    BY <1>1, <2>1, DivisionIs, SMT
<1>3. out % R = out /\ a % R = a /\ b % R = b
  BY <1>1, <1>2
<1>4. carry \in Word /\ cin \in Word /\ mul \in Word /\ CarryShape
  BY DEF Inv, TypeOK
<1>5. i > 0 /\ i # 0
  BY <1>1, BaseFacts, SMT
<1> QED
  BY <1>1, <1>3, <1>4, <1>5

\* A sum whose low part is out and whose carry is carry splits that way.
LEMMA ChainSum ==
    ASSUME Inv, i = N, NEW s, s = out + carry * R
    PROVE  <<s % R, s \div R>> = <<out, carry>>
<1>1. R \in Nat /\ R > 0 /\ out \in 0..(R - 1) /\ carry \in Int
  BY WholePrefix, BaseFacts, SMT DEF Word
<1>2. s = R * carry + out /\ s \in Int
  BY <1>1, SMT
<1> QED
  BY <1>1, <1>2, DivisionIs

\* A difference whose low part is out and whose borrow is carry splits that
\* way.
LEMMA DifferenceSplits ==
    ASSUME Inv, i = N, carry \in {0, WordMAX},
           NEW d, d = out - BorrowBit(carry) * R
    PROVE  /\ d % R = out
           /\ d < 0 <=> carry = WordMAX
           /\ lsb_to_choice(carry) <=> carry = WordMAX
<1>1. R \in Nat /\ R > 0 /\ out \in 0..(R - 1)
  BY WholePrefix
<1>2. BorrowBit(carry) = IF carry = WordMAX THEN 1 ELSE 0
  BY BorrowBits
<1>3. d \in Int /\ d = R * (-BorrowBit(carry)) + out /\ -BorrowBit(carry) \in Int
  BY <1>1, <1>2, SMT
<1>4. d % R = out
  BY <1>1, <1>3, DivisionIs
<1>5. d < 0 <=> carry = WordMAX
  BY <1>1, <1>2, SMT
<1>6. lsb_to_choice(carry) <=> carry = WordMAX
  BY BorrowBits DEF lsb_to_choice
<1> QED
  BY <1>4, <1>5, <1>6

\* A finished call has returned what Limbs says: what is left of the invariant
\* when the prefix is the whole integer.
LEMMA ResultOf == Inv => ResultCorrect
<1> SUFFICES ASSUME Inv, i = N PROVE Result = Promise
  BY DEF ResultCorrect
<1>1. op \in AddOps \cup SubOps /\ LegalCall /\ PrefixExact
  BY DEF Inv, TypeOK
<1>2. /\ R \in Nat /\ R > 0 /\ R = W[N]
      /\ out \in 0..(R - 1) /\ a \in 0..(R - 1) /\ b \in 0..(R - 1)
      /\ carry \in Nat /\ cin \in Nat /\ mul \in Nat
      /\ BorrowBit(carry) \in Int /\ BorrowBit(cin) \in Int
  <2>1. BorrowBit(carry) \in {0, 1} /\ BorrowBit(cin) \in {0, 1}
    BY WholePrefix, BorrowBits
  <2> QED
    BY <2>1, WholePrefix, BaseFacts, SMT DEF Word
<1>3. out % W[i] = out /\ a % W[i] = a /\ b % W[i] = b /\ W[i] = R /\ i # 0
  BY WholePrefix
<1>4. op \in AddOps => out + carry * R = LeftLow(i) + RightLow(i) + cin
  BY <1>1, <1>3 DEF PrefixExact
<1>5. op \in SubOps =>
          /\ out - BorrowBit(carry) * R = LeftLow(i) - RightLow(i) - BorrowBit(cin)
          /\ carry \in {0, WordMAX}
  BY <1>1, <1>3, WholePrefix DEF PrefixExact, AddOps, SubOps, CarryShape
<1>6. LeftLow(i) = IF op = "carrying_neg" THEN R - 1 - a ELSE a
  BY <1>3 DEF LeftLow
<1>7. ASSUME op \in SubOps, NEW r \in Int, RightLow(i) = r,
             NEW d, d = a - r - BorrowBit(cin)
      PROVE  /\ <<out, carry>> = <<d % R, Mask(d < 0)>>
             /\ <<out, lsb_to_choice(carry)>> = <<d % R, d < 0>>
  <2>1. d = out - BorrowBit(carry) * R
    BY <1>2, <1>5, <1>6, <1>7 DEF SubOps
  <2>2. d % R = out /\ (d < 0 <=> carry = WordMAX)
        /\ (lsb_to_choice(carry) <=> carry = WordMAX)
    BY <1>5, <1>7, <2>1, DifferenceSplits
  <2>3. lsb_to_choice(carry) = (d < 0)
    BY <2>2 DEF lsb_to_choice
  <2>4. Mask(d < 0) = carry
    BY <1>5, <1>7, <2>2, BorrowBits DEF Mask
  <2> QED
    BY <2>2, <2>3, <2>4
<1>8. CASE op = "carrying_add"
  <2>1. RightLow(i) = b /\ choice
    BY <1>1, <1>3, <1>8 DEF RightLow, Masked, LegalCall
  <2>2. a + b + cin = out + carry * R
    BY <1>4, <1>6, <1>8, <2>1 DEF AddOps
  <2> QED
    BY <1>8, <2>2, ChainSum DEF Result, Promise, UintCarryingAdd
<1>9. CASE op = "conditional_add"
  <2>1. RightLow(i) = Masked(b, choice)
    BY <1>3, <1>9 DEF RightLow
  <2>2. a + Masked(b, choice) + cin = out + carry * R
    BY <1>4, <1>6, <1>9, <2>1 DEF AddOps
  <2> QED
    BY <1>9, <2>2, ChainSum DEF Result, Promise, UintConditionalAdd, UintCarryingAdd
<1>10. CASE op = "overflowing_add_limb"
  <2>1. RightLow(i) = 0
    BY <1>1, <1>3, <1>10 DEF RightLow, Masked, LegalCall
  <2>2. a + cin = out + carry * R
    BY <1>2, <1>4, <1>6, <1>10, <2>1, SMT DEF AddOps
  <2> QED
    BY <1>10, <2>2, ChainSum DEF Result, Promise, UintOverflowingAddLimb
<1>11. CASE op = "mac_by_limb"
  <2>1. RightLow(i) = b * mul
    BY <1>3, <1>11 DEF RightLow
  <2>2. a + b * mul + cin = out + carry * R
    BY <1>4, <1>6, <1>11, <2>1 DEF AddOps
  <2> QED
    BY <1>11, <2>2, ChainSum DEF Result, Promise, UintMacByLimb
<1>12. CASE op = "carrying_neg"
  <2>1. RightLow(i) = 0 /\ cin = 1
    BY <1>1, <1>3, <1>12 DEF RightLow, Masked, LegalCall
  <2>2. R - a = out + carry * R
    BY <1>2, <1>4, <1>6, <1>12, <2>1, SMT DEF AddOps
  <2>3. carry \in {0, 1}
    BY <1>2, <1>12, WholePrefix, SMT DEF CarryShape
  <2>4. <<(R - a) % R, (R - a) \div R>> = <<out, carry>>
    BY <2>2, ChainSum
  <2>5. carry = 1 <=> a = 0
    BY <1>2, <2>2, <2>3, SMT
  <2>6. lsb_to_choice(carry) = (a = 0)
    BY <2>3, <2>5, SMT DEF lsb_to_choice
  <2> QED
    BY <1>12, <2>4, <2>6 DEF Result, Promise, UintCarryingNeg
<1>13. CASE op = "borrowing_sub"
  <2>1. RightLow(i) = b
    BY <1>1, <1>3, <1>13 DEF RightLow, Masked, LegalCall
  <2> QED
    BY <1>2, <1>7, <1>13, <2>1 DEF Result, Promise, UintBorrowingSub, SubOps
<1>14. CASE op = "borrowing_sub_limb"
  <2>1. RightLow(i) = b
    BY <1>3, <1>14 DEF RightLow
  <2> QED
    BY <1>2, <1>7, <1>14, <2>1
    DEF Result, Promise, UintBorrowingSubLimb, UintBorrowingSub, SubOps
<1>15. CASE op = "conditional_borrowing_sub"
  <2> DEFINE r == Masked(b, choice)
  <2>1. RightLow(i) = r /\ cin = 0 /\ r \in Int
    BY <1>1, <1>2, <1>3, <1>15 DEF RightLow, LegalCall, Masked
  <2>2. a - r = a - r - BorrowBit(cin)
    BY <1>2, <2>1, BorrowBits, SMT
  <2> HIDE DEF r
  <2>3. <<out, lsb_to_choice(carry)>> = <<(a - r) % R, a - r < 0>>
    BY <1>7, <1>15, <2>1, <2>2 DEF SubOps
  <2> QED
    BY <1>15, <2>3 DEF Result, Promise, UintConditionalBorrowingSub, r
<1> QED
  BY <1>1, <1>8, <1>9, <1>10, <1>11, <1>12, <1>13, <1>14, <1>15 DEF AddOps, SubOps

----------------------------------------------------------------------------
(* The theorems.                                                           *)

\* The inductive invariant holds in every state of every carry chain.
THEOREM Invariance == Spec => []Inv
<1> QED
  BY InitInv, NextInv, PTL DEF Spec

\* Carries and borrows fit in a limb and keep the range that primitives.rs
\* documents, through every loop.
THEOREM TypeCorrect == Spec => []TypeOK
<1>1. Inv => TypeOK
  BY DEF Inv
<1> QED
  BY <1>1, Invariance, PTL

\* After each iteration the limbs written and the running carry are the exact
\* sum or difference of the limbs read.
THEOREM PrefixesAreExact == Spec => []PrefixExact
<1>1. Inv => PrefixExact
  BY DEF Inv
<1> QED
  BY <1>1, Invariance, PTL

\* An in-place loop never reads a limb that it has already overwritten.
THEOREM ReadsAreFresh == Spec => []UnreadIntact
<1>1. Inv => UnreadIntact
  BY DEF Inv
<1> QED
  BY <1>1, Invariance, PTL

\* Every routine returns what Limbs says of it: the modules on whole integers
\* may use those operators in place of the loops.
THEOREM ResultsAreCorrect == Spec => []ResultCorrect
<1> QED
  BY ResultOf, Invariance, PTL
=============================================================================
