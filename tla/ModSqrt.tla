------------------------------ MODULE ModSqrt ------------------------------
(***************************************************************************)
(* Square roots modulo a prime (src/src/modular/sqrt.rs) with the          *)
(* parameters of the prime (src/src/modular/prime_params.rs), new or       *)
(* assigned conditionally over those of another prime.  Values in          *)
(* Montgomery form are residues here.                                      *)
(*                                                                         *)
(* For s < 5, where 2^s is the power of two that divides p - 1, the root   *)
(* is selected among few; otherwise one iteration of the constant-time     *)
(* Tonelli-Shanks algorithm is one step.                                   *)
(***************************************************************************)
EXTENDS Bits

CONSTANTS
    Primes,          \* odd primes
    Generators(_),   \* generators given for a prime, right ones and wrong ones
    Squares(_),      \* the values below a prime whose root is taken
    Assigned(_)      \* the primes whose parameters those of a prime replace

VARIABLES
    lhs, rhs,        \* the value, and [p, g, old]: the prime, its generator and the
                     \* prime whose parameters were assigned over, 0 if none
    params,          \* PrimeParams: s, t, generator, sqrt_exp, root, root_p2
    x, d, z, v, max_v,   \* of the loop
    pc,              \* "enter", "root", "loop" or "done"
    res              \* <<root, is_some>>, or <<"panic">>

working == <<x, d, z, v, max_v>>
vars == <<lhs, rhs, params, working, pc, res>>
args == <<lhs, rhs>>

No    == <<"none">>
Panic == <<"panic">>
p     == rhs.p

mul(m, k)    == (m * k) % p
square(m)    == mul(m, m)
neg(m)       == (p - m) % p
pow(m, e)    ==
    LET r[k \in 0..e] == IF k = 0 THEN 1 ELSE
                             LET h == square(r[k \div 2]) IN IF k % 2 = 1 THEN mul(h, m) ELSE h
    IN  r[e]

\* monty_select: the second if the choice is truthy.
monty_select(m, k, c) == IF c THEN k ELSE m
----------------------------------------------------------------------------
NoParams == [s |-> 0, t |-> 0, generator |-> 0, sqrt_exp |-> 0, root |-> 0, root_p2 |-> 0]

\* s and t of a modulus are the bits and the quotient of p - 1, p with bit 0
\* cleared; generator^t is a root of unity if the generator is no square.
new_vartime(q, generator, powq(_, _)) ==
    LET s    == trailing_zeros(q - 1, N)
        t    == shr(q, s)
        root == IF s = 1 THEN q - 1 ELSE powq(generator % q, t)
    IN  [s |-> s, t |-> t, generator |-> generator,
         sqrt_exp |-> IF s = 1 THEN shr(q, 2) + 1 ELSE shr(t, 1),
         root |-> root, root_p2 |-> powq(root, 2)]

\* generator^t has to be a root of -1.
invalid_generator(params_) ==
    params_.s # 1 /\ pow(params_.root, 2 ^ (params_.s - 1)) # p - 1

\* All fields but t are assigned.
ct_assign(self, other) == [other EXCEPT !.t = self.t]

Init ==
    /\ \E q \in Primes : \E g \in Generators(q) : \E old \in {0} \cup Assigned(q) :
           rhs = [p |-> q, g |-> g, old |-> old]
    /\ lhs \in Squares(p)
    /\ params = NoParams /\ x = 0 /\ d = 0 /\ z = 0 /\ v = 0 /\ max_v = 0
    /\ pc = "enter" /\ res = No

Enter ==
    /\ pc = "enter" /\ UNCHANGED <<args, working>>
    /\ LET new == new_vartime(p, rhs.g, pow)
           \* of the parameters replaced, what remains is t
           old == [NoParams EXCEPT !.t = shr(rhs.old, trailing_zeros(rhs.old - 1, N))]
       IN  IF invalid_generator(new)
           THEN res' = Panic /\ pc' = "done" /\ UNCHANGED params
           ELSE /\ params' = IF rhs.old = 0 THEN new ELSE ct_assign(old, new)
                /\ pc' = "root" /\ UNCHANGED res

ru  == params.root
ru2 == params.root_p2
b   == pow(lhs, params.sqrt_exp)
cb  == mul(lhs, b)
zeta == mul(cb, b)

\* The root for s < 5: value^(sqrt_exp + 1) times a root of unity, which one
\* depends on which root of unity value^t is.
root_s2 == monty_select(mul(cb, ru), cb, zeta = 1)

root_s3 ==
    LET ru3 == mul(ru, ru2)
        m1 == monty_select(ru, 1, zeta = 1)
        m2 == monty_select(m1, ru2, neg(zeta) = 1)
        m3 == monty_select(m2, ru3, zeta = ru2)
    IN  mul(cb, m3)

\* Slip: the odd root of unity is left out for the last of the four cases.
root_s4_three_odd ==
    LET ru4 == square(ru2)
        ru6 == mul(ru2, ru4)
        zeta_b == zeta = ru2  neg_zeta_b == neg(zeta) = ru2  zeta_d == zeta = ru6
        m1 == monty_select(1, ru2, neg_zeta_b \/ neg(zeta) = ru4)
        m2 == monty_select(m1, ru4, neg(zeta) = 1 \/ zeta_d)
        m3 == monty_select(m2, ru6, zeta_b \/ zeta = ru4)
    IN  mul(cb, monty_select(m3, mul(m3, ru), zeta_b \/ zeta_d \/ neg_zeta_b))

root_s4 ==
    LET ru4 == square(ru2)
        ru6 == mul(ru2, ru4)
        zeta_b == zeta = ru2  neg_zeta_b == neg(zeta) = ru2  zeta_d == zeta = ru6
        m1 == monty_select(1, ru2, neg_zeta_b \/ neg(zeta) = ru4)
        m2 == monty_select(m1, ru4, neg(zeta) = 1 \/ zeta_d)
        m3 == monty_select(m2, ru6, zeta_b \/ zeta = ru4)
    IN  mul(cb, monty_select(m3, mul(m3, ru),
                             zeta_b \/ zeta_d \/ neg_zeta_b \/ neg(zeta) = ru6))

\* Any x is returned along with whether it is a root.
Root(y) == res' = <<y, square(y) = lhs>> /\ pc' = "done"

SmallRoot ==
    /\ pc = "root" /\ params.s < 5
    /\ Root(CASE params.s = 1 -> b [] params.s = 2 -> root_s2
              [] params.s = 3 -> root_s3 [] params.s = 4 -> root_s4)
    /\ UNCHANGED <<args, params, working>>

EnterLoop ==
    /\ pc = "root" /\ params.s >= 5
    /\ x' = cb /\ d' = zeta /\ z' = ru /\ v' = params.s /\ max_v' = params.s
    /\ pc' = "loop" /\ UNCHANGED <<args, params, res>>

\* Slip: z is squared on past v.
scanned_past_v ==
    LET scan[j \in 1..max_v] ==
            IF j < 2 THEN [tmp |-> square(d), z |-> z, less |-> TRUE, k |-> 1]
            ELSE LET r       == scan[j - 1]
                     is_one  == r.tmp = 1
                     squared == square(monty_select(r.tmp, r.z, is_one))
                 IN  [tmp |-> monty_select(squared, r.tmp, is_one), less |-> TRUE,
                      z |-> monty_select(r.z, squared, is_one),
                      k |-> IF is_one THEN r.k ELSE j]
    IN  scan[IF max_v > 1 THEN max_v - 1 ELSE 1]

\* What the scan over 2 <= j < max_v leaves: k, the number of squarings that
\* make d one, and z squared as often as is needed for an order of 2^k.
scanned ==
    LET scan[j \in 1..max_v] ==
            IF j < 2 THEN [tmp |-> square(d), z |-> z, less |-> TRUE, k |-> 1]
            ELSE LET r       == scan[j - 1]
                     is_one  == r.tmp = 1
                     squared == square(monty_select(r.tmp, r.z, is_one))
                     less    == r.less /\ j # v
                 IN  [tmp |-> monty_select(squared, r.tmp, is_one), less |-> less,
                      z |-> monty_select(r.z, squared, is_one /\ less),
                      k |-> IF is_one THEN r.k ELSE j]
    IN  scan[IF max_v > 1 THEN max_v - 1 ELSE 1]

Iterate ==
    /\ pc = "loop" /\ max_v >= 1
    /\ LET r == scanned
       IN  /\ x' = monty_select(mul(x, r.z), x, d = 1)
           /\ z' = square(r.z)
           /\ d' = mul(d, square(r.z))
           /\ v' = r.k
    /\ max_v' = max_v - 1
    /\ UNCHANGED <<args, params, pc, res>>

EndLoop ==
    /\ pc = "loop" /\ max_v = 0
    /\ Root(x) /\ UNCHANGED <<args, params, working>>

Next == Enter \/ SmallRoot \/ EnterLoop \/ Iterate \/ EndLoop
----------------------------------------------------------------------------
IsSquare == \E y \in 0..(p - 1) : square(y) = lhs

\* Until x is a root its square is d times the value, and then it stays one;
\* for a square, d is a root of unity whose order is less than 2^max_v.
RootTracks ==
    pc = "loop" =>
        /\ square(x) = lhs \/ square(x) = mul(d, lhs)
        /\ IsSquare /\ square(x) # lhs => max_v >= 1 /\ pow(d, 2 ^ (max_v - 1)) = 1

\* A root is returned exactly for squares, zero among them, from the parameters
\* of a generator that is no square; also where they were assigned over others.
ResultCorrect ==
    pc = "done" =>
      IF res = Panic THEN \E y \in 1..(p - 1) : square(y) = rhs.g % p
      ELSE /\ res[2] = IsSquare
           /\ res[2] => square(res[1]) = lhs

\* prime_params.rs:19 "The result of dividing `modulus - 1` by `2^s`", of the field t.
ParametersExact ==
    pc = "done" /\ params # NoParams => params.t * 2 ^ params.s = p - 1

\* (p - 1) = t * 2^s for parameters that are new; those assigned over others
\* keep the t of the prime before, against ParametersExact, but no root depends on it.
AssertionsHold ==
    pc \in {"root", "loop"} =>
        LET q == IF rhs.old = 0 THEN p ELSE rhs.old
        IN  params.t * 2 ^ trailing_zeros(q - 1, N) = q - 1
============================================================================
