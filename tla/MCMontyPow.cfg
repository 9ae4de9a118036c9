CONSTANTS
    HalfB = 8
    N = 2
    W <- Weights
    BITS = 4
    WINDOW = 2
    RHS_LIMBS = 2
    Moduli <- SomeModuli
    Inputs <- SomeInputs
SPECIFICATION Spec
INVARIANTS
    PrefixPower
    ResultIsPower
    AmmErrorsBounded
    ResultReduced
