CONSTANTS
    HalfB = 2
    N = 3
    W <- Weights
SPECIFICATION Spec
INVARIANTS
    TypeOK
    PrefixExact
    ResultCorrect
