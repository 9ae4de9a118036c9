CONSTANTS
    HalfB = 2
    N = 3
    W <- Weights
    Regs = {1, 2}
    Cs = {3}
SPECIFICATION Spec
INVARIANTS
    MulSpecialCorrect
