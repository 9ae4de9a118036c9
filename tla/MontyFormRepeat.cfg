CONSTANTS
    HalfB = 4
    N = 3
    W <- Weights
    Regs = {1}
    Moduli = {213}
    MaxRepeat = 7
SPECIFICATION Spec
INVARIANTS
    SquareRepeatReduced
