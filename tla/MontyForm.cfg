CONSTANTS
    HalfB = 2
    N = 2
    W <- Weights
    Regs = {1, 2}
    Moduli = {1, 3, 9, 11, 13, 15}
    MaxRepeat = 4
SPECIFICATION Spec
INVARIANTS
    TypeOK
    RetrieveExact
PROPERTIES
    ImplementsRing
