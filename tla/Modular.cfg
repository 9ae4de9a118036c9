CONSTANTS
    HalfB = 2
    N = 2
    W <- Weights
    Regs = {1, 2}
    Cs = {1, 2, 3}
SPECIFICATION ModularSpec
INVARIANTS
    TypeOK
    AddModAssumption
    SubModAssumption
    SpecialAssumptions
PROPERTIES
    ImplementsRing
