CONSTANTS
    HalfB = 2
    WordBits = 2
    N = 6
    W <- Weights
    BitWeight <- BitWeights
    SchoolSizes = {1, 2, 3}
    SchoolValues <- MCSchoolValues
    KaratsubaSizes = {1, 2, 3, 4, 5, 6}
    KaratsubaValues <- MCKaratsubaValues
    DivisionShapes <- MCShapes
    ShiftSizes = {1, 2, 3, 4}
    ShiftValues <- MCFewValues
    SignedSizes = {1, 2, 3}
    SignedValues <- MCFewValues
    RootSizes = {2, 3, 4, 5}
    RootValues <- MCAllValues
    RootExps = {1, 2, 3, 4}
    InvertSizes = {1, 2, 3, 4, 5, 6}
    InvertValues <- MCInvertValues
    InvertWidths <- MCInvertWidths
    PowSizes = {1, 2, 3}
    PowValues <- MCFewValues
    PowExpSizes = {1, 2}
    ValueLimbs = 3
    ValueOperands <- MCFewValues
SPECIFICATION Spec
INVARIANTS
    AssertionsHold
    DigitsExact
    LoopsExact
    WrappersHold
    QueriesAgree
    ResultCorrect
PROPERTIES
    NewtonDescends
