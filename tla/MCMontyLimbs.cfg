CONSTANTS
    HalfB = 2
    N = 3
    W <- Weights
    BITS = 2
    Moduli = {1, 3, 5, 11, 15, 17, 21, 31, 35, 43, 47, 49, 61, 63}
    Products <- MCProducts
SPECIFICATION Spec
INVARIANTS
    WideSumsFit
    RowPrefixExact
    ResultReduced
PROPERTIES
    ImplementsRows
