CONSTANTS
    HalfB = 8
    WordBits = 4
    N = 3
    W <- Weights
    BitWeight <- BitWeights
    Odds <- MCOdds
    Others <- MCOthers
    XgcdLefts <- MCXgcdLefts
    XgcdRights <- MCXgcdRights
    SignedCalls = {TRUE, FALSE}
    SafeSizes <- MCSafeSizes
    SafeLefts <- MCSafeLefts
    SafeRights <- MCSafeRights
    Primes <- MCPrimes
    Generators <- MCGenerators
    Squares <- MCSquares
    Assigned <- MCAssigned
    ByteBits = 2
    RADIX_ENCODING_LIMBS_LARGE = 2
    RADIX_ENCODING_THRESHOLD_LARGE = 3
    Radices = {2, 3, 4, 5, 8, 10}
    Texts <- MCTexts
    TextLimbs = {1, 2, 3}
    Encoded <- MCEncoded
    EncodedLimbs = {1, 2, 3, 4, 5}
    ByteStrings <- MCByteStrings
    ByteLimbs = {1, 2}
    Precisions = {0, 1, 3, 4, 5, 8}
    HexStrings <- MCHexStrings
    HexFirst <- MCHexFirst
    HexSecond <- MCHexSecond
    Moduli <- MCModuli
    RandLimbs = {1, 2}
    BitLengths = {0, 1, 3, 4, 5, 8, 9}
    RandPrecisions = {0, 1, 4, 5, 8}
SPECIFICATION Spec
INVARIANTS
    AssertionsHold
    CoefficientsTrack
    JacobiExact
    TextTracks
    RootTracks
    DrawsUniform
    ResultCorrect
PROPERTIES
    Termination
