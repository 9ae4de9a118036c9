CONSTANTS
    HalfB = 8
    WordBits = 4
    N = 2
    W <- Weights
    BitWeight <- BitWeights
    Odds = {}
    Others = {}
    XgcdLefts <- BezoutLefts
    XgcdRights <- BezoutRights
    SignedCalls = {FALSE}
    SafeSizes = {}
    SafeLefts <- None
    SafeRights <- None
    Primes = {}
    Generators <- None
    Squares <- None
    Assigned <- None
    ByteBits = 2
    RADIX_ENCODING_LIMBS_LARGE = 2
    RADIX_ENCODING_THRESHOLD_LARGE = 3
    Radices = {}
    Texts <- None
    TextLimbs = {}
    Encoded <- None
    EncodedLimbs = {}
    ByteStrings = {}
    ByteLimbs = {}
    Precisions = {}
    HexStrings = {}
    HexFirst = {}
    HexSecond = {}
    Moduli = {}
    RandLimbs = {}
    BitLengths = {}
    RandPrecisions = {}
SPECIFICATION Spec
INVARIANTS
    BezoutIdentity
