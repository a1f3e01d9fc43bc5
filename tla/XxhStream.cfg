SPECIFICATION Spec
CONSTANTS
    TotalLenMod = 64
    UserSecretSize = 141
    SmallSizes = {0, 1, 3, 15, 16, 33}
    SmallTotal = 100
    Sizes = {1, 64, 191, 255, 1200}
    MaxTotal = 2500
    MaxWhole = 300
    MaxUpdates = 4
    Seeds = {0, 1}
INVARIANTS
    StreamEqualsOneShot
    EveryByteCounts
    StaysInBounds
    VariantsAgree
    GeneratedSecretWhole
CHECK_DEADLOCK FALSE
