\* 2^n is scaled to the eighth part of the bits.
CONSTANTS
    BYTE = 2
    HALF = 16
    Xor <- MCXor
    Bitflip = 178
    XXH_PRIME64_1 = 135
    PRIME_MX1 = 249
    PRIME_MX2 = 37
    SHIFT_3 = 2
    SHIFT_28 = 8
    SHIFT_32 = 16
    SHIFT_35 = 16
    SHIFT_37 = 32
SPECIFICATION Spec
INVARIANTS
    NeverMeet
    ProductExact
CHECK_DEADLOCK FALSE
