----------------------------- MODULE XxhProduct -----------------------------
(***************************************************************************)
(* xxhash.h: the arithmetic by which XXH3_128bits makes a serial number    *)
(* of the six bytes of a device id, XXH3_len_4to8_128b, at the width of    *)
(* the machine.  A step is a group of its statements.  Two devices         *)
(* compute it side by side, to see whether they can meet.                  *)
(***************************************************************************)
EXTENDS Integers

CONSTANTS
    BYTE,           \* 2^8
    HALF,           \* 2^32
    Xor(_, _),      \* ^ of two words
    Bitflip,        \* the word of the secret, with the seed
    XXH_PRIME64_1,
    PRIME_MX1,
    PRIME_MX2,
    SHIFT_3, SHIFT_28, SHIFT_32, SHIFT_35, SHIFT_37     \* 2^n, for >> n

WIDTH == HALF * HALF
Word == 0 .. WIDTH - 1
Half == 0 .. HALF - 1
Byte == 0 .. BYTE - 1
Shifts == {SHIFT_28, SHIFT_32, SHIFT_35, SHIFT_37}

\* What ^ and >> are to each other, bit by bit, and what the primes of the
\* library are: odd.  Three shifts by 28 or more leave nothing of a word.
ASSUME WidthAssumption ==
    /\ BYTE \in Nat \ {0, 1}
    /\ HALF = BYTE * BYTE * BYTE * BYTE
    /\ Bitflip \in Word
    /\ XXH_PRIME64_1 \in Nat \ {0}
    /\ XXH_PRIME64_1 + 24 < WIDTH
    /\ SHIFT_3 \in Nat \ {0}
    /\ \A s \in Shifts : s \in Nat \ {0} /\ WIDTH <= s * s * s
ASSUME OddAssumption ==
    /\ PRIME_MX1 \in Word /\ \E inv \in Word : (PRIME_MX1 * inv) % WIDTH = 1
    /\ PRIME_MX2 \in Word /\ \E inv \in Word : (PRIME_MX2 * inv) % WIDTH = 1
ASSUME XorAssumption ==
    /\ \A v, w \in Word : /\ Xor(v, w) \in Word
                          /\ Xor(v, w) = Xor(w, v)
                          /\ Xor(v, Xor(v, w)) = w
    /\ \A v \in Word : Xor(v, 0) = v
    /\ \A s \in Shifts : \A v, w \in Word : Xor(v, w) \div s = Xor(v \div s, w \div s)
-----------------------------------------------------------------------------
XXH_mult32to64(x, y) == (x % HALF) * (y % HALF)

\* Mutated form: the carry of the lowest product is not taken along.
MultWithoutCarry(lhs, rhs) ==
    LET lo_lo == XXH_mult32to64(lhs, rhs)
        hi_lo == XXH_mult32to64(lhs \div HALF, rhs)
        lo_hi == XXH_mult32to64(lhs, rhs \div HALF)
        hi_hi == XXH_mult32to64(lhs \div HALF, rhs \div HALF)
        cross == ((hi_lo % HALF) + lo_hi) % WIDTH
    IN [low64 |-> ((cross * HALF) % WIDTH) + (lo_lo % HALF),
        high64 |-> ((hi_lo \div HALF) + (cross \div HALF) + hi_hi) % WIDTH]

\* The sums are those of 64-bit words.
XXH_mult64to128(lhs, rhs) ==
    LET lo_lo == XXH_mult32to64(lhs, rhs)
        hi_lo == XXH_mult32to64(lhs \div HALF, rhs)
        lo_hi == XXH_mult32to64(lhs, rhs \div HALF)
        hi_hi == XXH_mult32to64(lhs \div HALF, rhs \div HALF)
        cross == ((lo_lo \div HALF) + (hi_lo % HALF) + lo_hi) % WIDTH
    IN [low64 |-> ((cross * HALF) % WIDTH) + (lo_lo % HALF),
        high64 |-> ((hi_lo \div HALF) + (cross \div HALF) + hi_hi) % WIDTH]

XXH_xorshift64(v64, shift) == Xor(v64, v64 \div shift)

XXH3_avalanche(h64) ==
    XXH_xorshift64((XXH_xorshift64(h64, SHIFT_37) * PRIME_MX1) % WIDTH, SHIFT_32)

XXH_readLE32(in, at) ==
    in[at] + BYTE * (in[at + 1] + BYTE * (in[at + 2] + BYTE * in[at + 3]))
-----------------------------------------------------------------------------
(***************************************************************************)
(* XXH3_len_4to8_128b of six bytes, in four steps.                         *)
(***************************************************************************)
\* Mutated form: the high half takes the bytes behind the low one, of which
\* there are two only, and zeros.
KeyedShort(id) == Xor(XXH_readLE32(id, 0) + HALF * id[4], Bitflip)

\* The halves overlap by two bytes.
Keyed(id) == Xor(XXH_readLE32(id, 0) + HALF * XXH_readLE32(id, 2), Bitflip)

Product(keyed) == XXH_mult64to128(keyed, XXH_PRIME64_1 + 24)

Crossed(m128) ==
    LET high == (m128.high64 + ((m128.low64 * 2) % WIDTH)) % WIDTH
    IN [high64 |-> high, low64 |-> Xor(m128.low64, high \div SHIFT_3)]

Finished(m128) ==
    [low64 |-> XXH_xorshift64((XXH_xorshift64(m128.low64, SHIFT_35) * PRIME_MX2) % WIDTH,
                              SHIFT_28),
     high64 |-> XXH3_avalanche(m128.high64)]

XXH3_len_4to8_128b(id) == Finished(Crossed(Product(Keyed(id))))
-----------------------------------------------------------------------------
VARIABLES
    pc,         \* the step that both devices have done last
    id,         \* the ids of the two devices
    at          \* what each has in its registers: a word, later two

vars == <<pc, id, at>>

DeviceId == [0 .. 5 -> Byte]

Init ==
    /\ pc = "input"
    /\ id \in [1 .. 2 -> DeviceId]
    /\ at = id

Step(from, to, words) ==
    /\ pc = from
    /\ pc' = to
    /\ at' = words
    /\ UNCHANGED id

Key      == Step("input", "keyed", [d \in 1 .. 2 |-> Keyed(at[d])])
Multiply == Step("keyed", "product", [d \in 1 .. 2 |-> Product(at[d])])
Cross    == Step("product", "crossed", [d \in 1 .. 2 |-> Crossed(at[d])])
Finish   == Step("crossed", "hash", [d \in 1 .. 2 |-> Finished(at[d])])

Next == Key \/ Multiply \/ Cross \/ Finish

Spec == Init /\ [][Next]_vars
-----------------------------------------------------------------------------
(***************************************************************************)
(* Two devices with different ids never meet: not in any step of the hash, *)
(* and so not in their serials.  128 bits alone do not say so, a hash      *)
(* function loses information in general.                                  *)
(***************************************************************************)
NeverMeet == id[1] # id[2] => at[1] # at[2]

(***************************************************************************)
(* The product of two words is exact, as the comment on the portable       *)
(* multiplication promises: "These will never overflow."                   *)
(***************************************************************************)
ProductExact ==
    pc = "product" => \A d \in 1 .. 2 :
        /\ at[d] \in [{"low64", "high64"} -> Word]
        /\ at[d].high64 * WIDTH + at[d].low64 = Keyed(id[d]) * (XXH_PRIME64_1 + 24)
=============================================================================
