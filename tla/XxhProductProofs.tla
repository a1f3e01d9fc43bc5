-------------------------- MODULE XxhProductProofs --------------------------
(***************************************************************************)
(* The arithmetic of XXH3_128bits on a device id loses nothing, for any    *)
(* width of the machine that satisfies the assumptions of XxhProduct.      *)
(***************************************************************************)
EXTENDS XxhProduct, TLAPS

\* Quotient and remainder.
LEMMA DivMod ==
    ASSUME NEW n \in Nat, NEW d \in Nat \ {0}
    PROVE  /\ n \div d \in Nat
           /\ n % d \in Nat
           /\ n % d < d
           /\ n = (d * (n \div d)) + (n % d)
  BY SMTT(20)

LEMMA ProductsOfNaturals ==
    ASSUME NEW m \in Nat, NEW n \in Nat
    PROVE  m * n \in Nat
  BY SMTT(20)

LEMMA ProductsGrow ==
    ASSUME NEW b \in Nat, NEW m \in Nat, NEW n \in Nat, m <= n
    PROVE  b * m <= b * n
  BY SMTT(20)

\* A digit in front of a number keeps it below the next power.
LEMMA DigitInFront ==
    ASSUME NEW b \in Nat \ {0}, NEW p \in Nat, NEW x \in Nat, NEW m \in Nat,
           p < b, x < m
    PROVE  p + b * x \in Nat /\ p + b * x < b * m
  <1>1. b * (x + 1) <= b * m
    BY ProductsGrow
  <1>2. b * (x + 1) = b * x + b
    BY SMTT(20)
  <1> QED
    BY <1>1, <1>2, ProductsOfNaturals

\* A number has one representation in a base.
LEMMA OneRepresentation ==
    ASSUME NEW b \in Nat \ {0},
           NEW x \in Nat, NEW y \in Nat, NEW p \in Nat, NEW q \in Nat,
           p < b, q < b, p + b * x = q + b * y
    PROVE  p = q /\ x = y
  <1>1. ASSUME NEW u \in Nat, NEW v \in Nat, NEW r \in Nat, NEW s \in Nat,
               r < b, s < b, r + b * u = s + b * v, u < v
        PROVE  FALSE
    <2>1. b * (u + 1) <= b * v
      BY <1>1, ProductsGrow
    <2>2. b * (u + 1) = b * u + b
      BY SMTT(20)
    <2> QED
      BY <1>1, <2>1, <2>2, ProductsOfNaturals
  <1>2. ~(x < y)
    BY <1>1
  <1>3. ~(y < x)
    BY <1>1
  <1>4. x = y
    BY <1>2, <1>3
  <1> QED
    BY <1>4, ProductsOfNaturals

LEMMA QuotientBelow ==
    ASSUME NEW n \in Nat, NEW d \in Nat \ {0}, NEW m \in Nat, n < d * m
    PROVE  n \div d < m
  <1>1. ASSUME m <= n \div d
        PROVE  FALSE
    <2>1. d * m <= d * (n \div d)
      BY <1>1, ProductsGrow, DivMod
    <2> QED
      BY <2>1, DivMod, ProductsOfNaturals
  <1> QED
    BY <1>1, DivMod

\* A word times an odd one, and a word plus another, determine the word.
LEMMA ModMulInjective ==
    ASSUME NEW b \in Nat \ {0}, NEW x \in Nat, NEW y \in Nat, NEW p \in Nat, NEW inv \in Nat,
           x < b, y < b, (p * inv) % b = 1, (x * p) % b = (y * p) % b
    PROVE  x = y
  <1> DEFINE k == (p * inv) \div b
             q == (x * p) \div b
             r == (y * p) \div b
  <1>1. /\ p * inv \in Nat /\ x * p \in Nat /\ y * p \in Nat
        /\ k \in Nat /\ q \in Nat /\ r \in Nat
        /\ k * x \in Nat /\ k * y \in Nat /\ q * inv \in Nat /\ r * inv \in Nat
    BY ProductsOfNaturals, DivMod
  <1>2. p * inv = b * k + 1
    BY <1>1, DivMod
  <1>3. \E e \in Nat : x * p = b * q + e /\ y * p = b * r + e
    <2>1. x * p = b * q + ((x * p) % b)
      BY <1>1, DivMod
    <2>2. y * p = b * r + ((x * p) % b)
      BY <1>1, DivMod
    <2>3. (x * p) % b \in Nat
      BY <1>1, DivMod
    <2> QED
      BY <2>1, <2>2, <2>3
  <1> HIDE DEF k, q, r
  <1>4. x * (p * inv) - b * (q * inv) = y * (p * inv) - b * (r * inv)
    <2>1. PICK e \in Nat : x * p = b * q + e /\ y * p = b * r + e
      BY <1>3
    <2>2. (x * p) * inv = (b * q + e) * inv /\ (y * p) * inv = (b * r + e) * inv
      BY <2>1
    <2> QED
      BY <1>1, <2>2, SMTT(20)
  <1>5. x + b * (k * x + r * inv) = y + b * (k * y + q * inv)
    BY <1>1, <1>2, <1>4, SMTT(20)
  <1> QED
    BY <1>1, <1>5, OneRepresentation

LEMMA ModAddInjective ==
    ASSUME NEW b \in Nat \ {0}, NEW x \in Nat, NEW y \in Nat, NEW c \in Nat,
           x < b, y < b, (x + c) % b = (y + c) % b
    PROVE  x = y
  <1> DEFINE q == (x + c) \div b
             r == (y + c) \div b
  <1>1. q \in Nat /\ r \in Nat
    BY DivMod
  <1>2. x + c - b * q = y + c - b * r
    <2>1. x + c = b * q + ((x + c) % b)
      BY DivMod
    <2>2. y + c = b * r + ((y + c) % b)
      BY DivMod
    <2> QED
      BY <1>1, <2>1, <2>2, ProductsOfNaturals, DivMod
  <1>3. x + b * r = y + b * q
    BY <1>1, <1>2, ProductsOfNaturals
  <1> QED
    BY <1>1, <1>3, OneRepresentation
-----------------------------------------------------------------------------
(***************************************************************************)
(* The words of the machine.                                               *)
(***************************************************************************)
LEMMA WordFacts ==
    /\ HALF \in Nat \ {0}
    /\ HALF >= 2
    /\ HALF = BYTE * (BYTE * (BYTE * BYTE))
    /\ WIDTH \in Nat \ {0}
    /\ 0 \in Word
  <1>1. BYTE \in Nat /\ BYTE >= 2 /\ HALF = BYTE * BYTE * BYTE * BYTE
    BY WidthAssumption
  <1>2. BYTE * BYTE \in Nat /\ BYTE * BYTE >= 2
    BY <1>1, SMTT(20)
  <1>3. BYTE * (BYTE * BYTE) \in Nat /\ BYTE * (BYTE * BYTE) >= 2
    BY <1>1, <1>2, SMTT(20)
  <1>4. BYTE * (BYTE * (BYTE * BYTE)) \in Nat /\ BYTE * (BYTE * (BYTE * BYTE)) >= 2
    BY <1>1, <1>3, SMTT(20)
  <1>5. HALF = BYTE * (BYTE * (BYTE * BYTE))
    BY <1>1, SMTT(20)
  <1>6. WIDTH \in Nat /\ WIDTH >= 2
    BY <1>4, <1>5, SMTT(20) DEF WIDTH
  <1> QED
    BY <1>4, <1>5, <1>6 DEF Word

\* What ^ takes away a second ^ gives back.
LEMMA XorCancels ==
    ASSUME NEW v \in Word, NEW w \in Word, NEW k \in Word, Xor(v, k) = Xor(w, k)
    PROVE  v = w
  BY XorAssumption

LEMMA ShiftFacts ==
    ASSUME NEW v \in Word, NEW s \in Nat \ {0}
    PROVE  v \div s \in Word
  <1>1. v \in Nat /\ v < WIDTH /\ WIDTH \in Nat
    BY WordFacts DEF Word
  <1>2. v \div s \in Nat /\ s * (v \div s) <= v
    BY <1>1, DivMod, ProductsOfNaturals
  <1>3. v \div s <= s * (v \div s)
    BY <1>2, SMTT(20)
  <1> QED
    BY <1>1, <1>2, <1>3, ProductsOfNaturals DEF Word

LEMMA XorshiftInjective ==
    ASSUME NEW s \in Shifts, NEW v \in Word, NEW w \in Word,
           XXH_xorshift64(v, s) = XXH_xorshift64(w, s)
    PROVE  v = w
  <1>1. s \in Nat \ {0} /\ WIDTH <= s * s * s
    BY WidthAssumption
  <1>2. ASSUME NEW u \in Word
        PROVE  /\ u \div s \in Word
               /\ (u \div s) \div s \in Word
               /\ (XXH_xorshift64(u, s) \div s) \div s = (u \div s) \div s
               /\ XXH_xorshift64(u, s) \div s = Xor(u \div s, (u \div s) \div s)
    <2>1. /\ u \div s \in Word /\ (u \div s) \div s \in Word
          /\ ((u \div s) \div s) \div s \in Word
      BY <1>1, ShiftFacts
    <2>2. ((u \div s) \div s) \div s = 0
      <3>1. u \in Nat /\ u < WIDTH /\ WIDTH \in Nat /\ s * s \in Nat
        BY <1>1, WordFacts, ProductsOfNaturals DEF Word
      <3>2. s * s * s = s * (s * s) /\ s * (s * s) \in Nat
        BY <1>1, <3>1, SMTT(20)
      <3>3. u \div s \in Nat /\ u \div s < s * s
        <4>1. u < s * (s * s)
          BY <1>1, <3>1, <3>2
        <4>2. s \in Nat \ {0} /\ u \in Nat /\ s * s \in Nat
          BY <1>1, <3>1
        <4> QED
          BY <4>1, <4>2, QuotientBelow, DivMod
      <3>4. (u \div s) \div s \in Nat /\ (u \div s) \div s < s * 1
        BY <1>1, <3>3, QuotientBelow, DivMod
      <3>5. ((u \div s) \div s) \div s \in Nat /\ ((u \div s) \div s) \div s < 1
        BY <1>1, <3>4, QuotientBelow, DivMod
      <3> QED
        BY <3>5
    <2>3. XXH_xorshift64(u, s) \div s = Xor(u \div s, (u \div s) \div s)
      BY <2>1, XorAssumption DEF XXH_xorshift64
    <2>4. (XXH_xorshift64(u, s) \div s) \div s = Xor((u \div s) \div s, 0)
      BY <2>1, <2>2, <2>3, XorAssumption
    <2> QED
      BY <2>1, <2>3, <2>4, XorAssumption
  <1>3. (v \div s) \div s = (w \div s) \div s
    BY <1>2
  <1>4. v \div s = w \div s
    <2>1. Xor(v \div s, (v \div s) \div s) = Xor(w \div s, (v \div s) \div s)
      BY <1>2, <1>3
    <2> QED
      BY <1>2, <2>1, XorCancels
  <1> QED
    BY <1>2, <1>4, XorCancels DEF XXH_xorshift64

LEMMA XorshiftWord ==
    ASSUME NEW s \in Shifts, NEW v \in Word
    PROVE  XXH_xorshift64(v, s) \in Word
  <1>1. v \div s \in Word
    BY WidthAssumption, ShiftFacts
  <1> QED
    BY <1>1, XorAssumption DEF XXH_xorshift64
-----------------------------------------------------------------------------
(***************************************************************************)
(* The steps of XXH3_len_4to8_128b, one by one.                            *)
(***************************************************************************)
LEMMA ReadLE32 ==
    ASSUME NEW x \in DeviceId, NEW a \in 0 .. 2
    PROVE  XXH_readLE32(x, a) \in Half
  <1>1. BYTE \in Nat \ {0}
    BY WidthAssumption
  <1>2. \A i \in 0 .. 3 : x[a + i] \in Nat /\ x[a + i] < BYTE
    <2>1. \A i \in 0 .. 3 : a + i \in 0 .. 5
      OBVIOUS
    <2> QED
      BY <1>1, <2>1 DEF DeviceId, Byte
  <1>3. /\ x[a] \in Nat /\ x[a] < BYTE
        /\ x[a + 1] \in Nat /\ x[a + 1] < BYTE
        /\ x[a + 2] \in Nat /\ x[a + 2] < BYTE
        /\ x[a + 3] \in Nat /\ x[a + 3] < BYTE
    BY <1>2
  <1> DEFINE n1 == x[a + 2] + BYTE * x[a + 3]
             n2 == x[a + 1] + BYTE * n1
  <1>4. n1 \in Nat /\ n1 < BYTE * BYTE
    BY <1>1, <1>3, DigitInFront
  <1> HIDE DEF n1
  <1>5. n2 \in Nat /\ n2 < BYTE * (BYTE * BYTE)
    BY <1>1, <1>3, <1>4, DigitInFront, ProductsOfNaturals
  <1> HIDE DEF n2
  <1>6. x[a] + BYTE * n2 \in Nat /\ x[a] + BYTE * n2 < BYTE * (BYTE * (BYTE * BYTE))
    BY <1>1, <1>3, <1>5, DigitInFront, ProductsOfNaturals
  <1> QED
    BY <1>6, WordFacts DEF XXH_readLE32, Half, n1, n2

LEMMA ReadLE32Injective ==
    ASSUME NEW x \in DeviceId, NEW y \in DeviceId, NEW a \in 0 .. 2,
           XXH_readLE32(x, a) = XXH_readLE32(y, a)
    PROVE  /\ x[a] = y[a] /\ x[a + 1] = y[a + 1]
           /\ x[a + 2] = y[a + 2] /\ x[a + 3] = y[a + 3]
  <1>1. BYTE \in Nat \ {0}
    BY WidthAssumption
  <1> DEFINE n1(z) == z[a + 2] + BYTE * z[a + 3]
             n2(z) == z[a + 1] + BYTE * n1(z)
  <1>2. \A i \in 0 .. 3, z \in {x, y} : z[a + i] \in Nat /\ z[a + i] < BYTE
    <2>1. \A i \in 0 .. 3 : a + i \in 0 .. 5
      OBVIOUS
    <2> QED
      BY <1>1, <2>1 DEF DeviceId, Byte
  <1>3. \A z \in {x, y} : /\ z[a] \in Nat /\ z[a] < BYTE
                          /\ z[a + 1] \in Nat /\ z[a + 1] < BYTE
                          /\ z[a + 2] \in Nat /\ z[a + 2] < BYTE
                          /\ z[a + 3] \in Nat /\ z[a + 3] < BYTE
    BY <1>2
  <1>4. \A z \in {x, y} : n1(z) \in Nat /\ n2(z) \in Nat
    BY <1>1, <1>3, ProductsOfNaturals
  <1>5. x[a] + BYTE * n2(x) = y[a] + BYTE * n2(y)
    BY DEF XXH_readLE32
  <1>6. x[a] = y[a] /\ n2(x) = n2(y)
    <2> HIDE DEF n2
    <2> QED
      BY <1>1, <1>3, <1>4, <1>5, OneRepresentation
  <1>7. x[a + 1] = y[a + 1] /\ n1(x) = n1(y)
    <2>1. x[a + 1] + BYTE * n1(x) = y[a + 1] + BYTE * n1(y)
      BY <1>6
    <2> HIDE DEF n1
    <2> QED
      BY <1>1, <1>3, <1>4, <2>1, OneRepresentation
  <1>8. x[a + 2] = y[a + 2] /\ x[a + 3] = y[a + 3]
    <2> DEFINE x2 == x[a + 2]
               x3 == x[a + 3]
               y2 == y[a + 2]
               y3 == y[a + 3]
    <2>1. x2 + BYTE * x3 = y2 + BYTE * y3
      BY <1>7
    <2>2. x2 \in Nat /\ x3 \in Nat /\ y2 \in Nat /\ y3 \in Nat /\ x2 < BYTE /\ y2 < BYTE
      BY <1>3
    <2> HIDE DEF x2, x3, y2, y3
    <2>3. x2 = y2 /\ x3 = y3
      BY <1>1, <2>1, <2>2, OneRepresentation
    <2> QED
      BY <2>3 DEF x2, x3, y2, y3
  <1> QED
    BY <1>6, <1>7, <1>8

LEMMA KeyedFacts ==
    ASSUME NEW x \in DeviceId, NEW y \in DeviceId
    PROVE  /\ Keyed(x) \in Word
           /\ Keyed(x) = Keyed(y) => x = y
  <1> DEFINE word(z) == XXH_readLE32(z, 0) + HALF * XXH_readLE32(z, 2)
  <1>1. \A z \in {x, y} : /\ XXH_readLE32(z, 0) \in Nat /\ XXH_readLE32(z, 0) < HALF
                          /\ XXH_readLE32(z, 2) \in Nat /\ XXH_readLE32(z, 2) < HALF
    BY ReadLE32, WordFacts DEF Half
  <1>2. \A z \in {x, y} : word(z) \in Word
    BY <1>1, DigitInFront, WordFacts DEF Word, WIDTH
  <1>3. Bitflip \in Word
    BY WidthAssumption
  <1>4. Keyed(x) \in Word
    BY <1>2, <1>3, XorAssumption DEF Keyed
  <1>5. ASSUME Keyed(x) = Keyed(y)
        PROVE  x = y
    <2>1. word(x) = word(y)
      BY <1>2, <1>3, <1>5, XorCancels DEF Keyed
    <2>2. XXH_readLE32(x, 0) = XXH_readLE32(y, 0) /\ XXH_readLE32(x, 2) = XXH_readLE32(y, 2)
      BY <1>1, <2>1, OneRepresentation, WordFacts
    <2>3. /\ x[0] = y[0] /\ x[1] = y[1] /\ x[2] = y[2] /\ x[3] = y[3]
          /\ x[4] = y[4] /\ x[5] = y[5]
      <3>1. x[0] = y[0] /\ x[0 + 1] = y[0 + 1] /\ x[0 + 2] = y[0 + 2] /\ x[0 + 3] = y[0 + 3]
        BY <2>2, ReadLE32Injective
      <3>2. x[2 + 2] = y[2 + 2] /\ x[2 + 3] = y[2 + 3]
        BY <2>2, ReadLE32Injective
      <3> QED
        BY <3>1, <3>2
    <2>4. \A i \in 0 .. 5 : x[i] = y[i]
      BY <2>3
    <2> QED
      BY <2>4 DEF DeviceId
  <1> QED
    BY <1>4, <1>5

\* A product of two halves leaves room for two more of them in a word.
LEMMA ProductOfHalves ==
    ASSUME NEW u \in Half, NEW v \in Half
    PROVE  /\ u * v \in Nat
           /\ u * v + 2 * (HALF - 1) < WIDTH
  <1>1. u \in Nat /\ v \in Nat /\ u <= HALF - 1 /\ v <= HALF - 1 /\ HALF \in Nat /\ HALF - 1 \in Nat
    BY WordFacts DEF Half
  <1>2. u * v <= u * (HALF - 1)
    BY <1>1, ProductsGrow
  <1>3. (HALF - 1) * u <= (HALF - 1) * (HALF - 1)
    BY <1>1, ProductsGrow
  <1>4. u * v <= (HALF - 1) * (HALF - 1)
    BY <1>1, <1>2, <1>3, SMTT(20)
  <1>5. (HALF - 1) * (HALF - 1) + 2 * (HALF - 1) = HALF * HALF - 1
    BY <1>1, SMTT(20)
  <1> QED
    BY <1>1, <1>4, <1>5, ProductsOfNaturals DEF WIDTH

\* The sums of the schoolbook multiplication stay in their words.
LEMMA MultExact ==
    ASSUME NEW lhs \in Word, NEW rhs \in Word
    PROVE  /\ XXH_mult64to128(lhs, rhs) \in [{"low64", "high64"} -> Word]
           /\ XXH_mult64to128(lhs, rhs).high64 * WIDTH + XXH_mult64to128(lhs, rhs).low64
                = lhs * rhs
  <1> DEFINE a0 == lhs % HALF
             a1 == lhs \div HALF
             b0 == rhs % HALF
             b1 == rhs \div HALF
             lo_lo == XXH_mult32to64(lhs, rhs)
             hi_lo == XXH_mult32to64(a1, rhs)
             lo_hi == XXH_mult32to64(lhs, b1)
             hi_hi == XXH_mult32to64(a1, b1)
             sum == (lo_lo \div HALF) + (hi_lo % HALF) + lo_hi
             cross == sum % WIDTH
             high == (hi_lo \div HALF) + (cross \div HALF) + hi_hi
             low == ((cross * HALF) % WIDTH) + (lo_lo % HALF)
  <1>1. HALF \in Nat \ {0} /\ HALF >= 2 /\ WIDTH \in Nat \ {0} /\ WIDTH = HALF * HALF
    BY WordFacts DEF WIDTH
  <1>2. ASSUME NEW n \in Word
        PROVE  /\ n % HALF \in Half /\ n \div HALF \in Half
               /\ n = HALF * (n \div HALF) + (n % HALF)
               /\ (n \div HALF) % HALF = n \div HALF
    <2>1. n \in Nat /\ n < HALF * HALF
      BY <1>1 DEF Word
    <2>2. n \div HALF \in Nat /\ n \div HALF < HALF
      BY <1>1, <2>1, QuotientBelow, DivMod
    <2>3. (n \div HALF) % HALF = n \div HALF
      BY <1>1, <2>2
    <2> QED
      BY <1>1, <2>1, <2>2, <2>3, DivMod DEF Half
  <1>3. /\ a0 \in Half /\ a1 \in Half /\ lhs = HALF * a1 + a0
        /\ b0 \in Half /\ b1 \in Half /\ rhs = HALF * b1 + b0
    BY <1>2
  <1>4. /\ lo_lo = a0 * b0 /\ hi_lo = a1 * b0 /\ lo_hi = a0 * b1 /\ hi_hi = a1 * b1
    BY <1>2 DEF XXH_mult32to64
  <1>5. ASSUME NEW p \in {lo_lo, hi_lo, lo_hi, hi_hi}
        PROVE  /\ p \in Nat /\ p \in Word /\ p + 2 * (HALF - 1) < WIDTH
               /\ p \div HALF \in Half /\ p % HALF \in Half
               /\ p = HALF * (p \div HALF) + (p % HALF)
    <2>1. p \in Nat /\ p + 2 * (HALF - 1) < WIDTH
      BY <1>3, <1>4, ProductOfHalves
    <2>2. p \in Word
      BY <1>1, <2>1 DEF Word
    <2> QED
      BY <1>2, <2>1, <2>2
  <1> HIDE DEF a0, a1, b0, b1, lo_lo, hi_lo, lo_hi, hi_hi
  <1>6. sum \in Word /\ cross = sum
    <2>1. /\ lo_lo \div HALF \in 0 .. HALF - 1 /\ hi_lo % HALF \in 0 .. HALF - 1
          /\ lo_hi \in Nat /\ lo_hi + 2 * (HALF - 1) < WIDTH
      BY <1>5 DEF Half
    <2>2. sum \in Nat /\ sum < WIDTH
      BY <1>1, <2>1
    <2> QED
      BY <1>1, <2>2 DEF Word
  <1>7. /\ cross \div HALF \in Half /\ cross % HALF \in Half
        /\ cross = HALF * (cross \div HALF) + (cross % HALF)
    BY <1>2, <1>6
  <1> HIDE DEF cross
  <1>8. high \in Word /\ high % WIDTH = high
    <2>1. /\ hi_lo \div HALF \in 0 .. HALF - 1 /\ cross \div HALF \in 0 .. HALF - 1
          /\ hi_hi \in Nat /\ hi_hi + 2 * (HALF - 1) < WIDTH
      BY <1>5, <1>7 DEF Half
    <2>2. high \in Nat /\ high < WIDTH
      BY <1>1, <2>1
    <2> QED
      BY <1>1, <2>2 DEF Word
  <1>9. /\ low \in Word
        /\ low = HALF * (cross % HALF) + (lo_lo % HALF)
    <2> DEFINE c0 == cross % HALF
               c1 == cross \div HALF
               l0 == lo_lo % HALF
    <2>1. c0 \in 0 .. HALF - 1 /\ l0 \in 0 .. HALF - 1 /\ c1 \in Nat /\ cross = HALF * c1 + c0
      BY <1>1, <1>5, <1>7 DEF Half
    <2>2. l0 + HALF * c0 \in Nat /\ l0 + HALF * c0 < WIDTH
      BY <1>1, <2>1, DigitInFront
    <2>3. HALF * c0 \in Nat /\ HALF * c0 < WIDTH
      BY <1>1, <2>1, <2>2, ProductsOfNaturals
    <2>4. cross * HALF = HALF * c0 + WIDTH * c1
      BY <1>1, <2>1, SMTT(20)
    <2>5. (cross * HALF) % WIDTH = HALF * c0
      <3> DEFINE n == cross * HALF
      <3>1. n \in Nat /\ n = HALF * c0 + WIDTH * c1
        BY <1>1, <2>1, <2>3, <2>4, ProductsOfNaturals
      <3> HIDE DEF n
      <3>2. /\ n % WIDTH \in Nat /\ n % WIDTH < WIDTH /\ n \div WIDTH \in Nat
            /\ n = (WIDTH * (n \div WIDTH)) + (n % WIDTH)
        BY <1>1, <3>1, DivMod
      <3>3. (n % WIDTH) + WIDTH * (n \div WIDTH) = HALF * c0 + WIDTH * c1
        BY <1>1, <2>1, <2>3, <3>1, <3>2, ProductsOfNaturals
      <3>4. n % WIDTH = HALF * c0
        BY <1>1, <2>1, <2>3, <3>2, <3>3, OneRepresentation
      <3> QED
        BY <3>4 DEF n
    <2>6. low = HALF * c0 + l0
      BY <2>5
    <2> HIDE DEF c0, l0, low
    <2>7. low \in Word
      BY <1>1, <2>1, <2>2, <2>3, <2>6 DEF Word
    <2> QED
      BY <2>6, <2>7 DEF c0, l0
  <1>10. high * WIDTH + low = lhs * rhs
    <2> DEFINE c0 == cross % HALF
               c1 == cross \div HALF
               l0 == lo_lo % HALF
               l1 == lo_lo \div HALF
               m0 == hi_lo % HALF
               m1 == hi_lo \div HALF
    <2>1. /\ c0 \in Nat /\ c1 \in Nat /\ l0 \in Nat /\ l1 \in Nat /\ m0 \in Nat /\ m1 \in Nat
          /\ lo_hi \in Nat /\ hi_hi \in Nat
          /\ HALF * c1 + c0 = l1 + m0 + lo_hi
          /\ lo_lo = HALF * l1 + l0 /\ hi_lo = HALF * m1 + m0
          /\ high = m1 + c1 + hi_hi /\ low = HALF * c0 + l0
      <3>1. /\ l0 \in Nat /\ l1 \in Nat /\ lo_lo = HALF * l1 + l0
            /\ m0 \in Nat /\ m1 \in Nat /\ hi_lo = HALF * m1 + m0
            /\ lo_hi \in Nat /\ hi_hi \in Nat
        BY <1>1, <1>5 DEF Half
      <3>2. /\ c0 \in Nat /\ c1 \in Nat
            /\ HALF * c1 + c0 = l1 + m0 + lo_hi
        BY <1>1, <1>6, <1>7 DEF Half
      <3>3. high = m1 + c1 + hi_hi /\ low = HALF * c0 + l0
        BY <1>9
      <3> QED
        BY <3>1, <3>2, <3>3
    <2> HIDE DEF c0, c1, l0, l1, m0, m1, high, low
    <2>2. HALF * (HALF * c1 + c0) = HALF * (l1 + m0 + lo_hi)
      BY <2>1
    <2>3. high * WIDTH + low = hi_hi * (HALF * HALF) + hi_lo * HALF + lo_hi * HALF + lo_lo
      BY <1>1, <2>1, <2>2, SMTT(30)
    <2>4. lhs * rhs = (a1 * b1) * (HALF * HALF) + (a1 * b0) * HALF + (a0 * b1) * HALF + a0 * b0
      <3>1. a0 \in Nat /\ a1 \in Nat /\ b0 \in Nat /\ b1 \in Nat /\ HALF \in Nat
        BY <1>1, <1>3 DEF Half
      <3>2. lhs = HALF * a1 + a0 /\ rhs = HALF * b1 + b0
        BY <1>3
      <3> QED
        BY <3>1, <3>2, SMTT(30)
    <2> QED
      BY <1>4, <2>3, <2>4
  <1>11. XXH_mult64to128(lhs, rhs) = [low64 |-> low, high64 |-> high]
    BY <1>8 DEF XXH_mult64to128, a1, b1, lo_lo, hi_lo, lo_hi, hi_hi, cross
  <1> QED
    BY <1>8, <1>9, <1>10, <1>11

LEMMA ProductFacts ==
    ASSUME NEW x \in Word, NEW y \in Word
    PROVE  /\ Product(x) \in [{"low64", "high64"} -> Word]
           /\ Product(x).high64 * WIDTH + Product(x).low64 = x * (XXH_PRIME64_1 + 24)
           /\ Product(x) = Product(y) => x = y
  <1> DEFINE p == XXH_PRIME64_1 + 24
  <1>1. p \in Word /\ p \in Nat \ {0}
    BY WidthAssumption, WordFacts DEF Word
  <1>2. \A z \in {x, y} : /\ Product(z) \in [{"low64", "high64"} -> Word]
                          /\ Product(z).high64 * WIDTH + Product(z).low64 = z * p
    BY <1>1, MultExact DEF Product
  <1>3. ASSUME Product(x) = Product(y)
        PROVE  x = y
    <2>1. x * p = y * p
      BY <1>2, <1>3
    <2>2. x \in Nat /\ y \in Nat
      BY WordFacts DEF Word
    <2> HIDE DEF p
    <2>3. 0 + p * x = 0 + p * y
      BY <1>1, <2>1, <2>2, SMTT(20)
    <2> QED
      BY <1>1, <2>2, <2>3, OneRepresentation
  <1> QED
    BY <1>2, <1>3

LEMMA CrossedFacts ==
    ASSUME NEW m \in [{"low64", "high64"} -> Word], NEW n \in [{"low64", "high64"} -> Word]
    PROVE  /\ Crossed(m) \in [{"low64", "high64"} -> Word]
           /\ Crossed(m) = Crossed(n) => m = n
  <1> DEFINE twice(w) == (w * 2) % WIDTH
             high(h) == (h.high64 + twice(h.low64)) % WIDTH
  <1>1. WIDTH \in Nat \ {0} /\ SHIFT_3 \in Nat \ {0}
    BY WordFacts, WidthAssumption
  <1>2. \A w \in Word : w \in Nat /\ w < WIDTH
    BY <1>1 DEF Word
  <1>3. \A w \in Word : twice(w) \in Nat
    BY <1>1, <1>2, DivMod
  <1>4. \A h \in {m, n} : high(h) \in Word /\ high(h) \div SHIFT_3 \in Word
    <2>1. \A h \in {m, n} : h.high64 + twice(h.low64) \in Nat
      BY <1>2, <1>3
    <2>2. \A h \in {m, n} : high(h) \in Word
      BY <1>1, <2>1, DivMod DEF Word
    <2> QED
      BY <1>1, <2>2, ShiftFacts
  <1>5. \A h \in {m, n} : /\ Crossed(h).high64 = high(h)
                          /\ Crossed(h).low64 = Xor(h.low64, high(h) \div SHIFT_3)
    BY DEF Crossed
  <1>6. Crossed(m) \in [{"low64", "high64"} -> Word]
    <2>1. Xor(m.low64, high(m) \div SHIFT_3) \in Word
      BY <1>4, XorAssumption
    <2> QED
      BY <1>4, <2>1 DEF Crossed
  <1>7. ASSUME Crossed(m) = Crossed(n)
        PROVE  m = n
    <2>1. high(m) = high(n) /\ Xor(m.low64, high(m) \div SHIFT_3) = Xor(n.low64, high(m) \div SHIFT_3)
      BY <1>5, <1>7
    <2>2. m.low64 = n.low64
      <3> DEFINE s == high(m) \div SHIFT_3
      <3>1. s \in Word /\ Xor(m.low64, s) = Xor(n.low64, s)
        BY <1>4, <2>1
      <3> HIDE DEF s
      <3> QED
        BY <3>1, XorCancels
    <2>3. m.high64 = n.high64
      <3> DEFINE c == twice(m.low64)
      <3>1. c \in Nat /\ (m.high64 + c) % WIDTH = (n.high64 + c) % WIDTH
        BY <1>3, <2>1, <2>2
      <3> HIDE DEF c
      <3>2. /\ m.high64 \in Nat /\ m.high64 < WIDTH
            /\ n.high64 \in Nat /\ n.high64 < WIDTH
        BY <1>2
      <3> QED
        BY <1>1, <3>1, <3>2, ModAddInjective
    <2> QED
      BY <2>2, <2>3
  <1> QED
    BY <1>6, <1>7

\* Two xorshifts with a product between them: both halves of the end.
LEMMA MixInjective ==
    ASSUME NEW s \in Shifts, NEW t \in Shifts, NEW p \in Word,
           \E inv \in Word : (p * inv) % WIDTH = 1,
           NEW v \in Word, NEW w \in Word,
           XXH_xorshift64((XXH_xorshift64(v, s) * p) % WIDTH, t)
             = XXH_xorshift64((XXH_xorshift64(w, s) * p) % WIDTH, t)
    PROVE  v = w
  <1> DEFINE x == XXH_xorshift64(v, s)
             y == XXH_xorshift64(w, s)
  <1>1. x \in Word /\ y \in Word
    BY XorshiftWord
  <1>2. WIDTH \in Nat \ {0} /\ \A u \in Word : u \in Nat /\ u < WIDTH
    BY WordFacts DEF Word
  <1> HIDE DEF x, y
  <1>3. (x * p) % WIDTH \in Word /\ (y * p) % WIDTH \in Word
    <2>1. x * p \in Nat /\ y * p \in Nat
      BY <1>1, <1>2, ProductsOfNaturals
    <2> QED
      BY <1>2, <2>1, DivMod DEF Word
  <1>4. (x * p) % WIDTH = (y * p) % WIDTH
    BY <1>3, XorshiftInjective DEF x, y
  <1>5. PICK inv \in Word : (p * inv) % WIDTH = 1
    OBVIOUS
  <1>6. x = y
    BY <1>1, <1>2, <1>4, <1>5, ModMulInjective
  <1> QED
    BY <1>6, XorshiftInjective DEF x, y

LEMMA FinishedInjective ==
    ASSUME NEW m \in [{"low64", "high64"} -> Word], NEW n \in [{"low64", "high64"} -> Word],
           Finished(m) = Finished(n)
    PROVE  m = n
  <1>1. /\ SHIFT_28 \in Shifts /\ SHIFT_32 \in Shifts /\ SHIFT_35 \in Shifts /\ SHIFT_37 \in Shifts
    BY DEF Shifts
  <1>2. m.low64 = n.low64
    <2>1. Finished(m).low64 = Finished(n).low64
      OBVIOUS
    <2> QED
      BY <1>1, <2>1, OddAssumption, MixInjective DEF Finished
  <1>3. m.high64 = n.high64
    <2>1. Finished(m).high64 = Finished(n).high64
      OBVIOUS
    <2> QED
      BY <1>1, <2>1, OddAssumption, MixInjective DEF Finished, XXH3_avalanche
  <1> QED
    BY <1>2, <1>3
-----------------------------------------------------------------------------
\* What the devices hold after each step, as a function of their ids.
After(step, x) ==
    CASE step = "input"   -> x
      [] step = "keyed"   -> Keyed(x)
      [] step = "product" -> Product(Keyed(x))
      [] step = "crossed" -> Crossed(Product(Keyed(x)))
      [] step = "hash"    -> Finished(Crossed(Product(Keyed(x))))

\* The inductive invariant.
IInv ==
    /\ pc \in {"input", "keyed", "product", "crossed", "hash"}
    /\ id \in [1 .. 2 -> DeviceId]
    /\ at = [d \in 1 .. 2 |-> After(pc, id[d])]

\* No step brings two ids together.
LEMMA AfterInjective ==
    ASSUME NEW x \in DeviceId, NEW y \in DeviceId, x # y,
           NEW step \in {"input", "keyed", "product", "crossed", "hash"}
    PROVE  After(step, x) # After(step, y)
  <1> DEFINE k(z) == Keyed(z)
             p(z) == Product(k(z))
             c(z) == Crossed(p(z))
  <1>1. k(x) \in Word /\ k(y) \in Word /\ k(x) # k(y)
    BY KeyedFacts
  <1> HIDE DEF k
  <1>2. /\ p(x) \in [{"low64", "high64"} -> Word] /\ p(y) \in [{"low64", "high64"} -> Word]
        /\ p(x) # p(y)
    BY <1>1, ProductFacts
  <1> HIDE DEF p
  <1>3. /\ c(x) \in [{"low64", "high64"} -> Word] /\ c(y) \in [{"low64", "high64"} -> Word]
        /\ c(x) # c(y)
    BY <1>2, CrossedFacts
  <1> HIDE DEF c
  <1>4. Finished(c(x)) # Finished(c(y))
    BY <1>3, FinishedInjective
  <1> QED
    BY <1>1, <1>2, <1>3, <1>4 DEF After, k, p, c

(***************************************************************************)
(* The steps of XXH3_len_4to8_128b run one after the other, each on what   *)
(* the one before it left.                                                 *)
(***************************************************************************)
THEOREM Computes == Spec => []IInv
  <1>1. Init => IInv
    BY DEF Init, IInv, After, DeviceId
  <1>2. IInv /\ [Next]_vars => IInv'
    <2> SUFFICES ASSUME IInv, [Next]_vars
                 PROVE  IInv'
      OBVIOUS
    <2> USE DEF IInv, After
    <2>1. CASE Key
      BY <2>1 DEF Key, Step
    <2>2. CASE Multiply
      BY <2>2 DEF Multiply, Step
    <2>3. CASE Cross
      BY <2>3 DEF Cross, Step
    <2>4. CASE Finish
      BY <2>4 DEF Finish, Step
    <2>5. CASE UNCHANGED vars
      BY <2>5 DEF vars
    <2> QED
      BY <2>1, <2>2, <2>3, <2>4, <2>5 DEF Next
  <1> QED
    BY <1>1, <1>2, PTL DEF Spec

(***************************************************************************)
(* Whatever their ids, two devices whose ids differ hold different values  *)
(* after every step of the hash, and so have different serials.            *)
(***************************************************************************)
THEOREM DifferentSerials == Spec => []NeverMeet
  <1>1. IInv => NeverMeet
    <2> SUFFICES ASSUME IInv, id[1] # id[2]
                 PROVE  at[1] # at[2]
      BY DEF NeverMeet
    <2>1. id[1] \in DeviceId /\ id[2] \in DeviceId
      BY DEF IInv
    <2>2. After(pc, id[1]) # After(pc, id[2])
      BY <2>1, AfterInjective DEF IInv
    <2>3. at[1] = After(pc, id[1]) /\ at[2] = After(pc, id[2])
      BY DEF IInv
    <2> QED
      BY <2>2, <2>3
  <1> QED
    BY <1>1, Computes, PTL

(***************************************************************************)
(* The portable multiplication of XXH_mult64to128 yields the whole product *)
(* of its two words: no sum in it overflows.                               *)
(***************************************************************************)
THEOREM Exact == Spec => []ProductExact
  <1>1. IInv => ProductExact
    <2> SUFFICES ASSUME IInv, pc = "product", NEW d \in 1 .. 2
                 PROVE  /\ at[d] \in [{"low64", "high64"} -> Word]
                        /\ at[d].high64 * WIDTH + at[d].low64 = Keyed(id[d]) * (XXH_PRIME64_1 + 24)
      BY DEF ProductExact
    <2>1. Keyed(id[d]) \in Word
      BY KeyedFacts DEF IInv
    <2>2. at[d] = Product(Keyed(id[d]))
      BY DEF IInv, After
    <2> QED
      BY <2>1, <2>2, ProductFacts
  <1> QED
    BY <1>1, Computes, PTL
=============================================================================
