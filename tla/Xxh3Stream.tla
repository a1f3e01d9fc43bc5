----------------------------- MODULE Xxh3Stream -----------------------------
(***************************************************************************)
(* xxhash.h: the operations on an XXH3_state_t.  The input is buffered up  *)
(* to 256 bytes and consumed only when more follows, so that the digest    *)
(* always finds the last stripe; when fewer than 64 bytes are buffered it  *)
(* takes the rest of that stripe from the end of the buffer, where the     *)
(* bytes consumed last have been kept.                                     *)
(***************************************************************************)
EXTENDS Xxh3

\* XXH3_createState: only seed and extSecret are set.
XXH3_createState ==
    [acc |-> <<>>, customSecret |-> Garbage, buffer |-> Buffer(XXH3_INTERNALBUFFER_SIZE),
     bufferedSize |-> 0, useSeed |-> FALSE, nbStripesSoFar |-> 0, totalLen |-> 0,
     nbStripesPerBlock |-> 0, secretLimit |-> 0, seed |-> 0, extSecret |-> NULL]

\* The buffer is not cleared: its bytes are those of an earlier message.
XXH3_reset_internal(s, seed, secret, secretSize) ==
    [s EXCEPT !.bufferedSize = 0, !.nbStripesSoFar = 0, !.totalLen = 0,
              !.buffer = Buffer(XXH3_INTERNALBUFFER_SIZE),
              !.acc = XXH3_INIT_ACC, !.seed = seed, !.useSeed = (seed # 0),
              !.extSecret = secret, !.secretLimit = secretSize - XXH_STRIPE_LEN,
              !.nbStripesPerBlock = StripesPerBlock(secretSize)]

XXH3_64bits_reset(s) == XXH3_reset_internal(s, 0, XXH3_kSecret, XXH_SECRET_DEFAULT_SIZE)

\* The state is changed before the arguments are looked at.
XXH3_64bits_reset_withSecret(s, secret, secretSize) ==
    [state |-> XXH3_reset_internal(s, 0, secret, secretSize),
     result |-> IF secret = NULL \/ secretSize < XXH3_SECRET_SIZE_MIN
                THEN "XXH_ERROR" ELSE "XXH_OK"]

\* Mutated form: the secret is kept if the seed is the same.
ResetWithSeedCached(s, seed) ==
    IF seed = 0 THEN XXH3_64bits_reset(s)
    ELSE XXH3_reset_internal(
           IF seed # s.seed THEN [s EXCEPT !.customSecret = XXH3_initCustomSecret(seed)] ELSE s,
           seed, NULL, XXH_SECRET_DEFAULT_SIZE)

\* The secret derived from the seed is kept from the last reset if it was made
\* with the same seed and without an external secret.
XXH3_64bits_reset_withSeed(s, seed) ==
    IF seed = 0 THEN XXH3_64bits_reset(s)
    ELSE XXH3_reset_internal(
           IF seed # s.seed \/ s.extSecret # NULL
           THEN [s EXCEPT !.customSecret = XXH3_initCustomSecret(seed)] ELSE s,
           seed, NULL, XXH_SECRET_DEFAULT_SIZE)

XXH3_64bits_reset_withSecretandSeed(s, secret, secretSize, seed) ==
    IF secret = NULL \/ secretSize < XXH3_SECRET_SIZE_MIN
    THEN [state |-> s, result |-> "XXH_ERROR"]
    ELSE [state |-> [XXH3_reset_internal(s, seed, secret, secretSize) EXCEPT !.useSeed = TRUE],
          result |-> "XXH_OK"]

SecretOf(s) == IF s.extSecret = NULL THEN s.customSecret ELSE s.extSecret
-----------------------------------------------------------------------------
(***************************************************************************)
(* XXH3_consumeStripes: the block begun before is completed, if there are  *)
(* stripes enough, whole blocks follow, and then the beginning of another. *)
(***************************************************************************)
XXH3_consumeStripes(acc, soFar, s, in, at, nbStripes, secret) ==
    LET perBlock == s.nbStripesPerBlock
        first    == perBlock - soFar
        blocks   == (nbStripes - first) \div perBlock
        rest     == (nbStripes - first) % perBlock
        Block(a, from, key, n) ==
            XXH3_scrambleAcc(XXH3_accumulate(a, in, at + from * XXH_STRIPE_LEN, secret,
                                 key * XXH_SECRET_CONSUME_RATE, n), secret, s.secretLimit)
        whole    == Block(acc, 0, soFar, first)
                      \o Chain([b \in 1 .. blocks |->
                               Block(<<>>, first + (b - 1) * perBlock, 0, perBlock)], perBlock + 1)
    IN IF nbStripes < first
       THEN [acc |-> XXH3_accumulate(acc, in, at, secret, soFar * XXH_SECRET_CONSUME_RATE,
                         nbStripes),
             nbStripesSoFar |-> soFar + nbStripes, input |-> at + nbStripes * XXH_STRIPE_LEN]
       ELSE [acc |-> XXH3_accumulate(whole, in, at + (nbStripes - rest) * XXH_STRIPE_LEN, secret,
                         0, rest),
             nbStripesSoFar |-> rest, input |-> at + nbStripes * XXH_STRIPE_LEN]
-----------------------------------------------------------------------------
(***************************************************************************)
(* XXH3_update.                                                            *)
(***************************************************************************)
FillBuffer(s, in, len) ==
    [s EXCEPT !.buffer = XXH_memcpy(@, s.bufferedSize, in, 0, len), !.bufferedSize = @ + len]

\* The buffer is completed and all of it consumed.
ConsumeBuffer(s, in) ==
    LET full == FillBuffer(s, in, XXH3_INTERNALBUFFER_SIZE - s.bufferedSize)
        c    == XXH3_consumeStripes(s.acc, s.nbStripesSoFar, s, full.buffer, 0,
                                    XXH3_INTERNALBUFFER_STRIPES, SecretOf(s))
    IN [full EXCEPT !.acc = c.acc, !.nbStripesSoFar = c.nbStripesSoFar, !.bufferedSize = 0]

\* Mutated form: the last stripe consumed from the input is not kept.
ConsumeInputDropping(s, in, input, len) ==
    LET c == XXH3_consumeStripes(s.acc, s.nbStripesSoFar, s, in, input,
                                 (len - 1 - input) \div XXH_STRIPE_LEN, SecretOf(s))
    IN IF len - input <= XXH3_INTERNALBUFFER_SIZE
       THEN [s EXCEPT !.buffer = XXH_memcpy(@, 0, in, input, len - input),
                      !.bufferedSize = len - input]
       ELSE [s EXCEPT !.acc = c.acc, !.nbStripesSoFar = c.nbStripesSoFar,
                      !.buffer = XXH_memcpy(@, 0, in, c.input, len - c.input),
                      !.bufferedSize = len - c.input]

\* More than a buffer is consumed from the input directly, but for its last
\* stripe or part of one; the stripe before that is kept at the end of the
\* buffer.  Then the rest is buffered.
ConsumeInput(s, in, input, len) ==
    LET c == XXH3_consumeStripes(s.acc, s.nbStripesSoFar, s, in, input,
                                 (len - 1 - input) \div XXH_STRIPE_LEN, SecretOf(s))
        kept == XXH_memcpy(s.buffer, XXH3_INTERNALBUFFER_SIZE - XXH_STRIPE_LEN,
                           in, c.input - XXH_STRIPE_LEN, XXH_STRIPE_LEN)
    IN IF len - input <= XXH3_INTERNALBUFFER_SIZE
       THEN [s EXCEPT !.buffer = XXH_memcpy(@, 0, in, input, len - input),
                      !.bufferedSize = len - input]
       ELSE [s EXCEPT !.acc = c.acc, !.nbStripesSoFar = c.nbStripesSoFar,
                      !.buffer = XXH_memcpy(kept, 0, in, c.input, len - c.input),
                      !.bufferedSize = len - c.input]

\* Mutated form: the bytes already in the buffer are not counted.
UpdateUnaware(state, in, len) ==
    LET s == [state EXCEPT !.totalLen = @ + len]
    IN IF len <= XXH3_INTERNALBUFFER_SIZE THEN FillBuffer(s, in, len)
       ELSE IF s.bufferedSize > 0
       THEN ConsumeInput(ConsumeBuffer(s, in), in, XXH3_INTERNALBUFFER_SIZE - s.bufferedSize, len)
       ELSE ConsumeInput(s, in, 0, len)

XXH3_update(state, in, len) ==
    LET s == [state EXCEPT !.totalLen = @ + len]
    IN IF len <= XXH3_INTERNALBUFFER_SIZE - s.bufferedSize THEN FillBuffer(s, in, len)
       ELSE IF s.bufferedSize > 0
       THEN ConsumeInput(ConsumeBuffer(s, in), in, XXH3_INTERNALBUFFER_SIZE - s.bufferedSize, len)
       ELSE ConsumeInput(s, in, 0, len)
-----------------------------------------------------------------------------
(***************************************************************************)
(* The digests, on a copy of the accumulators.                             *)
(***************************************************************************)
XXH3_digest_long(s, secret) ==
    LET nbStripes == IF s.bufferedSize >= XXH_STRIPE_LEN
                     THEN (s.bufferedSize - 1) \div XXH_STRIPE_LEN ELSE 0
        c         == XXH3_consumeStripes(s.acc, s.nbStripesSoFar, s, s.buffer, 0, nbStripes, secret)
        catchup   == XXH_STRIPE_LEN - s.bufferedSize
        lastStripe == XXH_memcpy(
            XXH_memcpy(Buffer(XXH_STRIPE_LEN), 0,
                       s.buffer, XXH3_INTERNALBUFFER_SIZE - catchup, catchup),
            catchup, s.buffer, 0, s.bufferedSize)
    IN IF s.bufferedSize >= XXH_STRIPE_LEN
       THEN XXH3_accumulate_512(c.acc, s.buffer, s.bufferedSize - XXH_STRIPE_LEN, secret,
                                s.secretLimit - XXH_SECRET_LASTACC_START)
       ELSE XXH3_accumulate_512(s.acc, lastStripe, 0, secret,
                                s.secretLimit - XXH_SECRET_LASTACC_START)

XXH3_64bits_digest(s) ==
    LET secret == SecretOf(s)
    IN IF s.totalLen > XXH3_MIDSIZE_MAX
       THEN XXH3_finalizeLong_64b(XXH3_digest_long(s, secret), secret, s.totalLen)
       ELSE IF s.useSeed
       THEN XXH3_64bits_withSeed(s.buffer, s.totalLen, s.seed)
       ELSE XXH3_64bits_withSecret(s.buffer, s.totalLen, secret, s.secretLimit + XXH_STRIPE_LEN)

XXH3_128bits_digest(s) ==
    LET secret == SecretOf(s)
    IN IF s.totalLen > XXH3_MIDSIZE_MAX
       THEN XXH3_finalizeLong_128b(XXH3_digest_long(s, secret), secret,
                                   s.secretLimit + XXH_STRIPE_LEN, s.totalLen)
       ELSE IF s.useSeed
       THEN XXH3_128bits_withSeed(s.buffer, s.totalLen, s.seed)
       ELSE XXH3_128bits_withSecret(s.buffer, s.totalLen, secret, s.secretLimit + XXH_STRIPE_LEN)
=============================================================================
