-------------------------------- MODULE Xxh3 --------------------------------
(***************************************************************************)
(* xxhash.h: XXH3 of long inputs in one call, and XXH3 as a stream, with   *)
(* 64 and 128 bits, in its four modes: default, seed, secret, secret and   *)
(* seed.                                                                   *)
(*                                                                         *)
(* The accumulators are the sequence of the stripes accumulated into them  *)
(* and of the scrambles between the blocks.                                *)
(***************************************************************************)
EXTENDS Xxh3Short

CONSTANT UserSecretSize     \* size of the secret that the caller supplies

ASSUME Xxh3Assumption == UserSecretSize \in Nat /\ UserSecretSize >= XXH3_SECRET_SIZE_MIN

XXH_STRIPE_LEN == 64
XXH_SECRET_CONSUME_RATE == 8
XXH_SECRET_LASTACC_START == 7
XXH_SECRET_MERGEACCS_START == 11
XXH_SECRET_DEFAULT_SIZE == 192
XXH3_INTERNALBUFFER_SIZE == 256
XXH3_INTERNALBUFFER_STRIPES == XXH3_INTERNALBUFFER_SIZE \div XXH_STRIPE_LEN

\* The secret derived from a seed; that of seed 0 is the default secret.
XXH3_initCustomSecret(seed) == <<"kSecret", seed>>
XXH3_kSecret == XXH3_initCustomSecret(0)
UserSecret == <<"user", 0>>
Garbage == <<"garbage", 0>>
SecretSize(secret) == IF secret = UserSecret THEN UserSecretSize ELSE XXH_SECRET_DEFAULT_SIZE

XXH3_INIT_ACC == <<Mix("init", <<>>)>>

XXH3_scalarRounds(in, at, secret, key) ==
    Step("accumulate", Bytes(in, at, XXH_STRIPE_LEN), secret, key, XXH_STRIPE_LEN, 0)

XXH3_accumulate_512(acc, in, at, secret, key) ==
    Append(acc, XXH3_scalarRounds(in, at, secret, key))

\* Each stripe is keyed eight bytes further into the secret.
XXH3_accumulate(acc, in, at, secret, key, nbStripes) ==
    acc \o [n \in 1 .. nbStripes |->
              XXH3_scalarRounds(in, at + (n - 1) * XXH_STRIPE_LEN,
                                secret, key + (n - 1) * XXH_SECRET_CONSUME_RATE)]

XXH3_scrambleAcc(acc, secret, key) ==
    Append(acc, Step("scramble", <<>>, secret, key, XXH_STRIPE_LEN, 0))

StripesPerBlock(secretSize) == (secretSize - XXH_STRIPE_LEN) \div XXH_SECRET_CONSUME_RATE

\* Whole blocks are scrambled except when nothing follows them: the last
\* stripe, which may overlap the one before, always comes after the blocks.
XXH3_hashLong_internal_loop(in, len, secret, secretSize) ==
    LET perBlock  == StripesPerBlock(secretSize)
        block_len == XXH_STRIPE_LEN * perBlock
        nb_blocks == (len - 1) \div block_len
        nbStripes == ((len - 1) - block_len * nb_blocks) \div XXH_STRIPE_LEN
        Block(n)  == XXH3_scrambleAcc(
                       XXH3_accumulate(<<>>, in, n * block_len, secret, 0, perBlock),
                       secret, secretSize - XXH_STRIPE_LEN)
        blocks    == XXH3_INIT_ACC \o Chain([n \in 1 .. nb_blocks |-> Block(n - 1)], perBlock + 1)
        partial   == XXH3_accumulate(blocks, in, nb_blocks * block_len, secret, 0, nbStripes)
    IN XXH3_accumulate_512(partial, in, len - XXH_STRIPE_LEN, secret,
           secretSize - XXH_STRIPE_LEN - XXH_SECRET_LASTACC_START)

\* Four pairs of accumulators, each with 16 bytes of the secret.
XXH3_mergeAccs(acc, secret, key, len) ==
    XXH3_avalanche(acc \o <<Len3(len)>>
      \o [i \in 1 .. 4 |-> Step("mix2Accs", <<>>, secret, key + 16 * (i - 1), 16, 0)])

XXH3_finalizeLong_64b(acc, secret, len) ==
    XXH3_mergeAccs(acc, secret, XXH_SECRET_MERGEACCS_START, len)

\* The low half as for 64 bits, the high half from the end of the secret.
XXH3_finalizeLong_128b(acc, secret, secretSize, len) ==
    XXH3_finalizeLong_64b(acc, secret, len)
      \o XXH3_mergeAccs(<<>>, secret,
             secretSize - XXH_STRIPE_LEN - XXH_SECRET_MERGEACCS_START, len)

XXH3_hashLong_64b_internal(in, len, secret, secretSize) ==
    XXH3_finalizeLong_64b(XXH3_hashLong_internal_loop(in, len, secret, secretSize), secret, len)

XXH3_hashLong_128b_internal(in, len, secret, secretSize) ==
    XXH3_finalizeLong_128b(XXH3_hashLong_internal_loop(in, len, secret, secretSize),
                           secret, secretSize, len)

XXH3_hashLong_64b_withSecret(in, len, secret, secretLen) ==
    XXH3_hashLong_64b_internal(in, len, secret, secretLen)
XXH3_hashLong_64b_default(in, len) ==
    XXH3_hashLong_64b_internal(in, len, XXH3_kSecret, XXH_SECRET_DEFAULT_SIZE)
XXH3_hashLong_64b_withSeed(in, len, seed) ==
    XXH3_hashLong_64b_internal(in, len, XXH3_initCustomSecret(seed), XXH_SECRET_DEFAULT_SIZE)

XXH3_hashLong_128b_withSecret(in, len, secret, secretLen) ==
    XXH3_hashLong_128b_internal(in, len, secret, secretLen)
XXH3_hashLong_128b_default(in, len) ==
    XXH3_hashLong_128b_internal(in, len, XXH3_kSecret, XXH_SECRET_DEFAULT_SIZE)
XXH3_hashLong_128b_withSeed(in, len, seed) ==
    XXH3_hashLong_128b_internal(in, len, XXH3_initCustomSecret(seed), XXH_SECRET_DEFAULT_SIZE)

\* What a call of the null function pointer of the _withSecretandSeed entry
\* points would come to.
NullFunction == <<Step("call of NULL", <<>>, NULL, 0, 1, 0)>>

\* hashLong is the result of f_hashLong for the same input, and is looked at
\* only where the function is called.
XXH3_64bits_internal(in, len, seed, secret, hashLong) ==
    CASE len <= 16 -> XXH3_len_0to16_64b(in, len, secret, seed)
      [] len \in 17 .. 128 -> XXH3_len_17to128_64b(in, len, secret, seed)
      [] len \in 129 .. XXH3_MIDSIZE_MAX -> XXH3_len_129to240_64b(in, len, secret, seed)
      [] len > XXH3_MIDSIZE_MAX -> hashLong

XXH3_128bits_internal(in, len, seed, secret, hashLong) ==
    CASE len <= 16 -> XXH3_len_0to16_128b(in, len, secret, seed)
      [] len \in 17 .. 128 -> XXH3_len_17to128_128b(in, len, secret, seed)
      [] len \in 129 .. XXH3_MIDSIZE_MAX -> XXH3_len_129to240_128b(in, len, secret, seed)
      [] len > XXH3_MIDSIZE_MAX -> hashLong

XXH3_64bits(in, len) ==
    XXH3_64bits_internal(in, len, 0, XXH3_kSecret,
        XXH3_hashLong_64b_default(in, len))
XXH3_64bits_withSecret(in, len, secret, secretSize) ==
    XXH3_64bits_internal(in, len, 0, secret,
        XXH3_hashLong_64b_withSecret(in, len, secret, secretSize))
XXH3_64bits_withSeed(in, len, seed) ==
    XXH3_64bits_internal(in, len, seed, XXH3_kSecret,
        XXH3_hashLong_64b_withSeed(in, len, seed))
XXH3_64bits_withSecretandSeed(in, len, secret, secretSize, seed) ==
    IF len <= XXH3_MIDSIZE_MAX
    THEN XXH3_64bits_internal(in, len, seed, XXH3_kSecret, NullFunction)
    ELSE XXH3_hashLong_64b_withSecret(in, len, secret, secretSize)

XXH3_128bits(in, len) ==
    XXH3_128bits_internal(in, len, 0, XXH3_kSecret,
        XXH3_hashLong_128b_default(in, len))
XXH3_128bits_withSecret(in, len, secret, secretSize) ==
    XXH3_128bits_internal(in, len, 0, secret,
        XXH3_hashLong_128b_withSecret(in, len, secret, secretSize))
XXH3_128bits_withSeed(in, len, seed) ==
    XXH3_128bits_internal(in, len, seed, XXH3_kSecret,
        XXH3_hashLong_128b_withSeed(in, len, seed))
XXH3_128bits_withSecretandSeed(in, len, secret, secretSize, seed) ==
    IF len <= XXH3_MIDSIZE_MAX
    THEN XXH3_128bits_internal(in, len, seed, XXH3_kSecret, NullFunction)
    ELSE XXH3_hashLong_128b_withSecret(in, len, secret, secretSize)
=============================================================================
