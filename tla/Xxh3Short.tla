----------------------------- MODULE Xxh3Short -----------------------------
(***************************************************************************)
(* xxhash.h: XXH3 of inputs of up to XXH3_MIDSIZE_MAX bytes, with 64 and   *)
(* with 128 bits.  Each length has its own way to cover the input with     *)
(* reads, most of them overlapping, and its own windows of the secret.     *)
(*                                                                         *)
(* The scalar code is modelled, the one compiled for this chip.            *)
(***************************************************************************)
EXTENDS XxhMemory

XXH3_MIDSIZE_MAX == 240
XXH3_SECRET_SIZE_MIN == 136
XXH3_MIDSIZE_STARTOFFSET == 3
XXH3_MIDSIZE_LASTOFFSET == 17

XXH3_avalanche(hash) == Append(hash, Mix("XXH3_avalanche", <<>>))
Len3(len) == Step("len", <<>>, NULL, len, 0, 0)

\* The words at `first` and `last` mixed with n bytes of the secret.
Keyed(in, first, last, size, secret, at, n, seed) ==
    Step("keyed", Bytes(in, first, size) \o Bytes(in, last, size), secret, at, n, seed)

\* The two middle bytes of the combined word: input[len >> 1] is the second
\* of two, so all of up to three bytes are in.
Combined(in, len) == Bytes(in, 0, 1) \o Bytes(in, len \div 2, 1) \o Bytes(in, len - 1, 1)

XXH3_len_1to3_64b(in, len, secret, seed) ==
    <<Len3(len), Step("combined", Combined(in, len), secret, 0, 8, seed)>>

XXH3_len_4to8_64b(in, len, secret, seed) ==
    <<Keyed(in, 0, len - 4, 4, secret, 8, 16, -seed), Len3(len), Mix("rrmxmx", <<>>)>>

XXH3_len_9to16_64b(in, len, secret, seed) ==
    XXH3_avalanche(<<Len3(len),
        Step("lo", XXH_readLE64(in, 0), secret, 24, 16, seed),
        Step("hi", XXH_readLE64(in, len - 8), secret, 40, 16, -seed)>>)

XXH3_len_0to16_64b(in, len, secret, seed) ==
    CASE len > 8 -> XXH3_len_9to16_64b(in, len, secret, seed)
      [] len \in 4 .. 8 -> XXH3_len_4to8_64b(in, len, secret, seed)
      [] len \in 1 .. 3 -> XXH3_len_1to3_64b(in, len, secret, seed)
      [] len = 0 -> <<Step("empty", <<>>, secret, 56, 16, seed)>>

XXH3_mix16B(in, at, secret, key, seed) ==
    Step("mix16B", XXH_readLE64(in, at) \o XXH_readLE64(in, at + 8), secret, key, 16, seed)

\* The pair of mixes for the i-th 16 bytes from the front and from the back.
MixPair(in, len, secret, seed, i) ==
    <<XXH3_mix16B(in, 16 * i, secret, 32 * i, seed),
      XXH3_mix16B(in, len - 16 * (i + 1), secret, 32 * i + 16, seed)>>

\* Mutated form: the third pair is taken above 80 bytes only.
Len17to128Gap(in, len, secret, seed) ==
    XXH3_avalanche(<<Len3(len)>>
      \o (IF len > 96 THEN MixPair(in, len, secret, seed, 3) ELSE <<>>)
      \o (IF len > 80 THEN MixPair(in, len, secret, seed, 2) ELSE <<>>)
      \o (IF len > 32 THEN MixPair(in, len, secret, seed, 1) ELSE <<>>)
      \o MixPair(in, len, secret, seed, 0))

\* The unrolled form.
XXH3_len_17to128_64b(in, len, secret, seed) ==
    XXH3_avalanche(<<Len3(len)>>
      \o (IF len > 96 THEN MixPair(in, len, secret, seed, 3) ELSE <<>>)
      \o (IF len > 64 THEN MixPair(in, len, secret, seed, 2) ELSE <<>>)
      \o (IF len > 32 THEN MixPair(in, len, secret, seed, 1) ELSE <<>>)
      \o MixPair(in, len, secret, seed, 0))

\* The loop of XXH_SIZE_OPT, from i = (len - 1) / 32 down to 0.
Len17to128Loop(in, len, secret, seed) ==
    LET i == (len - 1) \div 32
    IN XXH3_avalanche(<<Len3(len)>>
         \o Chain([j \in 1 .. i + 1 |-> MixPair(in, len, secret, seed, i + 1 - j)], 2))

\* Eight rounds, an avalanche, the rest of the whole 16 bytes with the secret
\* shifted by three bytes, and the last 16 bytes, which may overlap.
XXH3_len_129to240_64b(in, len, secret, seed) ==
    LET nbRounds == len \div 16
    IN XXH3_avalanche(XXH3_avalanche(<<Len3(len)>>
           \o [i \in 1 .. 8 |-> XXH3_mix16B(in, 16 * (i - 1), secret, 16 * (i - 1), seed)])
         \o <<XXH3_mix16B(in, len - 16, secret,
                          XXH3_SECRET_SIZE_MIN - XXH3_MIDSIZE_LASTOFFSET, seed)>>
         \o [i \in 1 .. nbRounds - 8 |->
               XXH3_mix16B(in, 16 * (i + 7), secret,
                           16 * (i - 1) + XXH3_MIDSIZE_STARTOFFSET, seed)])
-----------------------------------------------------------------------------
(***************************************************************************)
(* 128 bits.                                                               *)
(***************************************************************************)
XXH3_len_1to3_128b(in, len, secret, seed) ==
    <<Len3(len), Step("combinedl", Combined(in, len), secret, 0, 8, seed),
                 Step("combinedh", Combined(in, len), secret, 8, 8, -seed)>>

XXH3_len_4to8_128b(in, len, secret, seed) ==
    <<Keyed(in, 0, len - 4, 4, secret, 16, 16, seed), Len3(len), Mix("m128", <<>>)>>

XXH3_len_9to16_128b(in, len, secret, seed) ==
    <<Keyed(in, 0, len - 8, 8, secret, 32, 16, -seed), Len3(len),
      Step("hi", XXH_readLE64(in, len - 8), secret, 48, 16, seed), Mix("h128", <<>>)>>

XXH3_len_0to16_128b(in, len, secret, seed) ==
    CASE len > 8 -> XXH3_len_9to16_128b(in, len, secret, seed)
      [] len \in 4 .. 8 -> XXH3_len_4to8_128b(in, len, secret, seed)
      [] len \in 1 .. 3 -> XXH3_len_1to3_128b(in, len, secret, seed)
      [] len = 0 -> <<Step("low", <<>>, secret, 64, 16, seed),
                      Step("high", <<>>, secret, 80, 16, seed)>>

\* Each half is mixed with one input and, unkeyed, with the words of the other.
XXH128_mix32B(in, at1, at2, secret, key, seed) ==
    <<XXH3_mix16B(in, at1, secret, key, seed), Mix("low64", Bytes(in, at2, 16)),
      XXH3_mix16B(in, at2, secret, key + 16, seed), Mix("high64", Bytes(in, at1, 16))>>

Finish128(acc, len, seed) == Append(acc, Step("h128", <<>>, NULL, len, 0, seed))

Mix32Pair(in, len, secret, seed, i) ==
    XXH128_mix32B(in, 16 * i, len - 16 * (i + 1), secret, 32 * i, seed)

XXH3_len_17to128_128b(in, len, secret, seed) ==
    Finish128(<<Len3(len)>>
      \o (IF len > 96 THEN Mix32Pair(in, len, secret, seed, 3) ELSE <<>>)
      \o (IF len > 64 THEN Mix32Pair(in, len, secret, seed, 2) ELSE <<>>)
      \o (IF len > 32 THEN Mix32Pair(in, len, secret, seed, 1) ELSE <<>>)
      \o Mix32Pair(in, len, secret, seed, 0), len, seed)

Len17to128Loop128(in, len, secret, seed) ==
    LET i == (len - 1) \div 32
    IN Finish128(<<Len3(len)>>
         \o Chain([j \in 1 .. i + 1 |-> Mix32Pair(in, len, secret, seed, i + 1 - j)], 4), len, seed)

\* for (i = 160; i <= len; i += 32), and the last 32 bytes, with the halves
\* exchanged and the seed negated.
XXH3_len_129to240_128b(in, len, secret, seed) ==
    LET Round(i, key) == XXH128_mix32B(in, i - 32, i - 16, secret, key, seed)
    IN Finish128(XXH3_avalanche(<<Len3(len)>>
           \o Chain([j \in 1 .. 4 |-> Round(32 * j, 32 * (j - 1))], 4))
         \o Chain([j \in 1 .. (len - 128) \div 32 |->
               Round(128 + 32 * j, XXH3_MIDSIZE_STARTOFFSET + 32 * (j - 1))], 4)
         \o XXH128_mix32B(in, len - 16, len - 32, secret,
               XXH3_SECRET_SIZE_MIN - XXH3_MIDSIZE_LASTOFFSET - 16, -seed), len, seed)
=============================================================================
