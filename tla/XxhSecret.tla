----------------------------- MODULE XxhSecret -----------------------------
(***************************************************************************)
(* xxhash.h: XXH3_generateSecret.  A byte of the secret is known by the    *)
(* byte of the custom seed it was copied from and the scrambling segments  *)
(* it was combined with.                                                   *)
(***************************************************************************)
EXTENDS Xxh3

\* The custom seed is copied as often as it fits, the last copy in part.
FillWithSeed(secretSize, customSeedSize) ==
    [i \in 0 .. secretSize - 1 |-> [from |-> i % customSeedSize, mixed |-> <<>>]]

XXH3_combine16(secret, at, segment) ==
    [i \in DOMAIN secret \cup (at .. at + 15) |->
        IF i \in at .. at + 15 THEN [secret[i] EXCEPT !.mixed = Append(@, segment)]
        ELSE secret[i]]

\* The segments are numbered by the n they are derived with; the last one is
\* the scrambler itself, and may overlap the one before.
Scrambler == -1

WholeSegments(secret, secretSize) ==
    [i \in DOMAIN secret |-> IF i \div 16 < secretSize \div 16
                             THEN [secret[i] EXCEPT !.mixed = <<i \div 16>>] ELSE secret[i]]

Scramble(secret, secretSize) ==
    XXH3_combine16(WholeSegments(secret, secretSize), secretSize - 16, Scrambler)

\* A customSeedSize of 0 stands for the default secret.
XXH3_generateSecret(secretBuffer, secretSize, customSeed, customSeedSize) ==
    LET seed == IF customSeedSize = 0 THEN XXH3_kSecret ELSE customSeed
        size == IF customSeedSize = 0 THEN XXH_SECRET_DEFAULT_SIZE ELSE customSeedSize
    IN IF secretBuffer = NULL \/ secretSize < XXH3_SECRET_SIZE_MIN \/ seed = NULL
       THEN [result |-> "XXH_ERROR", secret |-> FillWithSeed(0, 1), seedSize |-> size]
       ELSE [result |-> "XXH_OK", secret |-> Scramble(FillWithSeed(secretSize, size), secretSize),
             seedSize |-> size]
=============================================================================
