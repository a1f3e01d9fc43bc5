----------------------------- MODULE XxhStream -----------------------------
(***************************************************************************)
(* A caller of the streaming interface of xxhash.h: it resets a state, in  *)
(* any mode and as often as it likes, and feeds it a message in pieces of  *)
(* any sizes.  A digest changes nothing, so that it may be asked for in    *)
(* every state.                                                            *)
(***************************************************************************)
EXTENDS Xxh32, Xxh64, Xxh3Stream, XxhSecret

CONSTANTS SmallSizes,   \* lengths of the pieces given to XXH32 and XXH64,
          SmallTotal,   \* and the longest message
          Sizes,        \* the same for XXH3
          MaxTotal,
          MaxWhole,     \* longest message given in one piece
          MaxUpdates,   \* pieces in another message
          Seeds

ASSUME XxhStreamAssumption == SmallSizes \cup Sizes \subseteq Nat

VARIABLES alg,      \* "XXH32", "XXH64" or "XXH3"
          s,        \* the state that the caller holds
          mode,     \* how it was reset last
          ok,       \* that reset returned XXH_OK
          total,    \* bytes given since then
          updates   \* in so many pieces

vars == <<alg, s, mode, ok, total, updates>>

Mode(api, secret, seed) == [api |-> api, secret |-> secret, seed |-> seed]
NoMode == Mode("none", NULL, 0)

Init == /\ alg \in {"XXH32", "XXH64", "XXH3"}
        /\ s = IF alg = "XXH3" THEN XXH3_createState ELSE NULL
        /\ mode = NoMode
        /\ ok = FALSE
        /\ total = 0
        /\ updates = 0

Restart(state, m, result) ==
    /\ s' = state
    /\ mode' = m
    /\ ok' = (result = "XXH_OK")
    /\ total' = 0
    /\ updates' = 0
    /\ UNCHANGED alg

ResetSmall(seed) ==
    \/ alg = "XXH32" /\ Restart(XXH32_reset(seed), Mode("seed", NULL, seed), "XXH_OK")
    \/ alg = "XXH64" /\ Restart(XXH64_reset(seed), Mode("seed", NULL, seed), "XXH_OK")

ResetDefault ==
    /\ alg = "XXH3"
    /\ Restart(XXH3_64bits_reset(s), Mode("default", NULL, 0), "XXH_OK")

ResetWithSeed(seed) ==
    /\ alg = "XXH3"
    /\ Restart(XXH3_64bits_reset_withSeed(s, seed), Mode("seed", NULL, seed), "XXH_OK")

\* The secret may be missing, or too short.
ResetWithSecret(secret, size) ==
    LET r == XXH3_64bits_reset_withSecret(s, secret, size)
    IN /\ alg = "XXH3"
       /\ Restart(r.state, Mode("secret", secret, 0), r.result)

ResetWithSecretandSeed(secret, size, seed) ==
    LET r == XXH3_64bits_reset_withSecretandSeed(s, secret, size, seed)
    IN /\ alg = "XXH3"
       /\ Restart(r.state, Mode("both", secret, seed), r.result)

Feed(n) ==
    /\ ok
    /\ s' = CASE alg = "XXH32" -> XXH32_update(s, Input(total, n), n)
              [] alg = "XXH64" -> XXH64_update(s, Input(total, n), n)
              [] alg = "XXH3" -> XXH3_update(s, Input(total, n), n)
    /\ total' = total + n
    /\ UNCHANGED <<alg, mode, ok>>

Update(n) ==
    /\ IF alg = "XXH3" THEN n \in Sizes /\ total + n <= MaxTotal
                       ELSE n \in SmallSizes /\ total + n <= SmallTotal
    /\ updates < MaxUpdates
    /\ Feed(n)
    /\ updates' = updates + 1

\* A message of any length, given in one piece.
UpdateWhole(n) ==
    /\ updates = 0
    /\ Feed(n)
    /\ updates' = MaxUpdates

Reset ==
    \/ \E seed \in Seeds : ResetSmall(seed) \/ ResetWithSeed(seed)
    \/ ResetDefault
    \/ \E secret \in {NULL, UserSecret}, size \in {XXH3_SECRET_SIZE_MIN - 1, UserSecretSize} :
         \/ ResetWithSecret(secret, size)
         \/ \E seed \in Seeds : ResetWithSecretandSeed(secret, size, seed)

Next == \/ Reset
        \/ \E n \in SmallSizes \cup Sizes : Update(n)
        \/ \E n \in 0 .. MaxWhole : UpdateWhole(n)

Spec == Init /\ [][Next]_vars
-----------------------------------------------------------------------------
\* The digests of the state, and the hashes of the whole message in one call.
Digests ==
    CASE alg = "XXH32" -> <<XXH32_digest(s)>>
      [] alg = "XXH64" -> <<XXH64_digest(s)>>
      [] alg = "XXH3" -> <<XXH3_64bits_digest(s), XXH3_128bits_digest(s)>>

OneShot(in, len) ==
    CASE alg = "XXH32" -> <<XXH32(in, len, mode.seed)>>
      [] alg = "XXH64" -> <<XXH64(in, len, mode.seed)>>
      [] alg = "XXH3" /\ mode.api = "default" -> <<XXH3_64bits(in, len), XXH3_128bits(in, len)>>
      [] alg = "XXH3" /\ mode.api = "seed" ->
           <<XXH3_64bits_withSeed(in, len, mode.seed), XXH3_128bits_withSeed(in, len, mode.seed)>>
      [] alg = "XXH3" /\ mode.api = "secret" ->
           <<XXH3_64bits_withSecret(in, len, mode.secret, UserSecretSize),
             XXH3_128bits_withSecret(in, len, mode.secret, UserSecretSize)>>
      [] alg = "XXH3" /\ mode.api = "both" ->
           <<XXH3_64bits_withSecretandSeed(in, len, mode.secret, UserSecretSize, mode.seed),
             XXH3_128bits_withSecretandSeed(in, len, mode.secret, UserSecretSize, mode.seed)>>

(***************************************************************************)
(* However the message is cut, and whatever the state was used for before, *)
(* the digest is the hash that the whole message has in one call.          *)
(***************************************************************************)
StreamEqualsOneShot == ok => Digests = OneShot(Input(0, total), total)

(***************************************************************************)
(* Every hash depends on every byte of the message, whichever way its      *)
(* length takes through the code, and on no byte that is not of it: none   *)
(* past the end of the input, none left over in a buffer.                  *)
(***************************************************************************)
EveryByteCounts ==
    LET digests == Digests
    IN ok => \A i \in DOMAIN digests : BytesOf(digests[i]) = 1 .. total

(***************************************************************************)
(* The update never writes past the buffer of the state, and every window  *)
(* into a secret, the one of the caller included, lies within it; a secret *)
(* that nobody supplied or derived is never used.                          *)
(***************************************************************************)
Windows(steps) == {steps[i] : i \in {j \in DOMAIN steps : steps[j].n > 0}}

StaysInBounds ==
    LET digests == Digests
    IN ok => /\ DOMAIN s.buffer = CASE alg = "XXH32" -> 0 .. 15
                                    [] alg = "XXH64" -> 0 .. 31
                                    [] alg = "XXH3" -> 0 .. XXH3_INTERNALBUFFER_SIZE - 1
             /\ \A i \in DOMAIN digests : \A w \in Windows(digests[i]) :
                   /\ w.secret \notin {NULL, Garbage}
                   /\ w.at >= 0 /\ w.at + w.n <= SecretSize(w.secret)

(***************************************************************************)
(* The variants that the build chooses between compute the same: the tail  *)
(* of XXH32 as a loop and as a switch, the middle lengths of XXH3 unrolled *)
(* and as the loop of XXH_SIZE_OPT.                                        *)
(***************************************************************************)
VariantsAgree ==
    LET in == Input(0, total)
    IN /\ (alg = "XXH32" /\ ok) =>
            XXH32_finalize(<<>>, s.buffer, 0, s.bufferedSize)
              = XXH32_finalize_switch(<<>>, s.buffer, 0, s.bufferedSize)
       /\ (alg = "XXH3" /\ total \in 17 .. 128) =>
            /\ XXH3_len_17to128_64b(in, total, XXH3_kSecret, mode.seed)
                 = Len17to128Loop(in, total, XXH3_kSecret, mode.seed)
            /\ XXH3_len_17to128_128b(in, total, XXH3_kSecret, mode.seed)
                 = Len17to128Loop128(in, total, XXH3_kSecret, mode.seed)

(***************************************************************************)
(* A generated secret of any size that the resets accept is scrambled to its    *)
(* last byte, within its bounds, and keeps every byte of a custom seed     *)
(* that is not longer than it: no part of either is left out.              *)
(***************************************************************************)
GeneratedSecretWhole ==
    alg = "XXH3" /\ mode.api = "default" /\ total <= MaxWhole =>
    \A customSeedSize \in {0, 1, 15, 16, 137, 200} :
        LET g == XXH3_generateSecret(UserSecret, total, UserSecret, customSeedSize)
        IN IF total < XXH3_SECRET_SIZE_MIN THEN g.result = "XXH_ERROR"
           ELSE /\ g.result = "XXH_OK"
                /\ DOMAIN g.secret = 0 .. total - 1
                /\ \A i \in 0 .. total - 1 : g.secret[i].mixed # <<>>
                /\ \A j \in 0 .. g.seedSize - 1 :
                     j < total => \E i \in 0 .. total - 1 : g.secret[i].from = j
=============================================================================
