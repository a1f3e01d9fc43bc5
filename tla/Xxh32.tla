------------------------------- MODULE Xxh32 -------------------------------
(***************************************************************************)
(* xxhash.h: XXH32, in one call and as a stream.                           *)
(***************************************************************************)
EXTENDS XxhMemory

CONSTANT TotalLenMod    \* 2^32: total_len_32 is a 32-bit counter

ASSUME Xxh32Assumption == TotalLenMod \in Nat /\ TotalLenMod >= 32

\* The four lanes before the first stripe; lane 2 is the seed itself.
XXH32_initAccs(seed) == <<Step("initAccs", <<>>, NULL, 0, 0, seed)>>
XXH32_lane2(acc) == IF Len(acc) = 1 THEN acc[1].seed ELSE OutOfBounds

XXH32_round(in, at) == Mix("round", XXH_readLE32(in, at))

\* Mutated form: the limit is 16 bytes before the end.
ConsumeLongLimit16(acc, in, from, len) ==
    LET stripes == Max({1, (len - 1) \div 16})
    IN [acc |-> acc \o [i \in 1 .. 4 * stripes |-> XXH32_round(in, from + 4 * (i - 1))],
        input |-> from + 16 * stripes]

\* A stripe of 16 bytes, a word for each lane, while input is less than
\* bEnd - 15: all the whole stripes there are, at least one.
XXH32_consumeLong(acc, in, from, len) ==
    LET stripes == Max({1, len \div 16})
    IN [acc |-> acc \o [i \in 1 .. 4 * stripes |-> XXH32_round(in, from + 4 * (i - 1))],
        input |-> from + 16 * stripes]

XXH32_mergeAccs(acc) == Append(acc, Mix("mergeAccs", <<>>))
XXH32_short(seed) == <<Step("seed + PRIME5", <<>>, NULL, 0, 0, seed)>>
XXH32_addLen(hash, len) == Append(hash, Step("len", <<>>, NULL, len, 0, 0))
XXH32_avalanche(hash) == Append(hash, Mix("avalanche", <<>>))

XXH_PROCESS1(in, at) == Mix("process1", Bytes(in, at, 1))
XXH_PROCESS4(in, at) == Mix("process4", XXH_readLE32(in, at))

\* `words` words and then `rest` bytes.
ProcessTail(hash, in, at, words, rest) ==
    XXH32_avalanche(hash \o [i \in 1 .. words |-> XXH_PROCESS4(in, at + 4 * (i - 1))]
                         \o [i \in 1 .. rest |-> XXH_PROCESS1(in, at + 4 * words + i - 1)])

\* The rerolled form: words while four bytes are left, then bytes.
XXH32_finalize(hash, in, at, len) ==
    ProcessTail(hash, in, at, (len % 16) \div 4, (len % 16) % 4)

\* Mutated form: the last two cases of a chain are exchanged.
ChainsExchanged == <<<<12, 8, 4>>, <<13, 9, 5>>, <<14, 10, 6>>, <<15, 7, 11>>>>

\* The form with the switch (XXH32_ENDJMP): the chains of its cases that fall
\* through PROCESS4, each with the number of PROCESS1 at its end.
Chains == <<<<12, 8, 4>>, <<13, 9, 5>>, <<14, 10, 6>>, <<15, 11, 7>>>>
XXH32_finalize_switch(hash, in, at, len) ==
    LET words == {w \in (1 .. 4) \X (1 .. 3) : Chains[w[1]][w[2]] = len % 16}
    IN IF words = {} THEN ProcessTail(hash, in, at, 0, len % 16)
       ELSE LET w == CHOOSE w \in words : TRUE
            IN ProcessTail(hash, in, at, 4 - w[2], w[1] - 1)

\* XXH32 of the len bytes at the beginning of in.
XXH32(in, len, seed) ==
    LET long == XXH32_consumeLong(XXH32_initAccs(seed), in, 0, len)
    IN IF len >= 16
       THEN XXH32_finalize(XXH32_addLen(XXH32_mergeAccs(long.acc), len % TotalLenMod),
                           in, long.input, len % 16)
       ELSE XXH32_finalize(XXH32_addLen(XXH32_short(seed), len % TotalLenMod), in, 0, len % 16)
-----------------------------------------------------------------------------
XXH32_reset(seed) ==
    [total_len_32 |-> 0, large_len |-> FALSE, acc |-> XXH32_initAccs(seed),
     buffer |-> Buffer(16), bufferedSize |-> 0]

\* Mutated form: large_len follows the counter, which overflows.
CountLenByCounter(s, len) ==
    LET total == (s.total_len_32 + len) % TotalLenMod
    IN [s EXCEPT !.total_len_32 = total, !.large_len = len >= 16 \/ total >= 16]

CountLen(s, len) ==
    LET total == (s.total_len_32 + len) % TotalLenMod
    IN [s EXCEPT !.total_len_32 = total,
                 !.large_len = @ \/ len >= 16 \/ total >= 16]

\* The buffer is completed and consumed.
ConsumeBuffer32(s, in) ==
    LET buffer == XXH_memcpy(s.buffer, s.bufferedSize, in, 0, 16 - s.bufferedSize)
    IN [s EXCEPT !.buffer = buffer, !.bufferedSize = 0,
                 !.acc = XXH32_consumeLong(@, buffer, 0, 16).acc]

\* Whole stripes are consumed, what is left goes to the buffer.
ConsumeInput32(s, in, xinput, len) ==
    LET long == XXH32_consumeLong(s.acc, in, xinput, len - xinput)
        end  == IF len - xinput >= 16 THEN long.input ELSE xinput
    IN [s EXCEPT !.acc = IF len - xinput >= 16 THEN long.acc ELSE @,
                 !.buffer = XXH_memcpy(@, 0, in, end, len - end),
                 !.bufferedSize = IF end < len THEN len - end ELSE @]

XXH32_update(state, in, len) ==
    LET s == CountLen(state, len)
    IN IF len < 16 - s.bufferedSize
       THEN [s EXCEPT !.buffer = XXH_memcpy(@, s.bufferedSize, in, 0, len),
                      !.bufferedSize = @ + len]
       ELSE IF s.bufferedSize > 0
       THEN ConsumeInput32(ConsumeBuffer32(s, in), in, 16 - s.bufferedSize, len)
       ELSE ConsumeInput32(s, in, 0, len)

XXH32_digest(s) ==
    LET hash == IF s.large_len THEN XXH32_mergeAccs(s.acc) ELSE XXH32_short(XXH32_lane2(s.acc))
    IN XXH32_finalize(XXH32_addLen(hash, s.total_len_32), s.buffer, 0, s.bufferedSize)
=============================================================================
