------------------------------- MODULE Xxh64 -------------------------------
(***************************************************************************)
(* xxhash.h: XXH64, in one call and as a stream.  Unlike XXH32 it decides  *)
(* by a 64-bit length, which does not overflow, and its digest takes the   *)
(* number of buffered bytes from that length.                              *)
(***************************************************************************)
EXTENDS XxhMemory

\* The four lanes before the first stripe; lane 2 is the seed itself.
XXH64_initAccs(seed) == <<Step("initAccs", <<>>, NULL, 0, 0, seed)>>
XXH64_lane2(acc) == IF Len(acc) = 1 THEN acc[1].seed ELSE OutOfBounds

XXH64_round(in, at) == Mix("round", XXH_readLE64(in, at))

\* A stripe of 32 bytes, a word for each lane, while input is less than
\* bEnd - 31: all the whole stripes there are, at least one.
XXH64_consumeLong(acc, in, from, len) ==
    LET stripes == Max({1, len \div 32})
    IN [acc |-> acc \o [i \in 1 .. 4 * stripes |-> XXH64_round(in, from + 8 * (i - 1))],
        input |-> from + 32 * stripes]

XXH64_mergeRound(i) == Step("mergeRound", <<>>, NULL, i, 0, 0)
XXH64_mergeAccs(acc) ==
    Append(acc, Mix("rotate", <<>>)) \o [i \in 1 .. 4 |-> XXH64_mergeRound(i - 1)]

XXH64_short(seed) == <<Step("seed + PRIME5", <<>>, NULL, 0, 0, seed)>>
XXH64_addLen(hash, len) == Append(hash, Step("len", <<>>, NULL, len, 0, 0))
XXH64_avalanche(hash) == Append(hash, Mix("avalanche", <<>>))

\* Words of eight bytes, then at most one of four, then bytes.
XXH64_finalize(hash, in, at, len) ==
    LET words == (len % 32) \div 8
        half  == ((len % 32) % 8) \div 4
        rest  == ((len % 32) % 8) % 4
        tail  == at + 8 * words + 4 * half
    IN XXH64_avalanche(hash
         \o [i \in 1 .. words |-> Mix("process8", XXH_readLE64(in, at + 8 * (i - 1)))]
         \o [i \in 1 .. half |-> Mix("process4", XXH_readLE32(in, at + 8 * words))]
         \o [i \in 1 .. rest |-> Mix("process1", Bytes(in, tail + i - 1, 1))])

\* XXH64 of the len bytes at the beginning of in.
XXH64(in, len, seed) ==
    LET long == XXH64_consumeLong(XXH64_initAccs(seed), in, 0, len)
    IN IF len >= 32
       THEN XXH64_finalize(XXH64_addLen(XXH64_mergeAccs(long.acc), len), in, long.input, len)
       ELSE XXH64_finalize(XXH64_addLen(XXH64_short(seed), len), in, 0, len)
-----------------------------------------------------------------------------
XXH64_reset(seed) ==
    [total_len |-> 0, acc |-> XXH64_initAccs(seed), buffer |-> Buffer(32), bufferedSize |-> 0]

\* The buffer is completed and consumed.
ConsumeBuffer64(s, in) ==
    LET buffer == XXH_memcpy(s.buffer, s.bufferedSize, in, 0, 32 - s.bufferedSize)
    IN [s EXCEPT !.buffer = buffer, !.bufferedSize = 0,
                 !.acc = XXH64_consumeLong(@, buffer, 0, 32).acc]

\* Whole stripes are consumed, what is left goes to the buffer.
ConsumeInput64(s, in, xinput, len) ==
    LET long == XXH64_consumeLong(s.acc, in, xinput, len - xinput)
        end  == IF len - xinput >= 32 THEN long.input ELSE xinput
    IN [s EXCEPT !.acc = IF len - xinput >= 32 THEN long.acc ELSE @,
                 !.buffer = XXH_memcpy(@, 0, in, end, len - end),
                 !.bufferedSize = IF end < len THEN len - end ELSE @]

XXH64_update(state, in, len) ==
    LET s == [state EXCEPT !.total_len = @ + len]
    IN IF len < 32 - s.bufferedSize
       THEN [s EXCEPT !.buffer = XXH_memcpy(@, s.bufferedSize, in, 0, len),
                      !.bufferedSize = @ + len]
       ELSE IF s.bufferedSize > 0
       THEN ConsumeInput64(ConsumeBuffer64(s, in), in, 32 - s.bufferedSize, len)
       ELSE ConsumeInput64(s, in, 0, len)

XXH64_digest(s) ==
    LET hash == IF s.total_len >= 32
                THEN XXH64_mergeAccs(s.acc) ELSE XXH64_short(XXH64_lane2(s.acc))
    IN XXH64_finalize(XXH64_addLen(hash, s.total_len), s.buffer, 0, s.total_len)
=============================================================================
