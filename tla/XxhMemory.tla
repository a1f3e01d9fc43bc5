----------------------------- MODULE XxhMemory -----------------------------
(***************************************************************************)
(* xxhash.h: what the hash functions of the library do to memory.  The     *)
(* arithmetic of the rounds is abstracted: a hash is the sequence of its   *)
(* mixing steps, and a step names the bytes of the input and the bytes of  *)
(* the secret that the code feeds to it.  Two equal sequences are two      *)
(* equal hashes.                                                           *)
(*                                                                         *)
(* A byte of the message is its position, counted from 1.  Stale is a byte *)
(* that is not of the message (zeroed or left over), OutOfBounds one that  *)
(* is read past the end of an object.                                      *)
(***************************************************************************)
EXTENDS Integers, Sequences, SequencesExt

Stale == 0
OutOfBounds == -1

\* An object in memory is a function from its offsets.  The input of a call
\* holds the bytes first + 1 .. first + len of the message.
Input(first, len) == [i \in 0 .. len - 1 |-> first + i + 1]
Buffer(size) == [i \in 0 .. size - 1 |-> Stale]

Bytes(mem, at, n) ==
    [i \in 1 .. n |-> IF at + i - 1 \in DOMAIN mem THEN mem[at + i - 1] ELSE OutOfBounds]

\* A write past the end of dst makes dst larger than its type allows.
XXH_memcpy(dst, to, src, from, n) ==
    [i \in DOMAIN dst \cup (to .. to + n - 1) |->
        IF i \in to .. to + n - 1 THEN Bytes(src, from + i - to, 1)[1] ELSE dst[i]]

\* The little-endian reads: a word is the sequence of its bytes.
XXH_readLE32(mem, at) == Bytes(mem, at, 4)
XXH_readLE64(mem, at) == Bytes(mem, at, 8)

\* A secret is known by its origin, so that a stale one shows; the n bytes
\* at offset `at` are the window a step reads.  XXH32 and XXH64 use none.
NULL == <<"NULL", 0>>
Step(op, bytes, secret, at, n, seed) ==
    [op |-> op, bytes |-> bytes, secret |-> secret, at |-> at, n |-> n, seed |-> seed]
Mix(op, bytes) == Step(op, bytes, NULL, 0, 0, 0)

\* Runs of n steps each, one after the other.
Chain(runs, n) ==
    [i \in 1 .. n * Len(runs) |-> runs[1 + ((i - 1) \div n)][1 + ((i - 1) % n)]]

BytesOf(steps) == UNION {ToSet(steps[i].bytes) : i \in DOMAIN steps}
=============================================================================
