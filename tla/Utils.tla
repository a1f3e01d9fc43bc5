------------------------------- MODULE Utils -------------------------------
(***************************************************************************)
(* main/utils.c.  A byte is a number of 0 .. 255, and so is a character.   *)
(***************************************************************************)
EXTENDS Integers, Sequences, SequencesExt

Byte == 0 .. 255
EINVAL == 22
NUL == 0

\* The character, or the error.
hex2char(x) ==
    IF x <= 9 THEN x + 48           \* '0'
    ELSE IF x <= 15 THEN x - 10 + 97    \* 'a'
    ELSE -EINVAL

\* Two characters for each byte, the high nibble first.  A nibble is never
\* above 15, so that hex2char has no error to return here.
HexDigits(buf) ==
    [k \in 1 .. 2 * Len(buf) |->
        LET b == buf[(k + 1) \div 2] IN hex2char(IF k % 2 = 1 THEN b \div 16 ELSE b % 16)]

\* Mutated form: the room for the terminator is not asked for.
Bin2hexUnterminated(buf, hexlen) ==
    IF hexlen < 2 * Len(buf) THEN [result |-> 0, hex |-> <<>>]
    ELSE [result |-> 2 * Len(buf), hex |-> Append(HexDigits(buf), NUL)]

\* The result, and what is written from hex[0] on.
bin2hex(buf, hexlen) ==
    IF hexlen < 2 * Len(buf) + 1 THEN [result |-> 0, hex |-> <<>>]
    ELSE [result |-> 2 * Len(buf), hex |-> Append(HexDigits(buf), NUL)]

\* How a reader of the string understands a digit of it.
Digit(c) == IF c \in 48 .. 57 THEN c - 48 ELSE IF c \in 97 .. 102 THEN c - 87 ELSE -EINVAL

\* The bytes of a string of digits, up to its terminator.
Bytes(hex) == [i \in 1 .. (Len(hex) - 1) \div 2 |-> 16 * Digit(hex[2 * i - 1]) + Digit(hex[2 * i])]

(***************************************************************************)
(* Whatever the bytes and the room there is for their digits: bin2hex      *)
(* writes nothing or a string that ends within that room, reads back as    *)
(* the same bytes and has the length that was returned.                    *)
(***************************************************************************)
HexReadsBack(bufs, rooms) ==
    \A buf \in bufs, hexlen \in rooms :
        LET r == bin2hex(buf, hexlen)
        IN IF r.result = 0
           THEN r.hex = <<>> \/ (buf = <<>> /\ r.hex = <<NUL>>)
           ELSE /\ Len(r.hex) <= hexlen
                /\ Len(r.hex) = r.result + 1
                /\ Last(r.hex) = NUL
                /\ NUL \notin ToSet(Front(r.hex))
                /\ Bytes(r.hex) = buf
=============================================================================
