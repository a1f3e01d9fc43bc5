---------------------------- MODULE MCXxhProduct ----------------------------
(***************************************************************************)
(* Bytes of one bit, and so words of eight.                                *)
(***************************************************************************)
EXTENDS XxhProduct

\* ^ of two bits and two bits.
XorPairs == <<<<0, 1, 2, 3>>, <<1, 0, 3, 2>>, <<2, 3, 0, 1>>, <<3, 2, 1, 0>>>>
Pairs(v, w, e) == e * XorPairs[1 + ((v \div e) % 4)][1 + ((w \div e) % 4)]
MCXor(v, w) == Pairs(v, w, 1) + Pairs(v, w, 4) + Pairs(v, w, 16) + Pairs(v, w, 64)
=============================================================================
