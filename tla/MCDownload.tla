----------------------------- MODULE MCDownload -----------------------------
(***************************************************************************)
(* Download for TLC.                                                       *)
(***************************************************************************)
EXTENDS Download, TLC

\* Addresses that differ in their first byte, in their last, and in a bit
\* that is a sign if characters are signed.
MCMac(d) == CASE d = "d1" -> <<36, 111, 40, 0, 17, 9>>
              [] d = "d2" -> <<36, 111, 40, 0, 17, 137>>
              [] d = "d3" -> <<160, 111, 40, 0, 17, 9>>
MCEthMac(d) == [MCMac(d) EXCEPT ![6] = (@ + 3) % 256]

\* Hashes that differ in the low word only, and in both; and whose bytes sort
\* differently from either end.
MCHash(mac) ==
    [high64 |-> <<mac[1], 0, 255, 16, 1, 0, 10, 171>>,
     low64 |-> <<15, 240, mac[6], 0, 9, 255 - mac[6], 1, 255 - mac[1]>>]

MCLengths == {-1, 5}
TaskSymmetry == Permutations(Tasks)
AllBytes == {<<b>> : b \in Byte} \cup {<<>>, <<0, 255>>, <<160, 9, 16>>}

(***************************************************************************)
(* The string that bin2hex makes of any byte reads back as that byte, and  *)
(* lies within the room it was given (utils.c).  It depends on no state,   *)
(* and is looked at while the device is off.                               *)
(***************************************************************************)
HexStringsReadBack == ~up => HexReadsBack(AllBytes, 0 .. 8)
=============================================================================
