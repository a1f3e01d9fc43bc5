--------------------------- MODULE MCNvramReaders ---------------------------
(***************************************************************************)
(* NvramReaders for TLC.                                                   *)
(***************************************************************************)
EXTENDS NvramReaders
=============================================================================
