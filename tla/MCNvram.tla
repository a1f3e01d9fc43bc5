------------------------------ MODULE MCNvram ------------------------------
(***************************************************************************)
(* Nvram for TLC.  The tasks are interchangeable.                          *)
(***************************************************************************)
EXTENDS NvramRefinement, TLC

TaskSymmetry == Permutations(Tasks)
=============================================================================
