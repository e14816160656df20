----------------------------- MODULE MCOpendal -----------------------------
(***************************************************************************)
(* Instances of OpendalReader for TLC.                                     *)
(***************************************************************************)
EXTENDS OpendalReaderInv, OpendalStore, TLC

Symmetry == Permutations(Writers)
=============================================================================
