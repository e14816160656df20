----------------------------- MODULE MCS3Writer -----------------------------
(***************************************************************************)
(* Instances of S3Writer for TLC.  The writers are interchangeable.        *)
(***************************************************************************)
EXTENDS S3Writer, TLC

Symmetry == Permutations(Writers)
=============================================================================
