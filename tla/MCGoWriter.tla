---------------------------- MODULE MCGoWriter ----------------------------
(***************************************************************************)
(* Instances of GoWriter for TLC.  The writers are interchangeable.        *)
(***************************************************************************)
EXTENDS GoWriter, TLC

Symmetry == Permutations(Writers)
=============================================================================
