------------------------------- MODULE MCBst -------------------------------
(***************************************************************************)
(* Instances of Bst for TLC.  Shells, puts and locations are               *)
(* interchangeable.                                                        *)
(***************************************************************************)
EXTENDS Bst, TLC

Symmetry ==
  Permutations(Clients) \cup Permutations(Ids) \cup Permutations(Locations)
=============================================================================
