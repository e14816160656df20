----------------------------- MODULE MCPreload -----------------------------
(***************************************************************************)
(* Instances of Preload for TLC.  The requests of a kind are               *)
(* interchangeable where no liveness is checked; the documents are not,    *)
(* being taken in order.                                                   *)
(***************************************************************************)
EXTENDS PreloadInv, TLC

Symmetry == Permutations(PreLoads)

(* Below, at and above what is there; the cap and a nonsensical value. *)
AllTargets == {-1, 0, 1, 3}
=============================================================================
