---------------------------- MODULE MCPyWriter ----------------------------
(***************************************************************************)
(* Instances of PyWriter for TLC.  The writers are interchangeable.        *)
(***************************************************************************)
EXTENDS PyWriter, TLC

Symmetry == Permutations(Writers)
=============================================================================
