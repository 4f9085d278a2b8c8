--------------------------- MODULE MCControlPlane ---------------------------
(* Small instances of ControlPlane for TLC. *)
EXTENDS ControlPlane, TLC

Symmetry == Permutations(Workers) \cup Permutations(UserIds)
=============================================================================
