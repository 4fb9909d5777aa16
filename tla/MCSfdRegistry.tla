---------------------------- MODULE MCSfdRegistry ----------------------------
(* Small instances of SfdRegistry for TLC. *)
EXTENDS SfdRegistry, TLC

Symmetry == Permutations(Handles)

=============================================================================
