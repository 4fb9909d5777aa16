---------------------------- MODULE MCAdvChardev ----------------------------
(* Small instances of AdvChardev for TLC. *)
EXTENDS AdvChardev

=============================================================================
