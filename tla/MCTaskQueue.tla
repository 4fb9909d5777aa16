---------------------------- MODULE MCTaskQueue ----------------------------
(* A small instance of TaskQueue for TLC; the cfg gives the constants. *)
EXTENDS TaskQueue

=============================================================================
