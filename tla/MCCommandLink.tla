---------------------------- MODULE MCCommandLink ----------------------------
(* Small instances of CommandLink for TLC. *)
EXTENDS CommandLink, TLC

CONSTANTS c1, c2

\* Each call has its own sequence number.
OwnSeq == (c1 :> 1) @@ (c2 :> 2)

\* Both calls use the same sequence number.
SharedSeq == (c1 :> 1) @@ (c2 :> 1)

=============================================================================
