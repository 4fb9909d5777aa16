--------------------------- MODULE MCPipeHandshake ---------------------------
(* Small instances of PipeHandshake for TLC. *)
EXTENDS PipeHandshake

CONSTANTS c1, c2, c3, a, b

\* Two clients that share an id and a third of its own.
TwoShareAnId == [c \in Clients |-> IF c = c3 THEN b ELSE a]

\* An id for each of two clients.
OwnIds == [c \in Clients |-> IF c = c2 THEN b ELSE a]

=============================================================================
