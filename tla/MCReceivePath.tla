--------------------------- MODULE MCReceivePath ---------------------------
(* Small instances of ReceivePath for TLC. *)
EXTENDS ReceivePath, TLC

Frame(sys, comp, msg, seq, payload) ==
    [pkt |-> [magic |-> 90, version |-> 1, sys |-> sys, comp |-> comp,
              msg |-> msg, seq |-> seq, payload |-> payload],
     fault |-> "none"]

\* A command, its ACK, a long payload, foreign frames with and without a
\* payload, a frame altered on its way, and noise.
Traffic ==
    { Frame(2, 1, 1, 511, <<90, 7>>),
      Frame(2, 1, 255, 3, <<1, 0, 255, 1, 0>>),
      Frame(2, 3, 770, 0, [i \in 1..6 |-> 255]),
      Frame(5, 1, 1, 4, <<1, 2, 3>>),
      Frame(5, 0, 9, 5, <<>>),
      Frame(7, 1, 2, 6, <<8>>),
      [Frame(2, 1, 1, 9, <<4>>) EXCEPT !.fault = "checksum"],
      [Frame(2, 1, 1, 9, <<0, 1>>) EXCEPT !.fault = "noise"] }

\* The gateway's table, and a rule for an interface that does not exist.
GatewayRoutes == (<<5, 0>> :> 1) @@ (<<7, 1>> :> 2)

\* The workers are interchangeable.
Symmetry == Permutations(Workers)

\* Two commands without a payload.
Commands == {Frame(2, 1, 1, 1, <<>>), Frame(2, 1, 1, 2, <<>>)}

\* The traffic of the paced run is traffic as ReceivePathProofs assumes it.
ASSUME PacedIsWellFormed == Paced => WellFormed

=============================================================================
