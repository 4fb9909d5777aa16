--------------------------- MODULE CommandService ---------------------------
(***************************************************************************)
(* What send_command_blocking promises its caller: a call that is made ends *)
(* at most once, and it ends with "accepted" only when the peer has already *)
(* run the command's handlers.  A call that ends in any other way says      *)
(* nothing about the peer, which may run the command before or after.       *)
(***************************************************************************)
CONSTANT Calls

VARIABLES
    outcome,    \* how each call ended, or "none" or "pending"
    executed    \* the calls whose command the peer has run

vars == <<outcome, executed>>

Endings == {"accepted", "rejected", "send_failed", "timeout", "error"}

Init ==
    /\ outcome = [c \in Calls |-> "none"]
    /\ executed = {}

Begin(c) ==
    /\ outcome[c] = "none"
    /\ outcome' = [outcome EXCEPT ![c] = "pending"]
    /\ UNCHANGED executed

\* A call whose sequence number is in use fails at once, with an exception.
Throw(c) ==
    /\ outcome[c] = "none"
    /\ outcome' = [outcome EXCEPT ![c] = "error"]
    /\ UNCHANGED executed

Execute(c) ==
    /\ outcome[c] # "none"
    /\ executed' = executed \cup {c}
    /\ UNCHANGED outcome

End(c) ==
    /\ outcome[c] = "pending"
    /\ \E r \in Endings \ {"error"} :
        /\ r = "accepted" => c \in executed
        /\ outcome' = [outcome EXCEPT ![c] = r]
    /\ UNCHANGED executed

Next == \E c \in Calls : Begin(c) \/ Throw(c) \/ Execute(c) \/ End(c)

Spec == Init /\ [][Next]_vars

=============================================================================
