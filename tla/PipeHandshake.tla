---------------------------- MODULE PipeHandshake ----------------------------
(***************************************************************************)
(* Registration over named pipes: the acceptor thread of PipeServer         *)
(* (accept_client) and the clients inside request_and_switch_pipe, which    *)
(* meet on the two request FIFOs that all of them share, and then on two    *)
(* private FIFOs per client id.  Server and clients run in the mode the     *)
(* tests use: Feedback and CheckLose are set.                               *)
(*                                                                         *)
(* open() of a FIFO blocks until the other end is open too; who holds an    *)
(* end of the request FIFOs follows from where it is in its code.  A FIFO   *)
(* loses its contents when nobody holds it.  A write to a FIFO without a    *)
(* reader raises SIGPIPE, which nobody handles.                             *)
(***************************************************************************)
EXTENDS Naturals, Sequences, FiniteSets

CONSTANTS
    Clients,    \* the client processes
    Ids,        \* client ids, which name the private FIFOs
    IdOf,       \* the id each client was given
    Server,     \* stands for the acceptor in met, and for "no client"
    StopId,     \* the id that stops the server ("client_alpha_9999")
    MaxOverlaps, \* how many requests begin while another is under way
    MaxDeaths   \* how many clients die during a request

ASSUME HandshakeAssumption ==
    /\ IdOf \in [Clients -> Ids]
    /\ Server \notin Clients
    /\ MaxOverlaps \in Nat
    /\ MaxDeaths \in Nat

VARIABLES
    apc,        \* where the acceptor is in accept_client
    running,    \* _server_running
    req,        \* the request the acceptor is serving
    sessions,   \* the ids in _client_registry
    owner,      \* history: the client whose request made each session
    lapsed,     \* history: clients whose session ended by heartbeat timeout
    made,       \* ids whose private FIFOs exist
    overlaps,   \* history: requests begun while another was under way, in its
                \* client or in the acceptor
    cpc,        \* where each client is
    cmd,        \* the command of its last request: 1 opens, 2 removes
    seq,        \* _current_seq
    met,        \* those whose blocked open() has met its counterpart
    upQ,        \* contents of the upstream request FIFO
    downQ       \* contents of the downstream request FIFO

vars == <<apc, running, req, sessions, owner, lapsed, made, overlaps, cpc, cmd, seq,
          met, upQ, downQ>>

Requests == [from : Clients \cup {Server}, cmd : {1, 2}, seq : {0, 1}]
Answers == [ans : {"OPENED", "REJECTED", "REMOVED"}, seq : {0, 1}]

\* Stages of request_and_switch_pipe.
Asking == {"openUp", "reopenUp", "openDown", "send", "await", "openPrivUp",
           "openPrivDown"}

TypeOK ==
    /\ apc \in {"pause", "openUp", "openDown", "read", "decide", "create",
                "openPrivRead", "openPrivWrite", "register", "leave", "killed"}
    /\ running \in BOOLEAN
    /\ req \in Requests
    /\ sessions \subseteq Ids
    /\ owner \in [Ids -> Clients \cup {Server}]
    /\ lapsed \subseteq Clients
    /\ made \subseteq Ids
    /\ overlaps \in Nat
    /\ cpc \in [Clients -> Asking \cup {"out", "joined", "unswitched", "refused",
                                        "rejected", "gone", "killed"}]
    /\ cmd \in [Clients -> {1, 2}]
    /\ seq \in [Clients -> {0, 1}]
    /\ met \subseteq Clients \cup {Server}
    /\ upQ \in Seq(Requests)
    /\ downQ \in Seq(Answers)

Init ==
    /\ apc = "pause"
    /\ running = TRUE
    /\ req = [from |-> Server, cmd |-> 1, seq |-> 0]
    /\ sessions = {}
    /\ owner = [i \in Ids |-> Server]
    /\ lapsed = {}
    /\ made = {}
    /\ overlaps = 0
    /\ cpc = [c \in Clients |-> "out"]
    /\ cmd = [c \in Clients |-> 1]
    /\ seq = [c \in Clients |-> 0]
    /\ met = {}
    /\ upQ = <<>>
    /\ downQ = <<>>

-----------------------------------------------------------------------------
(* Who holds which end of the request FIFOs.  A call that is blocked in      *)
(* open() holds its end already.  A request that failed leaves both open.    *)

AcceptorUp == apc \notin {"pause", "killed"}
AcceptorDown == apc \notin {"pause", "killed", "openUp"}

StuckOnMain == {"unswitched", "refused", "rejected"}
HoldsUp(pc) == pc \in (Asking \ {"openPrivDown"}) \cup StuckOnMain
HoldsDown(pc) == pc \in (Asking \ {"openUp"}) \cup StuckOnMain

ClientsUp == {c \in Clients : HoldsUp(cpc[c])}
ClientsDown == {c \in Clients : HoldsDown(cpc[c])}
At(stage) == {c \in Clients : cpc[c] = stage}
OpeningUp == At("openUp") \cup At("reopenUp")

Id == IdOf[req.from]

-----------------------------------------------------------------------------
(* The client *)

\* The client moves on.  What it held and nobody else holds is emptied, and
\* an open() that finds its counterpart has met it at once.
Goto(c, pc, counterpart) ==
    /\ cpc' = [cpc EXCEPT ![c] = pc]
    /\ met' = IF counterpart THEN met \cup {c} ELSE met \ {c}

Emptied(c, pc, down) ==
    /\ upQ' = IF AcceptorUp \/ HoldsUp(pc) \/ ClientsUp \ {c} # {} THEN upQ ELSE <<>>
    /\ downQ' = IF AcceptorDown \/ HoldsDown(pc) \/ ClientsDown \ {c} # {} THEN down
                                                                          ELSE <<>>

serverVars == <<apc, running, req, sessions, owner, lapsed, made>>
others == <<serverVars, overlaps, cmd, seq>>

\* No request is under way: no client is inside one, and the acceptor is back
\* from the last.
Quiet == apc \in {"pause", "openUp"} /\ \A c \in Clients : cpc[c] \notin Asking

\* A request begins: request_and_switch_pipe(1), or the destructor's (2).  It
\* waits for nobody, and cannot see whether the acceptor is back from the last.
Request(c, command) ==
    /\ \/ command = 1 /\ cpc[c] = "out"
       \/ command = 2 /\ cpc[c] \in {"out", "joined"} \cup StuckOnMain
    /\ Quiet \/ overlaps < MaxOverlaps
    /\ overlaps' = IF Quiet THEN overlaps ELSE overlaps + 1
    /\ cmd' = [cmd EXCEPT ![c] = command]
    /\ Goto(c, IF cpc[c] \in StuckOnMain THEN "reopenUp" ELSE "openUp", AcceptorUp)
    /\ UNCHANGED <<serverVars, seq, upQ, downQ>>

OpenUp(c) ==
    /\ c \in OpeningUp
    /\ c \in met
    /\ Goto(c, "openDown", AcceptorDown)
    /\ UNCHANGED <<others, upQ, downQ>>

OpenDown(c) ==
    /\ cpc[c] = "openDown"
    /\ c \in met
    /\ Goto(c, "send", FALSE)
    /\ UNCHANGED <<others, upQ, downQ>>

\* send_packet: one writev, which is atomic.
Send(c) ==
    /\ cpc[c] = "send"
    /\ IF AcceptorUp
       THEN /\ upQ' = Append(upQ, [from |-> c, cmd |-> cmd[c], seq |-> seq[c]])
            /\ Goto(c, "await", FALSE)
            /\ UNCHANGED downQ
       ELSE /\ Goto(c, "killed", FALSE)
            /\ Emptied(c, "killed", downQ)
    /\ UNCHANGED others

\* A destructor that returns ends the client.
Ended(c, pc) == IF cmd[c] = 2 THEN "gone" ELSE pc

PrivateReader(i) == i \in sessions \/ (apc \in {"openPrivWrite", "register"} /\ Id = i)

\* receive_packet: any reader may take an answer, and an answer is recognised
\* by its text and its sequence number only.  At the end of file, when the
\* server has closed its end, it returns false.  REJECTED throws, and a throw
\* of the destructor ends the process.
Receive(c) ==
    /\ cpc[c] = "await"
    /\ downQ # <<>> \/ ~AcceptorDown
    /\ LET answer(text) == downQ # <<>> /\ Head(downQ).ans = text
           end == CASE answer("REJECTED") -> Ended(c, "rejected")
                    [] answer("REMOVED") -> Ended(c, "unswitched")
                    [] answer("OPENED") /\ Head(downQ).seq = seq[c] -> "openPrivUp"
                    [] OTHER -> Ended(c, "refused")
       IN  /\ Goto(c, end, PrivateReader(IdOf[c]))
           /\ Emptied(c, end, IF downQ = <<>> THEN <<>> ELSE Tail(downQ))
    /\ UNCHANGED others

\* Mutant of OpenPrivUp: the client opens only the FIFO it writes to.
OpenPrivUp_Only(c) ==
    /\ cpc[c] = "openPrivUp"
    /\ IdOf[c] \in made => c \in met
    /\ Goto(c, Ended(c, "joined"), FALSE)
    /\ Emptied(c, Ended(c, "joined"), downQ)
    /\ UNCHANGED others

\* open() of the private FIFOs: an error when they do not exist, and the
\* client goes on with invalid descriptors.
OpenPrivUp(c) ==
    /\ cpc[c] = "openPrivUp"
    /\ IdOf[c] \in made => c \in met
    /\ LET pc   == IF IdOf[c] \in made THEN "openPrivDown" ELSE Ended(c, "joined")
           here == apc = "openPrivWrite" /\ Id = IdOf[c]
       IN  /\ cpc' = [cpc EXCEPT ![c] = pc]
           /\ met' = IF here THEN met \cup {c, Server}
                     ELSE IF PrivateReader(IdOf[c]) THEN met \cup {c} ELSE met \ {c}
           /\ Emptied(c, pc, downQ)
    /\ UNCHANGED others

OpenPrivDown(c) ==
    /\ cpc[c] = "openPrivDown"
    /\ c \in met
    /\ Goto(c, Ended(c, "joined"), FALSE)
    /\ Emptied(c, Ended(c, "joined"), downQ)
    /\ UNCHANGED others

\* The caller does not catch "Request failed": the process terminates.
Terminate(c) ==
    /\ cpc[c] = "rejected"
    /\ Goto(c, "gone", FALSE)
    /\ Emptied(c, "gone", downQ)
    /\ UNCHANGED others

\* push_data and push_heartbeat count.
Push(c) ==
    /\ cpc[c] = "joined"
    /\ seq[c] = 0
    /\ seq' = [seq EXCEPT ![c] = 1]
    /\ UNCHANGED <<serverVars, overlaps, cpc, cmd, met, upQ, downQ>>

\* The client process dies during a request.
Crash(c) ==
    /\ Cardinality(At("killed")) < MaxDeaths
    /\ cpc[c] \in Asking
    /\ Goto(c, "killed", FALSE)
    /\ Emptied(c, "killed", downQ)
    /\ UNCHANGED others

-----------------------------------------------------------------------------
(* The acceptor *)

\* accept_client ends: both ends of the request FIFOs are closed.
Return ==
    /\ apc' = "pause"
    /\ upQ' = IF ClientsUp = {} THEN <<>> ELSE upQ
    /\ downQ' = IF ClientsDown = {} THEN <<>> ELSE downQ

clientVars == <<overlaps, cpc, cmd, seq>>

\* Mutant of Accept: the downstream FIFO is opened first.
Accept_DownFirst ==
    /\ apc = "pause"
    /\ running
    /\ apc' = "openDown"
    /\ met' = met \cup At("openDown")
    /\ UNCHANGED <<running, req, sessions, owner, lapsed, made, clientVars, upQ, downQ>>

\* while (_server_running): open(_upstream_path, O_RDONLY) begins.
Accept ==
    /\ apc = "pause"
    /\ running
    /\ apc' = "openUp"
    /\ met' = met \cup OpeningUp
    /\ UNCHANGED <<running, req, sessions, owner, lapsed, made, clientVars, upQ, downQ>>

\* It returns, and open(_downstream_path, O_WRONLY) begins.
AcceptUp ==
    /\ apc = "openUp"
    /\ ClientsUp # {}
    /\ apc' = "openDown"
    /\ met' = met \cup At("openDown")
    /\ UNCHANGED <<running, req, sessions, owner, lapsed, made, clientVars, upQ, downQ>>

AcceptDown ==
    /\ apc = "openDown"
    /\ ClientsDown # {}
    /\ apc' = "read"
    /\ UNCHANGED <<running, req, sessions, owner, lapsed, made, clientVars, met, upQ, downQ>>

\* receive_packet takes one request.
ReadRequest ==
    /\ apc = "read"
    /\ upQ # <<>>
    /\ req' = Head(upQ)
    /\ upQ' = Tail(upQ)
    /\ apc' = "decide"
    /\ UNCHANGED <<running, sessions, owner, lapsed, made, clientVars, met, downQ>>

\* Mutant of ReadEof: an empty FIFO counts as the end of file.
ReadEof_NonBlocking ==
    /\ apc = "read"
    /\ upQ = <<>>
    /\ Return
    /\ UNCHANGED <<running, req, sessions, owner, lapsed, made, clientVars, met>>

\* receive_packet returns false: every writer is gone.
ReadEof ==
    /\ apc = "read"
    /\ upQ = <<>>
    /\ ClientsUp = {}
    /\ Return
    /\ UNCHANGED <<running, req, sessions, owner, lapsed, made, clientVars, met>>

\* Mutant of Answer: the answer is sent twice.
Answer_Twice(text, next) ==
    LET packet == [ans |-> text, seq |-> req.seq]
    IN  /\ downQ' = downQ \o <<packet, packet>>
        /\ apc' = next
        /\ UNCHANGED upQ

\* send_packet to the requester, and what follows it.
Answer(text, next) ==
    /\ IF ClientsDown = {}
       THEN apc' = "killed" /\ downQ' = <<>>
       ELSE apc' = next /\ downQ' = Append(downQ, [ans |-> text, seq |-> req.seq])
    /\ UNCHANGED upQ

\* Mutant of Remove: the answer counts as a packet of its own.
Remove_CountsOn ==
    /\ apc = "decide"
    /\ Id \in sessions
    /\ req.cmd = 2
    /\ downQ' = Append(downQ, [ans |-> "REMOVED", seq |-> req.seq + 1])
    /\ apc' = "leave"
    /\ UNCHANGED upQ
    /\ sessions' = sessions \ {Id}
    /\ UNCHANGED <<running, req, owner, lapsed, made, clientVars, met>>

\* A registered id and command 2: REMOVED, and the session is erased.
Remove ==
    /\ apc = "decide"
    /\ Id \in sessions
    /\ req.cmd = 2
    /\ Answer("REMOVED", "leave")
    /\ sessions' = sessions \ {Id}
    /\ UNCHANGED <<running, req, owner, lapsed, made, clientVars, met>>

\* A registered id and any other command.
Reject ==
    /\ apc = "decide"
    /\ Id \in sessions
    /\ req.cmd # 2
    /\ Answer("REJECTED", "leave")
    /\ UNCHANGED <<running, req, sessions, owner, lapsed, made, clientVars, met>>

\* return false after either answer.
Leave ==
    /\ apc = "leave"
    /\ Return
    /\ UNCHANGED <<running, req, sessions, owner, lapsed, made, clientVars, met>>

\* Mutant of Create: the FIFOs are not created.
Create_NoFifos ==
    /\ apc = "decide"
    /\ Id \notin sessions
    /\ apc' = "create"
    /\ UNCHANGED <<running, req, sessions, owner, lapsed, made, clientVars, met, upQ, downQ>>

\* An id that is not registered, whatever the command: create its FIFOs.
Create ==
    /\ apc = "decide"
    /\ Id \notin sessions
    /\ made' = made \cup {Id}
    /\ apc' = "create"
    /\ UNCHANGED <<running, req, sessions, owner, lapsed, clientVars, met, upQ, downQ>>

Opened ==
    /\ apc = "create"
    /\ Answer("OPENED", "openPrivRead")
    /\ UNCHANGED <<running, req, sessions, owner, lapsed, made, clientVars, met>>

\* open(dynamic_main_path, O_RDONLY | O_NONBLOCK) returns at once, and
\* open(dynamic_fb_path, O_WRONLY) begins.
OpenPrivate ==
    /\ apc = "openPrivRead"
    /\ apc' = "openPrivWrite"
    /\ LET here(stage) == {c \in At(stage) : IdOf[c] = Id}
       IN  met' = (met \ {Server}) \cup here("openPrivUp") \cup here("openPrivDown")
                   \cup (IF here("openPrivDown") = {} THEN {} ELSE {Server})
    /\ UNCHANGED <<running, req, sessions, owner, lapsed, made, clientVars, upQ, downQ>>

\* It returns once the client has opened the other end.
ClientJoined ==
    /\ apc = "openPrivWrite"
    /\ Server \in met
    /\ apc' = "register"
    /\ UNCHANGED <<running, req, sessions, owner, lapsed, made, clientVars, met, upQ, downQ>>

\* Mutant of Register: the session is made but not stored.
Register_Forgets ==
    /\ apc = "register"
    /\ running' = (running /\ Id # StopId)
    /\ Return
    /\ UNCHANGED <<req, sessions, owner, lapsed, made, clientVars, met>>

\* emplace and the first heartbeat; one id stops the server.
Register ==
    /\ apc = "register"
    /\ sessions' = sessions \cup {Id}
    /\ owner' = [owner EXCEPT ![Id] = req.from]
    /\ running' = (running /\ Id # StopId)
    /\ Return
    /\ UNCHANGED <<req, lapsed, made, clientVars, met>>

\* execute_housekeeping_phase of the other thread: five seconds without a
\* heartbeat.  A pass begun before the server stops may end after it.
Expire(i) ==
    /\ apc # "killed"
    /\ i \in sessions
    /\ sessions' = sessions \ {i}
    /\ lapsed' = lapsed \cup {owner[i]}
    /\ UNCHANGED <<apc, running, req, owner, made, clientVars, met, upQ, downQ>>

-----------------------------------------------------------------------------
ClientStep(c) ==
    \/ OpenUp(c) \/ OpenDown(c) \/ Send(c) \/ Receive(c)
    \/ OpenPrivUp(c) \/ OpenPrivDown(c)

AcceptorStep ==
    \/ Accept \/ AcceptUp \/ AcceptDown \/ ReadRequest \/ ReadEof
    \/ Remove \/ Reject \/ Leave
    \/ Create \/ Opened \/ OpenPrivate \/ ClientJoined \/ Register

Next ==
    \/ \E c \in Clients :
        \/ Request(c, 1) \/ Request(c, 2)
        \/ ClientStep(c) \/ Push(c) \/ Terminate(c) \/ Crash(c)
    \/ AcceptorStep
    \/ \E i \in Ids : Expire(i)

Spec == Init /\ [][Next]_vars

\* Both sides go on when they can; nobody has to make a request, to push
\* anything, to terminate, to crash or to lose a session.
FairSpec ==
    /\ Spec
    /\ WF_vars(AcceptorStep)
    /\ \A c \in Clients : WF_vars(ClientStep(c))

-----------------------------------------------------------------------------
(* Properties *)

\* "If server accepted request": a client goes over to its private FIFOs, or
\* has done so, only when the server has created them.
SwitchOnlyIfAccepted ==
    \A c \in Clients :
        cpc[c] \in {"openPrivUp", "openPrivDown", "joined"} => IdOf[c] \in made

\* Every request so far has found the previous one over on both sides.  No
\* client can see to that: the tests sleep 20 ms between two requests.
Alone == overlaps = 0

\* As long as requests meet nobody else's, a client goes over to its private
\* FIFOs only when the server has created them, whatever the clients that died
\* have left in the request FIFOs.
AloneSwitchesIfAccepted == Alone => SwitchOnlyIfAccepted

\* As long as requests meet nobody else's, nothing is left between two of them
\* in the request FIFOs that the next client or the acceptor could take for its
\* own, unless a client has died while a rejected one kept the FIFOs open.
NothingLeftBehind ==
    Alone /\ Quiet /\ (ClientsDown = {} \/ At("killed") = {})
    => upQ = <<>> /\ downQ = <<>>

\* As long as requests meet nobody else's, neither side writes to a FIFO the
\* other has closed, unless a client has died during a request and the acceptor
\* serves what it left.  A request that begins while the acceptor is not back
\* from the last may be about to write when accept_client returns.
NobodyKilledWriting ==
    Alone =>
        /\ apc = "killed" => At("killed") # {}
        /\ \A c \in Clients : cpc[c] = "send" => AcceptorUp

\* As long as requests meet nobody else's, a client that has joined has a
\* session, or the acceptor is about to store it, unless its session timed out
\* or a client of the same id removed it.
JoinedIsRegistered ==
    Alone =>
        \A c \in Clients :
            cpc[c] = "joined" =>
                \/ IdOf[c] \in sessions
                \/ apc \in {"openPrivWrite", "register"} /\ req.from = c
                \/ c \in lapsed
                \/ \E d \in Clients \ {c} : IdOf[d] = IdOf[c] /\ cmd[d] = 2

\* However requests overlap and clients die, a client does not stay for ever on
\* the request FIFOs, unless the acceptor has come to an end, or waits for ever
\* in open() of a private FIFO for a client that does not come.
HangsOnlyBehindTheAcceptor ==
    \A c \in Clients :
        \/ []<>(cpc[c] \notin {"openUp", "reopenUp", "openDown", "send", "await"})
        \/ <>[](apc \in {"killed", "openPrivWrite"} \/ ~running)

\* accept_client returns again and again once it has taken a request, unless a
\* client has died during one or requests have overlapped: whatever the answer,
\* the client goes on to what the acceptor waits for next.
ServesTheLiving ==
    \/ []<>(apc \in {"pause", "openUp", "openDown", "read"})
    \/ <>[](At("killed") # {} \/ ~Alone)

=============================================================================
