---------------------------- MODULE PipeSessions ----------------------------
(***************************************************************************)
(* The sessions of the pipe server: the acceptor thread adds and removes    *)
(* them, the polling thread expires them and reads from them.  Both threads *)
(* receive through the one _shared_fd of IPCReceiverBase, which a           *)
(* SharedFdSwitchGuard sets for the time of one call.  A descriptor number  *)
(* is free again when its last SharedFileDescriptor is gone, and open()     *)
(* hands out the lowest free one.  A session's read and write descriptors   *)
(* come and go together and are one number here.  Which clients have sent   *)
(* something, and whose heartbeat is overdue, is left open.                 *)
(***************************************************************************)
EXTENDS Integers, FiniteSets, FiniteSetsExt

CONSTANTS
    ClientIds,
    Fds,        \* descriptor numbers; enough for all that can be open at once
    None        \* no descriptor, no client, nobody

Request == "request FIFO"

\* Enough numbers for all that can be open at once: one of each client, and
\* those of the acceptor and the polling thread.
SessionsAssumption ==
    /\ IsFiniteSet(ClientIds)
    /\ IsFiniteSet(Fds) /\ Fds \subseteq Nat
    /\ Cardinality(Fds) > Cardinality(ClientIds) + 2
    /\ None \notin Fds /\ None \notin ClientIds
    /\ None \notin {Request, "acceptor", "poller"}
    /\ Request \notin ClientIds

VARIABLES
    file,       \* what each number refers to: a client's FIFOs, Request or None
    registry,   \* _client_registry: client id to descriptor
    active,     \* IPCReceiverBase::_shared_fd
    guard,      \* the thread inside a SharedFdSwitchGuard
    acceptor,   \* accept_client: where it is, its descriptors, the client
    poller      \* dispatch_events: where it is, what it polls, the proxies

sessionVars == <<file, registry, active, guard, acceptor, poller>>

AcceptorIdle == [at |-> "idle", request |-> None, id |-> None, fd |-> None]
PollerTop == [at |-> "top", polled |-> {}, ready |-> {}, id |-> None, proxy |-> None]

SessionsTypeOK ==
    /\ file \in [Fds -> ClientIds \cup {Request, None}]
    /\ DOMAIN registry \subseteq ClientIds
    /\ \A id \in DOMAIN registry : registry[id] \in Fds
    /\ active \in Fds \cup {None}
    /\ guard \in {None, "acceptor", "poller"}
    /\ acceptor \in [at : {"idle", "opened", "reading", "decide", "joining"},
                     request : Fds \cup {None}, id : ClientIds \cup {None},
                     fd : Fds \cup {None}]
    /\ poller.at \in {"top", "snapshot", "poll", "next", "find", "switch", "reading"}
    /\ poller.ready \subseteq poller.polled
    /\ poller.polled \subseteq Fds \X ClientIds
    /\ poller.proxy \in Fds \cup {None}

SessionsInit ==
    /\ file = [f \in Fds |-> None]
    /\ registry = <<>>
    /\ active = None
    /\ guard = None
    /\ acceptor = AcceptorIdle
    /\ poller = PollerTop

-----------------------------------------------------------------------------
(* Descriptors *)

\* open(): the lowest number that is free.
Lowest == Min({f \in Fds : file[f] = None})

Without(ids) == [id \in DOMAIN registry \ ids |-> registry[id]]

\* The numbers that still have a handle: those of the sessions in reg, of the
\* acceptor a and of the polling thread p.
Held(reg, a, p) ==
    {reg[id] : id \in DOMAIN reg} \cup {a.request, a.fd, p.proxy}

\* The descriptors without a handle are closed.
Closed(f, held) == [n \in Fds |-> IF n \in held THEN f[n] ELSE None]

\* SharedFdSwitchGuard: lock, then put the caller's descriptor in place.
Switch(thread, fd) ==
    /\ guard = None
    /\ guard' = thread
    /\ active' = fd

\* ~SharedFdSwitchGuard
Restore ==
    /\ guard' = None
    /\ active' = None

-----------------------------------------------------------------------------
(* The acceptor thread *)

\* A client opens the request FIFO, and so the acceptor's open() returns.
OpenRequest ==
    /\ acceptor.at = "idle"
    /\ acceptor' = [acceptor EXCEPT !.at = "opened", !.request = Lowest]
    /\ file' = [file EXCEPT ![Lowest] = Request]
    /\ UNCHANGED <<registry, active, guard, poller>>

AcceptorSwitch ==
    /\ acceptor.at = "opened"
    /\ Switch("acceptor", acceptor.request)
    /\ acceptor' = [acceptor EXCEPT !.at = "reading"]
    /\ UNCHANGED <<file, registry, poller>>

\* receive_packet returns a request of the client id, or nothing (None).
ReadRequest(id) ==
    /\ acceptor.at = "reading"
    /\ Restore
    /\ acceptor' = IF id = None THEN AcceptorIdle
                   ELSE [acceptor EXCEPT !.at = "decide", !.id = id]
    /\ file' = Closed(file, Held(registry, acceptor', poller))
    /\ UNCHANGED <<registry, poller>>

\* A known client is removed or rejected, as it asked; for an unknown one,
\* whatever it asked, the private FIFOs are made and the read end is opened.
Decide(remove) ==
    /\ acceptor.at = "decide"
    /\ IF acceptor.id \in DOMAIN registry
       THEN /\ registry' = IF remove THEN Without({acceptor.id}) ELSE registry
            /\ acceptor' = AcceptorIdle
            /\ file' = Closed(file, Held(registry', acceptor', poller))
       ELSE /\ acceptor' = [acceptor EXCEPT !.at = "joining", !.fd = Lowest]
            /\ file' = [file EXCEPT ![Lowest] = acceptor.id]
            /\ UNCHANGED registry
    /\ UNCHANGED <<active, guard, poller>>

\* The client has joined: its session takes over the descriptors.
Register ==
    /\ acceptor.at = "joining"
    /\ registry' = [id \in DOMAIN registry \cup {acceptor.id} |->
                        IF id = acceptor.id THEN acceptor.fd ELSE registry[id]]
    /\ acceptor' = AcceptorIdle
    /\ file' = Closed(file, Held(registry', acceptor', poller))
    /\ UNCHANGED <<active, guard, poller>>

-----------------------------------------------------------------------------
(* The polling thread *)

\* execute_housekeeping_phase drops the sessions whose heartbeat is overdue.
Housekeep(late) ==
    /\ poller.at = "top"
    /\ late \subseteq DOMAIN registry
    /\ registry' = Without(late)
    /\ poller' = [poller EXCEPT !.at = "snapshot"]
    /\ file' = Closed(file, Held(registry', acceptor, poller'))
    /\ UNCHANGED <<active, guard, acceptor>>

\* The numbers to poll, without handles; with none of them it starts again.
Snapshot ==
    /\ poller.at = "snapshot"
    /\ poller' = IF registry = <<>> THEN PollerTop
                 ELSE [poller EXCEPT !.at = "poll",
                        !.polled = {<<registry[id], id>> : id \in DOMAIN registry}]
    /\ UNCHANGED <<file, registry, active, guard, acceptor>>

\* poll() looks at what the numbers refer to now.
Poll(ready) ==
    /\ poller.at = "poll"
    /\ ready \subseteq {e \in poller.polled : file[e[1]] # None}
    /\ poller' = IF ready = {} THEN PollerTop
                 ELSE [poller EXCEPT !.at = "next", !.ready = ready]
    /\ UNCHANGED <<file, registry, active, guard, acceptor>>

\* The polling thread after it is done with one entry.
Onward(p) ==
    IF p.ready = {} THEN PollerTop ELSE [p EXCEPT !.at = "next", !.id = None, !.proxy = None]

\* Mutant of Lookup: the number that was polled is used again.
Lookup_Polled(e) ==
    LET rest == [poller EXCEPT !.ready = @ \ {e}]
    IN  /\ poller.at = "next"
        /\ e \in poller.ready
        /\ poller' = IF e[2] \in DOMAIN registry
                     THEN [rest EXCEPT !.at = "find", !.id = e[2], !.proxy = e[1]]
                     ELSE Onward(rest)
        /\ UNCHANGED <<file, registry, active, guard, acceptor>>

\* Under the lock the proxies become handles of the client's session.
Lookup(e) ==
    LET rest == [poller EXCEPT !.ready = @ \ {e}]
    IN  /\ poller.at = "next"
        /\ e \in poller.ready
        /\ poller' = IF e[2] \in DOMAIN registry
                     THEN [rest EXCEPT !.at = "find", !.id = e[2],
                                       !.proxy = registry[e[2]]]
                     ELSE Onward(rest)
        /\ UNCHANGED <<file, registry, active, guard, acceptor>>

\* process_client_packet gives up when the session is gone by now.
Find ==
    /\ poller.at = "find"
    /\ poller' = IF poller.id \in DOMAIN registry THEN [poller EXCEPT !.at = "switch"]
                                                  ELSE Onward(poller)
    /\ file' = Closed(file, Held(registry, acceptor, poller'))
    /\ UNCHANGED <<registry, active, guard, acceptor>>

PollerSwitch ==
    /\ poller.at = "switch"
    /\ Switch("poller", poller.proxy)
    /\ poller' = [poller EXCEPT !.at = "reading"]
    /\ UNCHANGED <<file, registry, acceptor>>

\* The packet is read and answered, and the proxies go out of scope.
Process ==
    /\ poller.at = "reading"
    /\ Restore
    /\ poller' = Onward(poller)
    /\ file' = Closed(file, Held(registry, acceptor, poller'))
    /\ UNCHANGED <<registry, acceptor>>

SessionsNext ==
    \/ OpenRequest \/ AcceptorSwitch \/ Register
    \/ \E id \in ClientIds \cup {None} : ReadRequest(id)
    \/ \E remove \in BOOLEAN : Decide(remove)
    \/ \E late \in SUBSET DOMAIN registry : Housekeep(late)
    \/ Snapshot \/ Find \/ PollerSwitch \/ Process
    \/ \E ready \in SUBSET poller.polled : Poll(ready)
    \/ \E e \in poller.ready : Lookup(e)

SessionsSpec == SessionsInit /\ [][SessionsNext]_sessionVars

-----------------------------------------------------------------------------
(* Properties *)

\* A thread that receives reads from the descriptor it put in place, although
\* both put theirs into the same member, and the member is empty in between.
ReceivesFromItsOwn ==
    /\ acceptor.at = "reading" => active = acceptor.request
    /\ poller.at = "reading" => active = poller.proxy
    /\ (acceptor.at # "reading" /\ poller.at # "reading") => active = None

\* From the look-up to the end of the answer the proxies refer to the FIFOs of
\* the client that is served, whoever removes it meanwhile and however often
\* its number was closed and given out again since the snapshot.
ServesWhomItLookedUp ==
    poller.at \in {"find", "switch", "reading"} => file[poller.proxy] = poller.id

\* The three together: receive_packet never reads another's FIFO.
PipeSound == SessionsTypeOK /\ ReceivesFromItsOwn /\ ServesWhomItLookedUp

=============================================================================
