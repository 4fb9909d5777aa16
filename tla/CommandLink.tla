----------------------------- MODULE CommandLink -----------------------------
(***************************************************************************)
(* Blocking commands over RoCommLink: user threads inside                   *)
(* send_command_blocking, the CommandTracker they share with the timeout    *)
(* thread and the pool workers, the lossy, duplicating and reordering UDP   *)
(* network, and the peer that runs a command and acknowledges it.           *)
(*                                                                         *)
(* Everything CommandTracker does under its mutex is one action.  Time      *)
(* advances in ticks of the timeout thread's 50 ms sleep; the thread makes  *)
(* one pass over the transactions between two ticks.  A datagram that was   *)
(* sent may be delivered never, once or many times, and in any order, so    *)
(* net only grows.                                                          *)
(***************************************************************************)
EXTENDS Naturals, FiniteSets

CONSTANTS
    Calls,          \* the calls of send_command_blocking
    Seqs,           \* the sequence numbers (uint16_t) the callers use
    SeqOf,          \* cmd_pkt.header.sequence of each call
    NoCall,         \* "no transaction"
    ResendAfter,    \* timeout_duration: 500 ms, in ticks
    WaitLimit       \* wait_for(3 s), in ticks

\* The 3 s wait is longer than three retries and the final timeout together,
\* each of them detected at most one tick late.
ASSUME LinkAssumption ==
    /\ SeqOf \in [Calls -> Seqs]
    /\ NoCall \notin Calls
    /\ ResendAfter \in Nat
    /\ WaitLimit \in Nat
    /\ WaitLimit > 4 * (ResendAfter + 1)

\* Mutant of max_retries: five retries, which outlast the 3 s wait.
max_retries_five == 5

\* How often check_timeouts sends a transaction again before it fails it.
max_retries == 3

VARIABLES
    link,       \* the life of the RoCommLink object: "up" until stop()
    timer,      \* where the timeout thread is in its loop
    owner,      \* _transactions: the call each sequence number belongs to
    retries,    \* Transaction::retries
    age,        \* ticks since Transaction::last_sent
    promise,    \* the value of each call's promise, or "none"
    cpc,        \* where each call is in send_command_blocking
    waited,     \* ticks spent in wait_for
    outcome,    \* what the call reported when it ended
    net,        \* every datagram sent: commands by call, ACKs by sequence
    pool,       \* received ACKs queued in the operator's worker pool
    executed    \* the calls whose command the peer has dispatched

callVars == <<promise, cpc, waited, outcome>>
trackerVars == <<owner, retries, age>>
vars == <<link, timer, owner, retries, age, promise, cpc, waited, outcome,
          net, pool, executed>>

Datagrams == [cmd : Calls] \cup [ack : Seqs]
Outcomes == {"none", "pending", "accepted", "rejected", "send_failed",
             "timeout", "error"}

TypeOK ==
    /\ link \in {"up", "stopping", "closed", "down"}
    /\ timer \in {"asleep", "due", "test", "exited"}
    /\ owner \in [Seqs -> Calls \cup {NoCall}]
    /\ retries \in [Seqs -> 0..max_retries]
    /\ age \in [Seqs -> 0..(ResendAfter + 1)]
    /\ promise \in [Calls -> {"none", "ACCEPTED", "FAILED"}]
    /\ cpc \in [Calls -> {"idle", "send", "wait", "returned"}]
    /\ waited \in [Calls -> 0..WaitLimit]
    /\ outcome \in [Calls -> Outcomes]
    /\ net \subseteq Datagrams
    /\ pool \subseteq Seqs
    /\ executed \subseteq Calls

Init ==
    /\ link = "up"
    /\ timer = "asleep"
    /\ owner = [s \in Seqs |-> NoCall]
    /\ retries = [s \in Seqs |-> 0]
    /\ age = [s \in Seqs |-> 0]
    /\ promise = [c \in Calls |-> "none"]
    /\ cpc = [c \in Calls |-> "idle"]
    /\ waited = [c \in Calls |-> 0]
    /\ outcome = [c \in Calls |-> "none"]
    /\ net = {}
    /\ pool = {}
    /\ executed = {}

-----------------------------------------------------------------------------
(* CommandTracker *)

\* track, for a sequence number not in the map.
Insert(s, c) ==
    /\ owner' = [owner EXCEPT ![s] = c]
    /\ retries' = [retries EXCEPT ![s] = 0]
    /\ age' = [age EXCEPT ![s] = 0]

\* Mutant of Settle: the transaction is not erased.
Settle_KeepsEntry(S, result) ==
    /\ promise' = [c \in Calls |->
                    IF \E s \in S : owner[s] = c THEN result ELSE promise[c]]
    /\ UNCHANGED owner

\* Set the promises of the transactions in S and erase them.
Settle(S, result) ==
    /\ promise' = [c \in Calls |->
                    IF \E s \in S : owner[s] = c THEN result ELSE promise[c]]
    /\ owner' = [s \in Seqs |-> IF s \in S THEN NoCall ELSE owner[s]]

\* resolve: nothing happens when the sequence number is unknown.
Resolve(s, result) == Settle({s}, result) /\ UNCHANGED <<retries, age>>

-----------------------------------------------------------------------------
(* The user thread: send_command_blocking *)

\* track: emplace does nothing when the sequence number is already tracked,
\* and the second get_future of that transaction throws.
Track(c) ==
    /\ cpc[c] = "idle"
    /\ IF owner[SeqOf[c]] = NoCall
       THEN /\ Insert(SeqOf[c], c)
            /\ cpc' = [cpc EXCEPT ![c] = "send"]
            /\ outcome' = [outcome EXCEPT ![c] = "pending"]
       ELSE /\ cpc' = [cpc EXCEPT ![c] = "returned"]
            /\ outcome' = [outcome EXCEPT ![c] = "error"]
            /\ UNCHANGED trackerVars
    /\ UNCHANGED <<link, timer, promise, waited, net, pool, executed>>

\* send_packet finds an open transport, and sendto takes the datagram.
Send(c) ==
    /\ cpc[c] = "send"
    /\ link \in {"up", "stopping"}
    /\ net' = net \cup {[cmd |-> c]}
    /\ cpc' = [cpc EXCEPT ![c] = "wait"]
    /\ UNCHANGED <<link, timer, owner, retries, age, promise, waited, outcome,
                   pool, executed>>

\* send_packet returns false: no transport, a closed socket or a failed sendto.
SendFails(c) ==
    /\ cpc[c] = "send"
    /\ Resolve(SeqOf[c], "FAILED")
    /\ cpc' = [cpc EXCEPT ![c] = "returned"]
    /\ outcome' = [outcome EXCEPT ![c] = "send_failed"]
    /\ UNCHANGED <<link, timer, waited, net, pool, executed>>

\* wait_for is ready: report the result.
Return(c) ==
    /\ cpc[c] = "wait"
    /\ promise[c] # "none"
    /\ cpc' = [cpc EXCEPT ![c] = "returned"]
    /\ outcome' = [outcome EXCEPT ![c] =
                    IF promise[c] = "ACCEPTED" THEN "accepted" ELSE "rejected"]
    /\ UNCHANGED <<link, timer, owner, retries, age, promise, waited, net,
                   pool, executed>>

\* Mutant of GiveUp: ack_future.wait() without a limit.
GiveUp_Never(c) == cpc[c] = "wait" /\ FALSE /\ UNCHANGED vars

\* wait_for gives up after 3 s; the transaction stays in the map.
GiveUp(c) ==
    /\ cpc[c] = "wait"
    /\ promise[c] = "none"
    /\ waited[c] = WaitLimit
    /\ cpc' = [cpc EXCEPT ![c] = "returned"]
    /\ outcome' = [outcome EXCEPT ![c] = "timeout"]
    /\ UNCHANGED <<link, timer, owner, retries, age, promise, waited, net,
                   pool, executed>>

-----------------------------------------------------------------------------
(* The timeout thread *)

Tracked == {s \in Seqs : owner[s] # NoCall}

Overdue == {s \in Tracked : age[s] > ResendAfter}

\* Mutant of CheckTimeouts: retries <= max_retries.
CheckTimeouts_OneMore ==
    LET again == {s \in Overdue : retries[s] <= max_retries}
    IN  /\ timer = "due"
        /\ timer' = "test"
        /\ retries' = [s \in Seqs |-> IF s \in again THEN retries[s] + 1
                                                     ELSE retries[s]]
        /\ age' = [s \in Seqs |-> IF s \in again THEN 0 ELSE age[s]]
        /\ Settle(Overdue \ again, "FAILED")
        /\ net' = net \cup {[cmd |-> owner[s]] : s \in again}
        /\ UNCHANGED <<link, cpc, waited, outcome, pool, executed>>

\* Mutant of CheckTimeouts: the retry is not counted.
CheckTimeouts_Uncounted ==
    LET again == {s \in Overdue : retries[s] < max_retries}
    IN  /\ timer = "due"
        /\ timer' = "test"
        /\ age' = [s \in Seqs |-> IF s \in again THEN 0 ELSE age[s]]
        /\ Settle(Overdue \ again, "FAILED")
        /\ net' = net \cup {[cmd |-> owner[s]] : s \in again}
        /\ UNCHANGED <<link, retries, cpc, waited, outcome, pool, executed>>

\* check_timeouts: an overdue transaction is sent again, or failed and erased
\* once its retries are used up.  The retry goes out through send_packet, so
\* it is lost when the transport is closed.
CheckTimeouts ==
    LET again == {s \in Overdue : retries[s] < max_retries}
    IN  /\ timer = "due"
        /\ timer' = "test"
        /\ retries' = [s \in Seqs |-> IF s \in again THEN retries[s] + 1
                                                     ELSE retries[s]]
        /\ age' = [s \in Seqs |-> IF s \in again THEN 0 ELSE age[s]]
        /\ Settle(Overdue \ again, "FAILED")
        /\ net' = net \cup {[cmd |-> owner[s]] : s \in again}
        /\ UNCHANGED <<link, cpc, waited, outcome, pool, executed>>

\* while (_is_running)
TestRunning ==
    /\ timer = "test"
    /\ timer' = IF link = "up" THEN "asleep" ELSE "exited"
    /\ UNCHANGED <<link, owner, retries, age, promise, cpc, waited, outcome,
                   net, pool, executed>>

\* 50 ms pass.  The timeout thread keeps up; a wait_for that has reached its
\* limit ends before time moves on.
Tick ==
    /\ timer \in {"asleep", "exited"}
    /\ timer' = IF timer = "asleep" THEN "due" ELSE "exited"
    /\ \A c \in Calls : cpc[c] = "wait" => waited[c] < WaitLimit
    /\ waited' = [c \in Calls |-> IF cpc[c] = "wait" THEN waited[c] + 1
                                                     ELSE waited[c]]
    /\ age' = [s \in Seqs |-> IF s \in Tracked /\ age[s] <= ResendAfter
                              THEN age[s] + 1 ELSE age[s]]
    /\ UNCHANGED <<link, owner, retries, promise, cpc, outcome, net, pool,
                   executed>>

-----------------------------------------------------------------------------
(* stop() *)

StopRequested ==
    /\ link = "up"
    /\ link' = "stopping"
    /\ UNCHANGED <<timer, owner, retries, age, promise, cpc, waited, outcome,
                   net, pool, executed>>

\* The timeout thread has been joined: disconnect every transport.
Disconnect ==
    /\ link = "stopping"
    /\ timer = "exited"
    /\ link' = "closed"
    /\ UNCHANGED <<timer, owner, retries, age, promise, cpc, waited, outcome,
                   net, pool, executed>>

\* shutdown() of the pool drains it; then the transports are cleared.
PoolDown ==
    /\ link = "closed"
    /\ pool = {}
    /\ link' = "down"
    /\ UNCHANGED <<timer, owner, retries, age, promise, cpc, waited, outcome,
                   net, pool, executed>>

-----------------------------------------------------------------------------
(* Arriving datagrams *)

\* receive_loop hands an ACK to the pool.
ReceiveAck(s) ==
    /\ link \in {"up", "stopping"}
    /\ [ack |-> s] \in net
    /\ pool' = pool \cup {s}
    /\ UNCHANGED <<link, timer, owner, retries, age, promise, cpc, waited,
                   outcome, net, executed>>

\* A worker resolves the ACK's transaction.
ProcessAck(s) ==
    /\ s \in pool
    /\ pool' = pool \ {s}
    /\ Resolve(s, "ACCEPTED")
    /\ UNCHANGED <<link, timer, cpc, waited, outcome, net, executed>>

\* Mutant of PeerExecute: the ACK leaves before the handlers have run.
PeerExecute_AckFirst(c) ==
    /\ [cmd |-> c] \in net
    /\ net' = net \cup {[ack |-> SeqOf[c]]}
    /\ UNCHANGED <<link, timer, owner, retries, age, promise, cpc, waited,
                   outcome, pool, executed>>

\* The peer: a worker dispatches the command to its handlers (dispatch always
\* reports success) and then sends the ACK.  A duplicate is dispatched again.
PeerExecute(c) ==
    /\ [cmd |-> c] \in net
    /\ executed' = executed \cup {c}
    /\ net' = net \cup {[ack |-> SeqOf[c]]}
    /\ UNCHANGED <<link, timer, owner, retries, age, promise, cpc, waited,
                   outcome, pool>>

-----------------------------------------------------------------------------
CallStep(c) == Track(c) \/ Send(c) \/ SendFails(c) \/ Return(c) \/ GiveUp(c)

Timing == CheckTimeouts \/ TestRunning \/ Tick

Stop == StopRequested \/ Disconnect \/ PoolDown

Next ==
    \/ \E c \in Calls : CallStep(c) \/ PeerExecute(c)
    \/ \E s \in Seqs : ReceiveAck(s) \/ ProcessAck(s)
    \/ Timing
    \/ Stop

Spec == Init /\ [][Next]_vars

\* A call that has begun goes on, workers process what they hold, time passes
\* and a stop that has begun finishes.  The network owes nobody anything.
Fairness ==
    /\ \A c \in Calls : WF_vars(Send(c) \/ SendFails(c) \/ Return(c) \/ GiveUp(c))
    /\ \A s \in Seqs : WF_vars(ProcessAck(s))
    /\ WF_vars(Timing)
    /\ WF_vars(Disconnect \/ PoolDown)

FairSpec == Spec /\ Fairness

-----------------------------------------------------------------------------
(* Properties *)

\* No call waits on a promise nobody can set: a call in wait_for without a
\* result still owns its transaction, so an ACK or the timeout thread can end
\* it; and a tracked transaction's promise has not been set (set_value would
\* throw).
PromiseHasOneSetter ==
    /\ \A c \in Calls :
        cpc[c] \in {"send", "wait"} /\ promise[c] = "none" => owner[SeqOf[c]] = c
    /\ \A s \in Tracked : promise[owner[s]] = "none" /\ SeqOf[owner[s]] = s

\* While the link is up, wait_for(3 s) never expires: three retries and the
\* final failure always come first.  "Transaction timeout" is reported only
\* once stop() has ended the timeout thread.
TimeoutOnlyAfterStop ==
    (\E c \in Calls : outcome[c] = "timeout") => link # "up"

\* Every call that was made returns.
CallReturns == \A c \in Calls : cpc[c] = "send" ~> cpc[c] = "returned"

\* A transaction does not stay in the map for ever while the link is up.
TransactionEnds ==
    \A c \in Calls : owner[SeqOf[c]] = c ~> owner[SeqOf[c]] # c \/ link # "up"

\* The callers use every sequence number once.
DistinctSeqs == \A c, d \in Calls : SeqOf[c] = SeqOf[d] => c = d

\* With a sequence number of its own for each call, the link implements
\* CommandService: "accepted" means that the peer has run the command.
Service == INSTANCE CommandService
Implements == Service!Spec

=============================================================================
