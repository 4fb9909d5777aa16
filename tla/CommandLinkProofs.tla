-------------------------- MODULE CommandLinkProofs --------------------------
(***************************************************************************)
(* CommandLink for any set of calls and sequence numbers and any timing     *)
(* that satisfies LinkAssumption.                                           *)
(***************************************************************************)
EXTENDS CommandLink, TLAPS

\* The timeout thread lives as long as the link is up, and right after its
\* pass over the map no transaction is overdue.
TimerInv ==
    /\ link = "up" => timer # "exited"
    /\ timer \in {"asleep", "test"} => Overdue = {}

\* How long a call has waited is bounded by the rounds its transaction has
\* been through.
WaitInv ==
    timer # "exited" =>
        \A c \in Calls : cpc[c] \in {"send", "wait"} /\ promise[c] = "none" =>
            waited[c] <= retries[SeqOf[c]] * (ResendAfter + 1) + age[SeqOf[c]]

\* Time is only charged to a call that waits.
FreshInv == \A c \in Calls : cpc[c] \in {"idle", "send"} => waited[c] = 0

\* Calls that have not begun have no promise value and no transaction.
IdleInv ==
    \A c \in Calls : cpc[c] = "idle" =>
        promise[c] = "none" /\ \A s \in Seqs : owner[s] # c

\* The strengthening that makes TimeoutOnlyAfterStop inductive.
IInv ==
    /\ TypeOK
    /\ PromiseHasOneSetter
    /\ IdleInv
    /\ FreshInv
    /\ TimerInv
    /\ WaitInv
    /\ TimeoutOnlyAfterStop

\* The state after start() satisfies the invariant.
LEMMA InitIInv == Init => IInv
<1> SUFFICES ASSUME Init PROVE IInv
    OBVIOUS
<1> USE LinkAssumption DEF Init
<1>1. TypeOK
      BY DEF TypeOK, max_retries, Outcomes
<1>2. PromiseHasOneSetter /\ IdleInv /\ FreshInv
      BY DEF PromiseHasOneSetter, Tracked, IdleInv, FreshInv
<1>3. TimerInv /\ WaitInv /\ TimeoutOnlyAfterStop
      BY DEF TimerInv, WaitInv, TimeoutOnlyAfterStop, Overdue, Tracked
<1> QED
    BY <1>1, <1>2, <1>3 DEF IInv

\* Every step keeps the variables in their types.
LEMMA NextTypeOK == IInv /\ [Next]_vars => TypeOK'
<1> SUFFICES ASSUME IInv, [Next]_vars PROVE TypeOK'
    OBVIOUS
<1> USE LinkAssumption DEF IInv, TypeOK, max_retries, Outcomes
<1>1. ASSUME NEW c \in Calls, CallStep(c) PROVE TypeOK'
  <2>1. CASE Track(c)
        BY <2>1 DEF Track, Insert, trackerVars
  <2>2. CASE Send(c)
        BY <2>2 DEF Send, Datagrams
  <2>3. CASE SendFails(c)
        BY <2>3 DEF SendFails, Resolve, Settle
  <2>4. CASE Return(c)
        BY <2>4 DEF Return
  <2>5. CASE GiveUp(c)
        BY <2>5 DEF GiveUp
  <2> QED
      BY <1>1, <2>1, <2>2, <2>3, <2>4, <2>5 DEF CallStep
<1>2. ASSUME NEW c \in Calls, PeerExecute(c) PROVE TypeOK'
      BY <1>2 DEF PeerExecute, Datagrams
<1>3. ASSUME NEW s \in Seqs, ReceiveAck(s) PROVE TypeOK'
      BY <1>3 DEF ReceiveAck
<1>4. ASSUME NEW s \in Seqs, ProcessAck(s) PROVE TypeOK'
      BY <1>4 DEF ProcessAck, Resolve, Settle
<1>5. CASE CheckTimeouts
  <2> DEFINE again == {s \in Overdue : retries[s] < max_retries}
  <2>1. again \subseteq Tracked /\ Tracked \subseteq Seqs
        BY DEF Overdue, Tracked
  <2>2. retries' \in [Seqs -> 0..max_retries]
        BY <1>5, <2>1 DEF CheckTimeouts
  <2>3. age' \in [Seqs -> 0..(ResendAfter + 1)]
        BY <1>5 DEF CheckTimeouts
  <2>4. net' \subseteq Datagrams
        BY <1>5, <2>1 DEF CheckTimeouts, Datagrams, Tracked
  <2>5. promise' \in [Calls -> {"none", "ACCEPTED", "FAILED"}]
        BY <1>5 DEF CheckTimeouts, Settle
  <2>6. owner' \in [Seqs -> Calls \cup {NoCall}]
        BY <1>5 DEF CheckTimeouts, Settle
  <2> QED
      BY <1>5, <2>2, <2>3, <2>4, <2>5, <2>6 DEF CheckTimeouts
<1>6. CASE TestRunning
      BY <1>6 DEF TestRunning
<1>7. CASE Tick
  <2>1. waited' \in [Calls -> 0..WaitLimit]
        BY <1>7 DEF Tick
  <2>2. age' \in [Seqs -> 0..(ResendAfter + 1)]
        BY <1>7 DEF Tick, Tracked
  <2> QED
      BY <1>7, <2>1, <2>2 DEF Tick
<1>8. CASE Stop
      BY <1>8 DEF Stop, StopRequested, Disconnect, PoolDown
<1>9. CASE UNCHANGED vars
      BY <1>9 DEF vars
<1> QED
    BY <1>1, <1>2, <1>3, <1>4, <1>5, <1>6, <1>7, <1>8, <1>9 DEF Next, Timing

\* Settling transactions: the promises that get a value are those of calls
\* whose entries go away.
LEMMA SettleKeeps ==
    ASSUME IInv, NEW S \in SUBSET Seqs, NEW result \in {"ACCEPTED", "FAILED"},
           Settle(S, result),
           \A c \in Calls : cpc'[c] \in {"send", "wait"} => cpc[c] \in {"send", "wait"}
    PROVE  PromiseHasOneSetter'
<1> USE LinkAssumption DEF IInv, TypeOK
<1>1. \A c \in Calls : promise'[c] = "none" =>
          promise[c] = "none" /\ \A s \in S : owner[s] # c
      BY DEF Settle
<1>2. ASSUME NEW c \in Calls, cpc'[c] \in {"send", "wait"}, promise'[c] = "none"
      PROVE  owner'[SeqOf[c]] = c
      BY <1>1, <1>2 DEF Settle, PromiseHasOneSetter
<1>3. ASSUME NEW s \in Tracked'
      PROVE  promise'[owner'[s]] = "none" /\ SeqOf[owner'[s]] = s
  <2>1. s \in Tracked /\ s \notin S /\ owner'[s] = owner[s]
        BY <1>3 DEF Settle, Tracked
  <2>2. owner[s] \in Calls /\ promise[owner[s]] = "none" /\ SeqOf[owner[s]] = s
        BY <2>1 DEF PromiseHasOneSetter, Tracked
  <2>3. \A r \in S : owner[r] # owner[s]
        BY <2>1, <2>2 DEF PromiseHasOneSetter, Tracked
  <2> QED
      BY <2>1, <2>2, <2>3 DEF Settle
<1> QED
    BY <1>2, <1>3 DEF PromiseHasOneSetter

\* Settling transactions does not touch a call that has not begun.
LEMMA SettleIdle ==
    ASSUME IInv, NEW S \in SUBSET Seqs, NEW result, Settle(S, result),
           \A c \in Calls : cpc'[c] = "idle" => cpc[c] = "idle"
    PROVE  IdleInv'
BY LinkAssumption DEF IInv, TypeOK, IdleInv, Settle

\* Every step leaves each pending promise with exactly one entry that can set it.
LEMMA NextPromise ==
    IInv /\ [Next]_vars => PromiseHasOneSetter' /\ IdleInv' /\ FreshInv'
<1> SUFFICES ASSUME IInv, [Next]_vars
             PROVE  PromiseHasOneSetter' /\ IdleInv' /\ FreshInv'
    OBVIOUS
<1> USE LinkAssumption DEF IInv, TypeOK
<1>1. ASSUME NEW c \in Calls, Track(c)
      PROVE  PromiseHasOneSetter' /\ IdleInv' /\ FreshInv'
  <2>1. CASE owner[SeqOf[c]] = NoCall
    <3>1. /\ owner' = [owner EXCEPT ![SeqOf[c]] = c]
          /\ cpc' = [cpc EXCEPT ![c] = "send"]
          /\ promise' = promise /\ waited' = waited /\ cpc[c] = "idle"
          BY <1>1, <2>1 DEF Track, Insert
    <3>2. PromiseHasOneSetter'
          BY <2>1, <3>1 DEF PromiseHasOneSetter, Tracked, IdleInv
    <3> QED
        BY <3>1, <3>2 DEF IdleInv, FreshInv
  <2>2. CASE owner[SeqOf[c]] # NoCall
        BY <1>1, <2>2 DEF Track, trackerVars, PromiseHasOneSetter, Tracked,
           IdleInv, FreshInv
  <2> QED
      BY <2>1, <2>2
<1>2. ASSUME NEW c \in Calls, Send(c) \/ Return(c) \/ GiveUp(c)
      PROVE  PromiseHasOneSetter' /\ IdleInv' /\ FreshInv'
      BY <1>2 DEF Send, Return, GiveUp, PromiseHasOneSetter, Tracked, IdleInv,
         FreshInv
<1>3. ASSUME NEW c \in Calls, SendFails(c)
      PROVE  PromiseHasOneSetter' /\ IdleInv' /\ FreshInv'
  <2>1. /\ cpc' = [cpc EXCEPT ![c] = "returned"] /\ waited' = waited
        /\ Settle({SeqOf[c]}, "FAILED")
        BY <1>3 DEF SendFails, Resolve
  <2>2. FreshInv'
        BY <2>1 DEF FreshInv
  <2>3. PromiseHasOneSetter'
        BY <2>1, SettleKeeps
  <2>4. IdleInv'
        BY <2>1, SettleIdle
  <2> QED
      BY <2>2, <2>3, <2>4
<1>4. ASSUME NEW s \in Seqs, ProcessAck(s)
      PROVE  PromiseHasOneSetter' /\ IdleInv' /\ FreshInv'
  <2>1. cpc' = cpc /\ waited' = waited /\ Settle({s}, "ACCEPTED")
        BY <1>4 DEF ProcessAck, Resolve
  <2> QED
      BY <2>1, SettleKeeps, SettleIdle DEF FreshInv
<1>5. CASE CheckTimeouts
  <2>1. PICK S \in SUBSET Seqs : Settle(S, "FAILED")
        BY <1>5 DEF CheckTimeouts, Overdue, Tracked
  <2>2. cpc' = cpc /\ waited' = waited
        BY <1>5 DEF CheckTimeouts
  <2> QED
      BY <2>1, <2>2, SettleKeeps, SettleIdle DEF FreshInv
<1>6. CASE Tick
      BY <1>6 DEF Tick, PromiseHasOneSetter, Tracked, IdleInv, FreshInv
<1>7. CASE TestRunning \/ Stop \/ UNCHANGED vars
      BY <1>7 DEF TestRunning, Stop, StopRequested, Disconnect, PoolDown, vars,
         PromiseHasOneSetter, Tracked, IdleInv, FreshInv
<1>8. ASSUME NEW s \in Seqs, ReceiveAck(s)
      PROVE  PromiseHasOneSetter' /\ IdleInv' /\ FreshInv'
      BY <1>8 DEF ReceiveAck, PromiseHasOneSetter, Tracked, IdleInv, FreshInv
<1>9. ASSUME NEW c \in Calls, PeerExecute(c)
      PROVE  PromiseHasOneSetter' /\ IdleInv' /\ FreshInv'
      BY <1>9 DEF PeerExecute, PromiseHasOneSetter, Tracked, IdleInv, FreshInv
<1> QED
    BY <1>1, <1>2, <1>3, <1>4, <1>5, <1>6, <1>7, <1>8, <1>9
       DEF Next, CallStep, Timing

\* Every step keeps the accounting of time: the timeout thread is alive while
\* the link is up, nothing is overdue right after its pass, and no call has
\* waited longer than its transaction's rounds.
LEMMA NextTiming == IInv /\ [Next]_vars => TimerInv' /\ WaitInv'
<1> SUFFICES ASSUME IInv, [Next]_vars PROVE TimerInv' /\ WaitInv'
    OBVIOUS
<1> USE LinkAssumption DEF IInv, TypeOK, max_retries
<1> DEFINE R == ResendAfter + 1
<1>1. ASSUME NEW c \in Calls, Track(c) PROVE TimerInv' /\ WaitInv'
  <2>1. CASE owner[SeqOf[c]] = NoCall
    <3>1. /\ owner' = [owner EXCEPT ![SeqOf[c]] = c]
          /\ retries' = [retries EXCEPT ![SeqOf[c]] = 0]
          /\ age' = [age EXCEPT ![SeqOf[c]] = 0]
          /\ cpc' = [cpc EXCEPT ![c] = "send"] /\ cpc[c] = "idle"
          /\ promise' = promise /\ waited' = waited /\ timer' = timer /\ link' = link
          BY <1>1, <2>1 DEF Track, Insert
    <3>2. TimerInv'
          BY <3>1 DEF TimerInv, Overdue, Tracked
    <3>3. ASSUME NEW d \in Calls, cpc'[d] \in {"send", "wait"},
                 promise'[d] = "none", timer # "exited"
          PROVE  waited'[d] <= retries'[SeqOf[d]] * R + age'[SeqOf[d]]
      <4>1. CASE d = c
            BY <3>1, <4>1 DEF FreshInv
      <4>2. CASE d # c
        <5>1. owner[SeqOf[d]] = d
              BY <3>1, <3>3, <4>2 DEF PromiseHasOneSetter
        <5>2. SeqOf[d] # SeqOf[c]
              BY <2>1, <5>1
        <5> QED
            BY <3>1, <3>3, <4>2, <5>2 DEF WaitInv
      <4> QED
          BY <4>1, <4>2
    <3> QED
        BY <3>1, <3>2, <3>3 DEF WaitInv
  <2>2. CASE owner[SeqOf[c]] # NoCall
        BY <1>1, <2>2 DEF Track, trackerVars, TimerInv, WaitInv, Overdue, Tracked
  <2> QED
      BY <2>1, <2>2
<1>2. ASSUME NEW c \in Calls, Send(c) \/ Return(c) \/ GiveUp(c)
      PROVE  TimerInv' /\ WaitInv'
      BY <1>2 DEF Send, Return, GiveUp, TimerInv, WaitInv, Overdue, Tracked
<1>3. ASSUME NEW S \in SUBSET Seqs, NEW result \in {"ACCEPTED", "FAILED"},
             Settle(S, result),
             UNCHANGED <<link, timer, retries, age, waited>>,
             \A c \in Calls : cpc'[c] \in {"send", "wait"} => cpc[c] \in {"send", "wait"}
      PROVE  TimerInv' /\ WaitInv'
  <2>1. Overdue' \subseteq Overdue
        BY <1>3 DEF Settle, Overdue, Tracked
  <2>2. TimerInv'
        BY <1>3, <2>1 DEF TimerInv
  <2>3. \A c \in Calls : promise'[c] = "none" => promise[c] = "none"
        BY <1>3 DEF Settle
  <2>4. WaitInv'
        BY <1>3, <2>3 DEF WaitInv
  <2> QED
      BY <2>2, <2>4
<1>4. ASSUME NEW c \in Calls, SendFails(c) PROVE TimerInv' /\ WaitInv'
      BY <1>3, <1>4 DEF SendFails, Resolve
<1>5. ASSUME NEW s \in Seqs, ProcessAck(s) PROVE TimerInv' /\ WaitInv'
      BY <1>3, <1>5 DEF ProcessAck, Resolve
<1>6. CASE CheckTimeouts
  <2> DEFINE again == {s \in Overdue : retries[s] < max_retries}
  <2>1. /\ timer = "due" /\ timer' = "test" /\ link' = link
        /\ cpc' = cpc /\ waited' = waited
        /\ retries' = [s \in Seqs |-> IF s \in again THEN retries[s] + 1
                                                     ELSE retries[s]]
        /\ age' = [s \in Seqs |-> IF s \in again THEN 0 ELSE age[s]]
        /\ Settle(Overdue \ again, "FAILED")
        BY <1>6 DEF CheckTimeouts
  <2>2. Overdue' = {}
        BY <2>1 DEF Settle, Overdue, Tracked
  <2>3. ASSUME NEW c \in Calls, cpc[c] \in {"send", "wait"}, promise'[c] = "none"
        PROVE  waited[c] <= retries'[SeqOf[c]] * R + age'[SeqOf[c]]
    <3>1. promise[c] = "none" /\ waited[c] <= retries[SeqOf[c]] * R + age[SeqOf[c]]
          BY <2>1, <2>3 DEF Settle, WaitInv
    <3>2. CASE SeqOf[c] \notin again
          BY <2>1, <3>1, <3>2
    <3>3. CASE SeqOf[c] \in again
      <4>1. retries'[SeqOf[c]] = retries[SeqOf[c]] + 1 /\ age'[SeqOf[c]] = 0
            BY <2>1, <3>3
      <4>2. age[SeqOf[c]] <= R
            OBVIOUS
      <4>3. (retries[SeqOf[c]] + 1) * R = retries[SeqOf[c]] * R + R
            OBVIOUS
      <4> QED
          BY <3>1, <4>1, <4>2, <4>3
    <3> QED
        BY <3>2, <3>3
  <2> QED
      BY <2>1, <2>2, <2>3 DEF TimerInv, WaitInv
<1>7. CASE TestRunning
      BY <1>7 DEF TestRunning, TimerInv, WaitInv, Overdue, Tracked
<1>8. CASE Tick
  <2>1. TimerInv'
        BY <1>8 DEF Tick, TimerInv
  <2>2. ASSUME timer # "exited", NEW c \in Calls, cpc[c] \in {"send", "wait"},
               promise[c] = "none"
        PROVE  waited'[c] <= retries[SeqOf[c]] * R + age'[SeqOf[c]]
    <3>1. Overdue = {}
          BY <1>8, <2>2 DEF Tick, TimerInv
    <3>2. SeqOf[c] \in Tracked /\ age[SeqOf[c]] <= ResendAfter
          BY <2>2, <3>1 DEF PromiseHasOneSetter, Overdue, Tracked
    <3>3. age'[SeqOf[c]] = age[SeqOf[c]] + 1 /\ waited'[c] <= waited[c] + 1
          BY <1>8, <3>2 DEF Tick
    <3>4. waited[c] <= retries[SeqOf[c]] * R + age[SeqOf[c]]
          BY <2>2 DEF WaitInv
    <3>5. retries[SeqOf[c]] * R \in Nat /\ waited'[c] \in Nat
          BY <1>8 DEF Tick
    <3> QED
        BY <3>3, <3>4, <3>5
  <2>3. WaitInv'
        BY <1>8, <2>2 DEF Tick, WaitInv
  <2> QED
      BY <2>1, <2>3
<1>9. CASE Stop \/ UNCHANGED vars
      BY <1>9 DEF Stop, StopRequested, Disconnect, PoolDown, vars, TimerInv,
         WaitInv, Overdue, Tracked
<1>10. ASSUME NEW s \in Seqs, ReceiveAck(s) PROVE TimerInv' /\ WaitInv'
      BY <1>10 DEF ReceiveAck, TimerInv, WaitInv, Overdue, Tracked
<1>11. ASSUME NEW c \in Calls, PeerExecute(c) PROVE TimerInv' /\ WaitInv'
      BY <1>11 DEF PeerExecute, TimerInv, WaitInv, Overdue, Tracked
<1> QED
    BY <1>1, <1>2, <1>4, <1>5, <1>6, <1>7, <1>8, <1>9, <1>10, <1>11
       DEF Next, CallStep, Timing

\* A wait that has reached 3 s has outlasted every round of its transaction,
\* which cannot happen while the timeout thread runs.
LEMMA NextTimeout == IInv /\ [Next]_vars => TimeoutOnlyAfterStop'
<1> SUFFICES ASSUME IInv, [Next]_vars PROVE TimeoutOnlyAfterStop'
    OBVIOUS
<1> USE LinkAssumption DEF IInv, TypeOK, max_retries
<1>1. ASSUME NEW c \in Calls, GiveUp(c) PROVE TimeoutOnlyAfterStop'
  <2> SUFFICES ASSUME link = "up" PROVE FALSE
      BY <1>1 DEF GiveUp, TimeoutOnlyAfterStop
  <2>1. /\ waited[c] = WaitLimit
        /\ waited[c] <= retries[SeqOf[c]] * (ResendAfter + 1) + age[SeqOf[c]]
        BY <1>1 DEF GiveUp, TimerInv, WaitInv
  <2>2. retries[SeqOf[c]] \in 0..3 /\ age[SeqOf[c]] \in 0..(ResendAfter + 1)
        OBVIOUS
  <2>3. retries[SeqOf[c]] * (ResendAfter + 1) <= 3 * (ResendAfter + 1)
        BY <2>2
  <2> QED
      BY <2>1, <2>2, <2>3
<1>2. ASSUME NEW c \in Calls, Track(c) PROVE TimeoutOnlyAfterStop'
      BY <1>2 DEF Track, TimeoutOnlyAfterStop
<1>3. ASSUME NEW c \in Calls, Send(c) \/ SendFails(c) \/ Return(c)
      PROVE  TimeoutOnlyAfterStop'
      BY <1>3 DEF Send, SendFails, Return, TimeoutOnlyAfterStop
<1>4. ASSUME NEW c \in Calls, PeerExecute(c) PROVE TimeoutOnlyAfterStop'
      BY <1>4 DEF PeerExecute, TimeoutOnlyAfterStop
<1>5. ASSUME NEW s \in Seqs, ReceiveAck(s) \/ ProcessAck(s)
      PROVE  TimeoutOnlyAfterStop'
      BY <1>5 DEF ReceiveAck, ProcessAck, TimeoutOnlyAfterStop
<1>6. CASE Timing
      BY <1>6 DEF Timing, CheckTimeouts, TestRunning, Tick, TimeoutOnlyAfterStop
<1>7. CASE Stop \/ UNCHANGED vars
      BY <1>7 DEF Stop, StopRequested, Disconnect, PoolDown, vars,
         TimeoutOnlyAfterStop
<1> QED
    BY <1>1, <1>2, <1>3, <1>4, <1>5, <1>6, <1>7 DEF Next, CallStep

\* The strengthened invariant holds throughout.
LEMMA InvariantHolds == Spec => []IInv
<1>1. IInv /\ [Next]_vars => IInv'
      BY NextTypeOK, NextPromise, NextTiming, NextTimeout DEF IInv
<1> QED
    BY InitIInv, <1>1, PTL DEF Spec

\* Calls, transactions, timers and outcomes stay in their types, retries
\* within max_retries and waits within WaitLimit.
THEOREM TypeCorrect == Spec => []TypeOK
<1>1. IInv => TypeOK
      BY DEF IInv
<1> QED
    BY <1>1, InvariantHolds, PTL

\* A waiting call can always still be answered, and no promise is set twice,
\* for any number of calls, with distinct or shared sequence numbers.
THEOREM EveryPromiseHasOneSetter == Spec => []PromiseHasOneSetter
<1>1. IInv => PromiseHasOneSetter
      BY DEF IInv
<1> QED
    BY InvariantHolds, <1>1, PTL

\* While the link is up no call runs into the 3 s limit of wait_for, for every
\* timing in which 3 s exceed four rounds of the resend timeout.
THEOREM NoTimeoutWhileUp == Spec => []TimeoutOnlyAfterStop
<1>1. IInv => TimeoutOnlyAfterStop
      BY DEF IInv
<1> QED
    BY InvariantHolds, <1>1, PTL

-----------------------------------------------------------------------------
(* Refinement of CommandService *)

\* The program counter of a call and its outcome agree.
OutcomeInv ==
    \A c \in Calls :
        /\ cpc[c] = "idle" <=> outcome[c] = "none"
        /\ cpc[c] \in {"send", "wait"} <=> outcome[c] = "pending"

\* Only commands of calls that have begun are in the network, and an ACK, in
\* the network, in the pool or in a promise, stands for an executed command.
AckInv ==
    /\ \A c \in Calls : [cmd |-> c] \in net => outcome[c] # "none"
    /\ \A c \in Calls : [ack |-> SeqOf[c]] \in net => c \in executed
    /\ \A c \in Calls : SeqOf[c] \in pool => c \in executed
    /\ \A c \in Calls : promise[c] = "ACCEPTED" => c \in executed

\* The invariant of the refinement.
RInv == IInv /\ OutcomeInv /\ AckInv

\* The outcome of a call follows its program counter in every step.
LEMMA NextOutcome == RInv /\ [Next]_vars => OutcomeInv'
<1> SUFFICES ASSUME RInv, [Next]_vars PROVE OutcomeInv'
    OBVIOUS
<1> USE DEF RInv, IInv, TypeOK, OutcomeInv
<1>1. ASSUME NEW c \in Calls, CallStep(c) PROVE OutcomeInv'
      BY <1>1 DEF CallStep, Track, Send, SendFails, Return, GiveUp
<1>2. ASSUME NEW c \in Calls, PeerExecute(c) PROVE OutcomeInv'
      BY <1>2 DEF PeerExecute
<1>3. ASSUME NEW s \in Seqs, ReceiveAck(s) \/ ProcessAck(s) PROVE OutcomeInv'
      BY <1>3 DEF ReceiveAck, ProcessAck
<1>4. CASE Timing
      BY <1>4 DEF Timing, CheckTimeouts, TestRunning, Tick
<1>5. CASE Stop \/ UNCHANGED vars
      BY <1>5 DEF Stop, StopRequested, Disconnect, PoolDown, vars
<1> QED
    BY <1>1, <1>2, <1>3, <1>4, <1>5 DEF Next

\* With distinct sequence numbers no step makes an ACK for a command that has
\* not been executed.
LEMMA NextAck ==
    ASSUME DistinctSeqs PROVE RInv /\ [Next]_vars => AckInv'
<1> SUFFICES ASSUME RInv, [Next]_vars PROVE AckInv'
    OBVIOUS
<1> USE LinkAssumption DEF RInv, IInv, TypeOK, AckInv
<1>1. ASSUME NEW c \in Calls, Track(c) PROVE AckInv'
      BY <1>1 DEF Track
<1>2. ASSUME NEW c \in Calls, Send(c) PROVE AckInv'
      BY <1>2 DEF Send, OutcomeInv
<1>3. ASSUME NEW c \in Calls, SendFails(c) PROVE AckInv'
      BY <1>3 DEF SendFails, Resolve, Settle
<1>4. ASSUME NEW c \in Calls, Return(c) \/ GiveUp(c) PROVE AckInv'
      BY <1>4 DEF Return, GiveUp
<1>5. ASSUME NEW c \in Calls, PeerExecute(c) PROVE AckInv'
      BY <1>5 DEF PeerExecute, DistinctSeqs
<1>6. ASSUME NEW s \in Seqs, ReceiveAck(s) PROVE AckInv'
      BY <1>6 DEF ReceiveAck
<1>7. ASSUME NEW s \in Seqs, ProcessAck(s) PROVE AckInv'
  <2>1. \A c \in Calls : promise'[c] = "ACCEPTED" => c \in executed
    <3> SUFFICES ASSUME NEW c \in Calls, promise'[c] = "ACCEPTED"
                 PROVE  c \in executed
        OBVIOUS
    <3>1. CASE owner[s] = c
      <4>1. SeqOf[c] = s
            BY <3>1 DEF PromiseHasOneSetter, Tracked
      <4> QED
          BY <1>7, <4>1 DEF ProcessAck
    <3>2. CASE owner[s] # c
          BY <1>7, <3>2 DEF ProcessAck, Resolve, Settle
    <3> QED
        BY <3>1, <3>2
  <2> QED
      BY <1>7, <2>1 DEF ProcessAck
<1>8. CASE CheckTimeouts
  <2> DEFINE again == {s \in Overdue : retries[s] < max_retries}
  <2>1. net' = net \cup {[cmd |-> owner[s]] : s \in again}
        BY <1>8 DEF CheckTimeouts
  <2>2. outcome' = outcome /\ executed' = executed /\ pool' = pool
        BY <1>8 DEF CheckTimeouts
  <2>3. \A c \in Calls : [cmd |-> c] \in net' => outcome[c] # "none"
    <3> SUFFICES ASSUME NEW c \in Calls, NEW s \in again, [cmd |-> owner[s]] = [cmd |-> c]
                 PROVE  outcome[c] # "none"
        BY <2>1
    <3>1. s \in Seqs /\ owner[s] = c
          BY DEF Overdue, Tracked
    <3> QED
        BY <3>1 DEF IdleInv, OutcomeInv
  <2>4. \A c \in Calls : [ack |-> SeqOf[c]] \in net' => [ack |-> SeqOf[c]] \in net
        BY <2>1
  <2>5. \A c \in Calls : promise'[c] = "ACCEPTED" => promise[c] = "ACCEPTED"
        BY <1>8 DEF CheckTimeouts, Settle
  <2> QED
      BY <2>2, <2>3, <2>4, <2>5
<1>9. CASE TestRunning \/ Tick \/ Stop \/ UNCHANGED vars
      BY <1>9 DEF TestRunning, Tick, Stop, StopRequested, Disconnect, PoolDown, vars
<1> QED
    BY <1>1, <1>2, <1>3, <1>4, <1>5, <1>6, <1>7, <1>8, <1>9
       DEF Next, CallStep, Timing

\* Every step of the link is a step of CommandService or leaves it unchanged.
LEMMA StepRefines ==
    ASSUME RInv, [Next]_vars PROVE [Service!Next]_(Service!vars)
<1> USE DEF RInv, IInv, TypeOK, OutcomeInv, Service!Next, Service!vars
<1>1. ASSUME NEW c \in Calls, Track(c) PROVE Service!Next
      BY <1>1 DEF Track, Service!Begin, Service!Throw
<1>2. ASSUME NEW c \in Calls, Return(c) PROVE Service!Next
  <2>1. outcome[c] = "pending" /\ executed' = executed
        BY <1>2 DEF Return
  <2>2. PICK r \in {"accepted", "rejected"} :
            /\ r = "accepted" => promise[c] = "ACCEPTED"
            /\ outcome' = [outcome EXCEPT ![c] = r]
        BY <1>2 DEF Return
  <2> QED
      BY <2>1, <2>2 DEF AckInv, Service!End, Service!Endings
<1>3. ASSUME NEW c \in Calls, SendFails(c) PROVE Service!Next
  <2>1. /\ outcome[c] = "pending" /\ executed' = executed
        /\ outcome' = [outcome EXCEPT ![c] = "send_failed"]
        BY <1>3 DEF SendFails
  <2> QED
      BY <2>1 DEF Service!End, Service!Endings
<1>4. ASSUME NEW c \in Calls, GiveUp(c) PROVE Service!Next
  <2>1. /\ outcome[c] = "pending" /\ executed' = executed
        /\ outcome' = [outcome EXCEPT ![c] = "timeout"]
        BY <1>4 DEF GiveUp
  <2> QED
      BY <2>1 DEF Service!End, Service!Endings
<1>5. ASSUME NEW c \in Calls, PeerExecute(c) PROVE Service!Next
      BY <1>5 DEF PeerExecute, AckInv, Service!Execute
<1>6. ASSUME NEW c \in Calls, Send(c) PROVE UNCHANGED Service!vars
      BY <1>6 DEF Send
<1>7. ASSUME NEW s \in Seqs, ReceiveAck(s) \/ ProcessAck(s)
      PROVE  UNCHANGED Service!vars
      BY <1>7 DEF ReceiveAck, ProcessAck
<1>8. CASE Timing \/ Stop \/ UNCHANGED vars
      BY <1>8 DEF Timing, CheckTimeouts, TestRunning, Tick, Stop, StopRequested,
         Disconnect, PoolDown, vars
<1> QED
    BY <1>1, <1>2, <1>3, <1>4, <1>5, <1>6, <1>7, <1>8 DEF Next, CallStep

\* With a sequence number of its own for each call, the link implements
\* CommandService: a call reports "accepted" only for an executed command.
THEOREM LinkImplementsService ==
    ASSUME DistinctSeqs PROVE Spec => Implements
<1>1. Init => RInv
      BY InitIInv DEF Init, RInv, OutcomeInv, AckInv
<1>2. RInv /\ [Next]_vars => RInv'
  <2>1. IInv /\ [Next]_vars => IInv'
        BY NextTypeOK, NextPromise, NextTiming, NextTimeout DEF IInv
  <2> QED
      BY <2>1, NextOutcome, NextAck DEF RInv
<1>3. Init => Service!Init
      BY DEF Init, Service!Init
<1>4. RInv /\ [Next]_vars => [Service!Next]_(Service!vars)
      BY StepRefines
<1> QED
    BY <1>1, <1>2, <1>3, <1>4, PTL DEF Spec, Implements, Service!Spec

=============================================================================
