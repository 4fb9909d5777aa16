----------------------------- MODULE TaskQueue -----------------------------
(***************************************************************************)
(* The worker pool of RoCommLink (class TaskQueue): a heap of tasks ordered *)
(* by deadline, a mutex, one condition variable, a fixed set of workers,    *)
(* producers that push tasks and owners that shut the pool down.            *)
(*                                                                         *)
(* Every section of the code that runs under _mutex is one action.  The     *)
(* notification that follows push, push_delayed and shutdown happens after  *)
(* the mutex is released, so it is an action of its own.  Clock::now() is   *)
(* the logical clock now.                                                   *)
(***************************************************************************)
EXTENDS Naturals, FiniteSets

CONSTANTS
    Workers,    \* the threads started by the constructor
    Clients,    \* the threads that call push and push_delayed
    Closers,    \* the threads that call shutdown (stop, the destructor)
    Tasks,      \* the tasks, each of which is handed to the pool at most once
    Delays,     \* the delays given to push_delayed
    MaxTime,    \* the bound of the logical clock
    NoTask      \* "this worker holds no task"

\* threads = 0 would be a pool that never runs anything; RoCommLink asks for
\* at least one thread.  Every deadline lies within the bounded clock.
ASSUME PoolAssumption ==
    /\ Workers # {}
    /\ IsFiniteSet(Workers) /\ IsFiniteSet(Clients)
    /\ MaxTime \in Nat
    /\ Delays \subseteq 1..MaxTime
    /\ NoTask \notin Tasks

VARIABLES
    now,        \* Clock::now()
    tasks,      \* the contents of _tasks
    executeAt,  \* TaskItem::execute_at of every task pushed so far
    isShutdown, \* _is_shutdown
    wpc,        \* where each worker is in worker_loop
    wakeAt,     \* when a sleeping worker's wait_until expires
    holds,      \* the task a worker has popped and is running
    cpc,        \* where each producer is in push or push_delayed
    spc,        \* where each owner is in shutdown
    accepted,   \* history: the tasks that entered the heap
    refused,    \* history: the tasks dropped because the pool was closed
    finished    \* history: the tasks whose callback has returned

vars == <<now, tasks, executeAt, isShutdown, wpc, wakeAt, holds, cpc, spc,
          accepted, refused, finished>>

\* wait() without a deadline.
Never == MaxTime + 1

TypeOK ==
    /\ now \in 0..MaxTime
    /\ tasks \subseteq Tasks
    /\ executeAt \in [Tasks -> 0..MaxTime]
    /\ isShutdown \in BOOLEAN
    /\ wpc \in [Workers -> {"look", "sleep", "run", "exited"}]
    /\ wakeAt \in [Workers -> 0..Never]
    /\ holds \in [Workers -> Tasks \cup {NoTask}]
    /\ cpc \in [Clients -> {"idle", "notify_one", "notify_all"}]
    /\ spc \in [Closers -> {"idle", "notify_all", "join", "returned", "joined"}]
    /\ accepted \subseteq Tasks
    /\ refused \subseteq Tasks
    /\ finished \subseteq Tasks

Init ==
    /\ now = 0
    /\ tasks = {}
    /\ executeAt = [t \in Tasks |-> 0]
    /\ isShutdown = FALSE
    /\ wpc = [w \in Workers |-> "look"]
    /\ wakeAt = [w \in Workers |-> Never]
    /\ holds = [w \in Workers |-> NoTask]
    /\ cpc = [c \in Clients |-> "idle"]
    /\ spc = [s \in Closers |-> "idle"]
    /\ accepted = {}
    /\ refused = {}
    /\ finished = {}

-----------------------------------------------------------------------------
(* Producers *)

Fresh == Tasks \ (accepted \cup refused)

\* The locked half of push and push_delayed: a closed pool drops the task.
Enqueue(c, t, at, how) ==
    /\ cpc[c] = "idle"
    /\ IF isShutdown
       THEN /\ refused' = refused \cup {t}
            /\ UNCHANGED <<tasks, executeAt, cpc, accepted>>
       ELSE /\ tasks' = tasks \cup {t}
            /\ executeAt' = [executeAt EXCEPT ![t] = at]
            /\ cpc' = [cpc EXCEPT ![c] = how]
            /\ accepted' = accepted \cup {t}
            /\ UNCHANGED refused
    /\ UNCHANGED <<now, isShutdown, wpc, wakeAt, holds, spc, finished>>

\* push(f): due at once, one waiter will be notified.
Push(c) == \E t \in Fresh : Enqueue(c, t, now, "notify_one")

\* push_delayed(f, delay): due later, every waiter will be notified.
PushDelayed(c) ==
    \E t \in Fresh, d \in Delays :
        now + d <= MaxTime /\ Enqueue(c, t, now + d, "notify_all")

Sleepers == {w \in Workers : wpc[w] = "sleep"}

\* The waiters in W leave the wait set and compete for the mutex again.
Awaken(W) == wpc' = [w \in Workers |-> IF w \in W THEN "look" ELSE wpc[w]]

\* Mutant of NotifyOne: the notification is forgotten.
NotifyOne_Forgotten(c) ==
    /\ cpc[c] = "notify_one"
    /\ cpc' = [cpc EXCEPT ![c] = "idle"]
    /\ UNCHANGED <<now, tasks, executeAt, isShutdown, wpc, wakeAt, holds, spc,
                   accepted, refused, finished>>

\* _cv.notify_one(): any one waiter, or nobody when there is none.
NotifyOne(c) ==
    /\ cpc[c] = "notify_one"
    /\ cpc' = [cpc EXCEPT ![c] = "idle"]
    /\ \/ \E w \in Sleepers : Awaken({w})
       \/ Sleepers = {} /\ UNCHANGED wpc
    /\ UNCHANGED <<now, tasks, executeAt, isShutdown, wakeAt, holds, spc,
                   accepted, refused, finished>>

\* Mutant of NotifyAll: push_delayed notifies one waiter, as push does.
NotifyAll_One(c) ==
    /\ cpc[c] = "notify_all"
    /\ cpc' = [cpc EXCEPT ![c] = "idle"]
    /\ \/ \E w \in Sleepers : Awaken({w})
       \/ Sleepers = {} /\ UNCHANGED wpc
    /\ UNCHANGED <<now, tasks, executeAt, isShutdown, wakeAt, holds, spc,
                   accepted, refused, finished>>

\* _cv.notify_all() of push_delayed.
NotifyAll(c) ==
    /\ cpc[c] = "notify_all"
    /\ cpc' = [cpc EXCEPT ![c] = "idle"]
    /\ Awaken(Sleepers)
    /\ UNCHANGED <<now, tasks, executeAt, isShutdown, wakeAt, holds, spc,
                   accepted, refused, finished>>

-----------------------------------------------------------------------------
(* Workers *)

\* Mutant of Tops: the heap without std::greater, the latest deadline on top.
Tops_MaxHeap == {t \in tasks : \A u \in tasks : executeAt[t] >= executeAt[u]}

\* _tasks.top(): a task with the earliest deadline; the heap breaks ties
\* arbitrarily.
Tops == {t \in tasks : \A u \in tasks : executeAt[t] <= executeAt[u]}

\* Mutant of Exit: a closed pool is left without looking at the heap.
Exit_WithoutDraining(w) ==
    /\ wpc[w] = "look"
    /\ isShutdown
    /\ wpc' = [wpc EXCEPT ![w] = "exited"]
    /\ UNCHANGED <<now, tasks, executeAt, isShutdown, wakeAt, holds, cpc, spc,
                   accepted, refused, finished>>

\* Closed and empty: the worker thread returns.
Exit(w) ==
    /\ wpc[w] = "look"
    /\ isShutdown
    /\ tasks = {}
    /\ wpc' = [wpc EXCEPT ![w] = "exited"]
    /\ UNCHANGED <<now, tasks, executeAt, isShutdown, wakeAt, holds, cpc, spc,
                   accepted, refused, finished>>

\* Empty: _cv.wait(lock).
Wait(w) ==
    /\ wpc[w] = "look"
    /\ ~isShutdown
    /\ tasks = {}
    /\ wpc' = [wpc EXCEPT ![w] = "sleep"]
    /\ wakeAt' = [wakeAt EXCEPT ![w] = Never]
    /\ UNCHANGED <<now, tasks, executeAt, isShutdown, holds, cpc, spc,
                   accepted, refused, finished>>

\* The top is not due yet: _cv.wait_until(lock, top_task.execute_at).
WaitUntil(w) ==
    /\ wpc[w] = "look"
    /\ \E t \in Tops :
        /\ now < executeAt[t]
        /\ wakeAt' = [wakeAt EXCEPT ![w] = executeAt[t]]
    /\ wpc' = [wpc EXCEPT ![w] = "sleep"]
    /\ UNCHANGED <<now, tasks, executeAt, isShutdown, holds, cpc, spc,
                   accepted, refused, finished>>

\* Mutant of Take: the pop is missing.
Take_WithoutPop(w) ==
    /\ wpc[w] = "look"
    /\ \E t \in Tops :
        /\ now >= executeAt[t]
        /\ holds' = [holds EXCEPT ![w] = t]
    /\ wpc' = [wpc EXCEPT ![w] = "run"]
    /\ UNCHANGED <<now, tasks, executeAt, isShutdown, wakeAt, cpc, spc, accepted,
                   refused, finished>>

\* The top is due: move it out of the heap and leave the locked section.
Take(w) ==
    /\ wpc[w] = "look"
    /\ \E t \in Tops :
        /\ now >= executeAt[t]
        /\ tasks' = tasks \ {t}
        /\ holds' = [holds EXCEPT ![w] = t]
    /\ wpc' = [wpc EXCEPT ![w] = "run"]
    /\ UNCHANGED <<now, executeAt, isShutdown, wakeAt, cpc, spc, accepted,
                   refused, finished>>

\* The callback returns (it runs outside the lock) and the worker loops.
Finish(w) ==
    /\ wpc[w] = "run"
    /\ finished' = finished \cup {holds[w]}
    /\ holds' = [holds EXCEPT ![w] = NoTask]
    /\ wpc' = [wpc EXCEPT ![w] = "look"]
    /\ UNCHANGED <<now, tasks, executeAt, isShutdown, wakeAt, cpc, spc,
                   accepted, refused>>

\* wait_until times out.
TimeOut(w) ==
    /\ wpc[w] = "sleep"
    /\ wakeAt[w] <= now
    /\ Awaken({w})
    /\ UNCHANGED <<now, tasks, executeAt, isShutdown, wakeAt, holds, cpc, spc,
                   accepted, refused, finished>>

\* A condition variable may wake a waiter for no reason.
Spurious(w) ==
    /\ wpc[w] = "sleep"
    /\ Awaken({w})
    /\ UNCHANGED <<now, tasks, executeAt, isShutdown, wakeAt, holds, cpc, spc,
                   accepted, refused, finished>>

-----------------------------------------------------------------------------
(* Owners *)

\* The locked half of shutdown: only the first caller goes on to join.
Shutdown(s) ==
    /\ spc[s] = "idle"
    /\ spc' = [spc EXCEPT ![s] = IF isShutdown THEN "returned" ELSE "notify_all"]
    /\ isShutdown' = TRUE
    /\ UNCHANGED <<now, tasks, executeAt, wpc, wakeAt, holds, cpc, accepted,
                   refused, finished>>

\* Mutant of ShutdownNotify: one waiter is told that the pool closed.
ShutdownNotify_One(s) ==
    /\ spc[s] = "notify_all"
    /\ spc' = [spc EXCEPT ![s] = "join"]
    /\ \/ \E w \in Sleepers : Awaken({w})
       \/ Sleepers = {} /\ UNCHANGED wpc
    /\ UNCHANGED <<now, tasks, executeAt, isShutdown, wakeAt, holds, cpc,
                   accepted, refused, finished>>

\* _cv.notify_all() of shutdown.
ShutdownNotify(s) ==
    /\ spc[s] = "notify_all"
    /\ spc' = [spc EXCEPT ![s] = "join"]
    /\ Awaken(Sleepers)
    /\ UNCHANGED <<now, tasks, executeAt, isShutdown, wakeAt, holds, cpc,
                   accepted, refused, finished>>

\* worker.join() has returned for every worker.
Join(s) ==
    /\ spc[s] = "join"
    /\ \A w \in Workers : wpc[w] = "exited"
    /\ spc' = [spc EXCEPT ![s] = "joined"]
    /\ UNCHANGED <<now, tasks, executeAt, isShutdown, wpc, wakeAt, holds, cpc,
                   accepted, refused, finished>>

\* The clock advances.
Tick ==
    /\ now < MaxTime
    /\ now' = now + 1
    /\ UNCHANGED <<tasks, executeAt, isShutdown, wpc, wakeAt, holds, cpc, spc,
                   accepted, refused, finished>>

-----------------------------------------------------------------------------
ClientStep(c) == Push(c) \/ PushDelayed(c) \/ NotifyOne(c) \/ NotifyAll(c)

WorkerStep(w) ==
    Exit(w) \/ Wait(w) \/ WaitUntil(w) \/ Take(w) \/ Finish(w) \/ TimeOut(w)

CloserStep(s) == Shutdown(s) \/ ShutdownNotify(s) \/ Join(s)

Next ==
    \/ \E c \in Clients : ClientStep(c)
    \/ \E w \in Workers : WorkerStep(w) \/ Spurious(w)
    \/ \E s \in Closers : CloserStep(s)
    \/ Tick

Spec == Init /\ [][Next]_vars

\* Threads that can run do run, callbacks return, and time passes; nobody has
\* to push anything or to close the pool, and no wakeup is ever spurious.
Fairness ==
    /\ WF_vars(Tick)
    /\ \A w \in Workers : WF_vars(WorkerStep(w))
    /\ \A c \in Clients : WF_vars(NotifyOne(c) \/ NotifyAll(c))
    /\ \A s \in Closers : WF_vars(ShutdownNotify(s) \/ Join(s))

FairSpec == Spec /\ Fairness

-----------------------------------------------------------------------------
(* Safety *)

Running == {t \in Tasks : \E w \in Workers : wpc[w] = "run" /\ holds[w] = t}

\* Every task the heap accepted is in exactly one place: waiting, in the hands
\* of exactly one worker, or finished.  Nothing that was pushed is lost when
\* the pool closes, and no callback is run twice.
RunOnce ==
    /\ accepted = tasks \cup Running \cup finished
    /\ tasks \cap Running = {}
    /\ tasks \cap finished = {}
    /\ Running \cap finished = {}
    /\ \A v, w \in Workers :
        wpc[v] = "run" /\ wpc[w] = "run" /\ holds[v] = holds[w] => v = w

\* When the shutdown that joins has returned, every accepted task has run to
\* completion: closing the pool drains it, delayed tasks included.
ShutdownDrains ==
    (\E s \in Closers : spc[s] = "joined") => finished = accepted

DueTasks == {t \in tasks : executeAt[t] <= now}

\* Workers that no deadline will wake at this instant.
Asleep == {w \in Sleepers : wakeAt[w] > now}

NotifyPending ==
    \/ \E c \in Clients : cpc[c] # "idle"
    \/ \E s \in Closers : spc[s] = "notify_all"

\* The pool is work conserving: once every notification has been delivered, a
\* worker sleeps on only if there are enough awake workers, about to look at
\* the heap, for all the tasks that are due.  (This is what notify_one for
\* push and notify_all for push_delayed have to achieve together.)
WorkConserving ==
    ~NotifyPending /\ Asleep # {} =>
        Cardinality(DueTasks) <= Cardinality({w \in Workers : wpc[w] = "look"})

\* A notify_all is on its way.
AllPending ==
    \/ \E c \in Clients : cpc[c] = "notify_all"
    \/ \E s \in Closers : spc[s] = "notify_all"

\* The deadline a worker sleeps on is copied from the task that was on top when
\* it fell asleep.  Whatever is pushed, taken or closed meanwhile, once no
\* notify_all is on its way that copy is not late for any task that is still to
\* become due: every sleeper's wait ends no later than that task's deadline.
SleepersInTime ==
    ~AllPending =>
        \A w \in Sleepers, t \in tasks : executeAt[t] > now => wakeAt[w] <= executeAt[t]

-----------------------------------------------------------------------------
(* Liveness *)

\* Every task that was accepted is eventually finished.
AcceptedRuns == \A t \in Tasks : t \in accepted ~> t \in finished

\* A caller that starts the joining shutdown eventually gets out of it.
ShutdownReturns ==
    \A s \in Closers : spc[s] = "notify_all" ~> spc[s] = "joined"

=============================================================================
