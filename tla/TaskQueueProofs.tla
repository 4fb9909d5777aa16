-------------------------- MODULE TaskQueueProofs --------------------------
(***************************************************************************)
(* TaskQueue for any number of workers, producers, owners and tasks: every  *)
(* accepted task runs exactly once, and a joined shutdown has drained the   *)
(* heap.                                                                    *)
(***************************************************************************)
EXTENDS TaskQueue, FiniteSetTheorems, TLAPS

\* A worker in its callback holds a task.
HoldsTask == \A w \in Workers : wpc[w] = "run" => holds[w] \in Tasks

\* A worker leaves only a pool that is closed and empty; since a closed pool
\* accepts nothing, both stay true.
ExitedPoolEmpty ==
    \A w \in Workers : wpc[w] = "exited" => isShutdown /\ tasks = {}

\* The joining shutdown returns after every worker.
JoinedAfterExit ==
    \A s \in Closers : spc[s] = "joined" =>
        \A w \in Workers : wpc[w] = "exited"

\* The strengthening that makes RunOnce and ShutdownDrains inductive.
IInv ==
    /\ TypeOK
    /\ HoldsTask
    /\ RunOnce
    /\ ExitedPoolEmpty
    /\ JoinedAfterExit

\* The constructor's state satisfies the inductive invariant.
LEMMA InitIInv == Init => IInv
<1> SUFFICES ASSUME Init PROVE IInv
    OBVIOUS
<1>1. TypeOK
  <2>1. now \in 0..MaxTime /\ executeAt \in [Tasks -> 0..MaxTime]
        BY PoolAssumption DEF Init
  <2>2. wakeAt \in [Workers -> 0..Never]
        BY PoolAssumption DEF Init, Never
  <2>3. isShutdown \in BOOLEAN
        BY DEF Init
  <2> QED
      BY <2>1, <2>2, <2>3 DEF Init, TypeOK
<1>2. HoldsTask /\ ExitedPoolEmpty /\ JoinedAfterExit
      BY DEF Init, HoldsTask, ExitedPoolEmpty, JoinedAfterExit
<1>3. Running = {}
      BY DEF Init, Running
<1>4. RunOnce
      BY <1>3 DEF Init, RunOnce
<1> QED
    BY <1>1, <1>2, <1>4 DEF IInv

\* Every step of the pool keeps its variables in their types.
LEMMA NextTypeOK == IInv /\ [Next]_vars => TypeOK'
<1> SUFFICES ASSUME IInv, [Next]_vars PROVE TypeOK'
    OBVIOUS
<1> USE PoolAssumption DEF IInv, TypeOK, Never
<1>1. ASSUME NEW c \in Clients, NEW t \in Fresh, NEW at \in 0..MaxTime,
             NEW how \in {"notify_one", "notify_all"}, Enqueue(c, t, at, how)
      PROVE  TypeOK'
      BY <1>1 DEF Enqueue, Fresh
<1>2. ASSUME NEW c \in Clients, ClientStep(c) PROVE TypeOK'
  <2>1. CASE Push(c)
        BY <1>1, <2>1 DEF Push
  <2>2. CASE PushDelayed(c)
    <3>1. PICK t \in Fresh, d \in Delays :
              now + d <= MaxTime /\ Enqueue(c, t, now + d, "notify_all")
          BY <2>2 DEF PushDelayed
    <3>2. now + d \in 0..MaxTime
          BY <3>1
    <3> QED
        BY <1>1, <3>1, <3>2
  <2>3. CASE NotifyOne(c) \/ NotifyAll(c)
        BY <2>3 DEF NotifyOne, NotifyAll, Awaken
  <2> QED
      BY <1>2, <2>1, <2>2, <2>3 DEF ClientStep
<1>3. ASSUME NEW w \in Workers, WorkerStep(w) \/ Spurious(w) PROVE TypeOK'
      BY <1>3 DEF WorkerStep, Exit, Wait, WaitUntil, Take, Finish, TimeOut,
         Spurious, Awaken, Tops, HoldsTask
<1>4. ASSUME NEW s \in Closers, CloserStep(s) PROVE TypeOK'
      BY <1>4 DEF CloserStep, Shutdown, ShutdownNotify, Join, Awaken
<1>5. CASE Tick
      BY <1>5 DEF Tick
<1>6. CASE UNCHANGED vars
      BY <1>6 DEF vars
<1> QED
    BY <1>2, <1>3, <1>4, <1>5, <1>6 DEF Next

\* A step in which workers only move between looking, sleeping and exited, and
\* no task moves, leaves every task where it is.
LEMMA SameTasks ==
    ASSUME IInv,
           UNCHANGED <<tasks, holds, accepted, finished>>,
           \A w \in Workers : wpc'[w] = "run" <=> wpc[w] = "run"
    PROVE  RunOnce' /\ HoldsTask'
<1>1. Running' = Running
      BY DEF Running
<1> QED
    BY <1>1 DEF IInv, RunOnce, HoldsTask

\* Every step keeps each accepted task in exactly one place.
LEMMA NextRunOnce == IInv /\ [Next]_vars => RunOnce' /\ HoldsTask'
<1> SUFFICES ASSUME IInv, [Next]_vars PROVE RunOnce' /\ HoldsTask'
    OBVIOUS
<1> USE DEF IInv, TypeOK
<1>1. ASSUME NEW c \in Clients, NEW t \in Fresh, NEW at, NEW how,
             Enqueue(c, t, at, how)
      PROVE  RunOnce' /\ HoldsTask'
  <2>1. CASE isShutdown
        BY <1>1, <2>1, SameTasks DEF Enqueue
  <2>2. CASE ~isShutdown
    <3>1. Running' = Running
          BY <1>1, <2>2 DEF Enqueue, Running
    <3> QED
        BY <1>1, <2>2, <3>1 DEF Enqueue, Fresh, RunOnce, HoldsTask
  <2> QED
      BY <2>1, <2>2
<1>2. ASSUME NEW c \in Clients, NotifyOne(c) \/ NotifyAll(c)
      PROVE  RunOnce' /\ HoldsTask'
      BY <1>2, SameTasks DEF NotifyOne, NotifyAll, Awaken, Sleepers
<1>3. ASSUME NEW w \in Workers, Take(w) PROVE RunOnce' /\ HoldsTask'
  <2>1. PICK t \in Tops : tasks' = tasks \ {t} /\ holds' = [holds EXCEPT ![w] = t]
        BY <1>3 DEF Take
  <2>2. t \in tasks /\ t \in Tasks
        BY DEF Tops
  <2>3. wpc[w] = "look" /\ wpc' = [wpc EXCEPT ![w] = "run"]
        BY <1>3 DEF Take
  <2>4. accepted' = accepted /\ finished' = finished
        BY <1>3 DEF Take
  <2>5. Running' = Running \cup {t}
        BY <2>1, <2>2, <2>3 DEF Running
  <2>6. HoldsTask'
        BY <2>1, <2>2, <2>3 DEF HoldsTask
  <2>7. \A v \in Workers : wpc[v] = "run" => holds[v] # t
        BY <2>2 DEF RunOnce, Running
  <2> QED
      BY <2>1, <2>2, <2>3, <2>4, <2>5, <2>6, <2>7 DEF RunOnce
<1>4. ASSUME NEW w \in Workers, Finish(w) PROVE RunOnce' /\ HoldsTask'
  <2>1. /\ wpc[w] = "run" /\ wpc' = [wpc EXCEPT ![w] = "look"]
        /\ holds' = [holds EXCEPT ![w] = NoTask]
        /\ finished' = finished \cup {holds[w]}
        /\ accepted' = accepted /\ tasks' = tasks
        BY <1>4 DEF Finish
  <2>2. Running' = Running \ {holds[w]} /\ holds[w] \in Running
        BY <2>1 DEF Running, RunOnce, HoldsTask
  <2>3. HoldsTask'
        BY <2>1 DEF HoldsTask
  <2> QED
      BY <2>1, <2>2, <2>3 DEF RunOnce
<1>5. ASSUME NEW w \in Workers,
             Exit(w) \/ Wait(w) \/ WaitUntil(w) \/ TimeOut(w) \/ Spurious(w)
      PROVE  RunOnce' /\ HoldsTask'
      BY <1>5, SameTasks DEF Exit, Wait, WaitUntil, TimeOut, Spurious, Awaken
<1>6. ASSUME NEW s \in Closers, CloserStep(s) PROVE RunOnce' /\ HoldsTask'
      BY <1>6, SameTasks DEF CloserStep, Shutdown, ShutdownNotify, Join,
         Awaken, Sleepers
<1>7. CASE Tick \/ UNCHANGED vars
      BY <1>7, SameTasks DEF Tick, vars
<1> QED
    BY <1>1, <1>2, <1>3, <1>4, <1>5, <1>6, <1>7
       DEF Next, ClientStep, WorkerStep, Push, PushDelayed

\* A worker that has left stays away from a closed, empty pool.
LEMMA NextExited == IInv /\ [Next]_vars => ExitedPoolEmpty' /\ JoinedAfterExit'
<1> SUFFICES ASSUME IInv, [Next]_vars PROVE ExitedPoolEmpty' /\ JoinedAfterExit'
    OBVIOUS
<1> USE DEF IInv, TypeOK, ExitedPoolEmpty, JoinedAfterExit
<1>1. ASSUME NEW c \in Clients, ClientStep(c)
      PROVE  ExitedPoolEmpty' /\ JoinedAfterExit'
      BY <1>1 DEF ClientStep, Push, PushDelayed, Enqueue, NotifyOne, NotifyAll,
         Awaken, Sleepers
<1>2. ASSUME NEW w \in Workers, WorkerStep(w) \/ Spurious(w)
      PROVE  ExitedPoolEmpty' /\ JoinedAfterExit'
      BY <1>2 DEF WorkerStep, Exit, Wait, WaitUntil, Take, Finish, TimeOut,
         Spurious, Awaken
<1>3. ASSUME NEW s \in Closers, CloserStep(s)
      PROVE  ExitedPoolEmpty' /\ JoinedAfterExit'
      BY <1>3 DEF CloserStep, Shutdown, ShutdownNotify, Join, Awaken, Sleepers
<1>4. CASE Tick \/ UNCHANGED vars
      BY <1>4 DEF Tick, vars
<1> QED
    BY <1>1, <1>2, <1>3, <1>4 DEF Next

\* Type correctness of the pool.
THEOREM TypeCorrect == Spec => []TypeOK
<1>1. IInv /\ [Next]_vars => IInv'
      BY NextTypeOK, NextRunOnce, NextExited DEF IInv
<1>2. IInv => TypeOK
      BY DEF IInv
<1> QED
    BY InitIInv, <1>1, <1>2, PTL DEF Spec

\* No task accepted by push or push_delayed is lost or run twice, whatever the
\* interleaving of workers, producers and shutdown.
THEOREM AcceptedTasksRunOnce == Spec => []RunOnce
<1>1. IInv /\ [Next]_vars => IInv'
      BY NextTypeOK, NextRunOnce, NextExited DEF IInv
<1>2. IInv => RunOnce
      BY DEF IInv
<1> QED
    BY InitIInv, <1>1, <1>2, PTL DEF Spec

\* When the joining shutdown returns, every accepted task has finished.
THEOREM ShutdownDrainsPool == Spec => []ShutdownDrains
<1>1. IInv /\ [Next]_vars => IInv'
      BY NextTypeOK, NextRunOnce, NextExited DEF IInv
<1>2. IInv => ShutdownDrains
  <2> SUFFICES ASSUME IInv, NEW s \in Closers, spc[s] = "joined"
               PROVE  finished = accepted
      BY DEF ShutdownDrains
  <2>1. \A w \in Workers : wpc[w] = "exited"
        BY DEF IInv, JoinedAfterExit
  <2>2. tasks = {}
        BY <2>1, PoolAssumption DEF IInv, ExitedPoolEmpty
  <2>3. Running = {}
        BY <2>1 DEF Running
  <2> QED
      BY <2>2, <2>3 DEF IInv, RunOnce
<1> QED
    BY InitIInv, <1>1, <1>2, PTL DEF Spec

-----------------------------------------------------------------------------
(* Deadlines and notifications *)

Looking == {w \in Workers : wpc[w] = "look"}
OnePending == {c \in Clients : cpc[c] = "notify_one"}

\* For every due task there is an awake worker or a notify_one on its way.
DueCovered ==
    ~AllPending /\ Asleep # {} =>
        Cardinality(DueTasks) <= Cardinality(Looking) + Cardinality(OnePending)

\* WorkConserving made inductive: tasks are pushed one at a time, so there are
\* finitely many.
CInv == IInv /\ IsFiniteSet(tasks) /\ SleepersInTime /\ DueCovered

\* The sets that are counted are finite.
LEMMA CountedFinite ==
    ASSUME IsFiniteSet(tasks)
    PROVE  /\ IsFiniteSet(DueTasks) /\ IsFiniteSet(Looking) /\ IsFiniteSet(OnePending)
           /\ Cardinality(DueTasks) \in Nat
           /\ Cardinality(Looking) \in Nat
           /\ Cardinality(OnePending) \in Nat
<1>1. DueTasks \in SUBSET tasks /\ Looking \in SUBSET Workers /\ OnePending \in SUBSET Clients
      BY DEF DueTasks, Looking, OnePending
<1>2. IsFiniteSet(DueTasks) /\ IsFiniteSet(Looking) /\ IsFiniteSet(OnePending)
      BY <1>1, FS_Subset, PoolAssumption
<1> QED
    BY <1>2, FS_CardinalityType

\* An empty heap has no due task.
LEMMA NothingDue ==
    ASSUME IsFiniteSet(tasks), DueTasks = {}
    PROVE  Cardinality(DueTasks) <= Cardinality(Looking) + Cardinality(OnePending)
BY CountedFinite, FS_EmptySet

\* A step that takes no cover away keeps the due tasks covered.
LEMMA StaysCovered ==
    ASSUME CInv, IsFiniteSet(tasks'), ~AllPending' => ~AllPending,
           Asleep' # {} => Asleep # {} /\ DueTasks' \subseteq DueTasks,
           Looking \subseteq Looking', OnePending \subseteq OnePending'
    PROVE  DueCovered'
<1> SUFFICES ASSUME ~AllPending', Asleep' # {}
             PROVE  Cardinality(DueTasks') <= Cardinality(Looking') + Cardinality(OnePending')
    BY DEF DueCovered
<1>1. /\ IsFiniteSet(DueTasks) /\ IsFiniteSet(Looking') /\ IsFiniteSet(OnePending')
      /\ Cardinality(DueTasks') \in Nat /\ Cardinality(DueTasks) \in Nat
      /\ Cardinality(Looking') \in Nat /\ Cardinality(Looking) \in Nat
      /\ Cardinality(OnePending') \in Nat /\ Cardinality(OnePending) \in Nat
  <2>1. IsFiniteSet(tasks)
        BY DEF CInv
  <2>2. DueTasks' \in SUBSET tasks' /\ Looking' \in SUBSET Workers /\ OnePending' \in SUBSET Clients
        BY DEF DueTasks, Looking, OnePending
  <2>3. IsFiniteSet(DueTasks') /\ IsFiniteSet(Looking') /\ IsFiniteSet(OnePending')
        BY <2>2, FS_Subset, PoolAssumption
  <2> QED
      BY <2>1, <2>3, CountedFinite, FS_CardinalityType
<1>2. Cardinality(DueTasks') <= Cardinality(DueTasks)
      BY <1>1, FS_Subset
<1>3. Cardinality(Looking) <= Cardinality(Looking')
      BY <1>1, FS_Subset
<1>4. Cardinality(OnePending) <= Cardinality(OnePending')
      BY <1>1, FS_Subset
<1>5. Cardinality(DueTasks) <= Cardinality(Looking) + Cardinality(OnePending)
      BY DEF CInv, DueCovered
<1> QED
    BY <1>1, <1>2, <1>3, <1>4, <1>5

\* push adds a task that is due together with a notify_one; push_delayed starts
\* a notify_all; a closed pool takes neither.
LEMMA EnqueueCovered ==
    ASSUME CInv, NEW c \in Clients, NEW t \in Fresh, NEW at \in 0..MaxTime,
           NEW how \in {"notify_one", "notify_all"}, Enqueue(c, t, at, how),
           how = "notify_one" => at = now
    PROVE  IsFiniteSet(tasks') /\ SleepersInTime' /\ DueCovered'
<1> USE PoolAssumption DEF CInv, IInv, TypeOK
<1>1. CASE isShutdown
  <2>1. UNCHANGED <<tasks, executeAt, cpc, now, wpc, wakeAt, spc>>
        BY <1>1 DEF Enqueue
  <2>2. SleepersInTime'
        BY <2>1 DEF SleepersInTime, AllPending, Sleepers
  <2> QED
      BY <2>1, <2>2, StaysCovered
         DEF AllPending, Asleep, Sleepers, DueTasks, Looking, OnePending
<1>2. CASE ~isShutdown
  <2>1. /\ tasks' = tasks \cup {t} /\ executeAt' = [executeAt EXCEPT ![t] = at]
        /\ cpc' = [cpc EXCEPT ![c] = how] /\ cpc[c] = "idle"
        /\ UNCHANGED <<now, wpc, wakeAt, spc>>
        BY <1>2 DEF Enqueue
  <2>2. t \notin tasks
        BY DEF Fresh, RunOnce
  <2>3. IsFiniteSet(tasks')
        BY <2>1, FS_AddElement
  <2>4. CASE how = "notify_all"
    <3>1. AllPending'
          BY <2>1, <2>4 DEF AllPending
    <3> QED
        BY <2>3, <3>1 DEF SleepersInTime, DueCovered
  <2>5. CASE how = "notify_one"
    <3>1. at = now
          BY <2>5
    <3>2. AllPending' = AllPending /\ Sleepers' = Sleepers /\ Asleep' = Asleep /\ Looking' = Looking
          BY <2>1, <2>5 DEF AllPending, Sleepers, Asleep, Looking
    <3>a. /\ executeAt'[t] = now /\ now' = now /\ now <= now
          /\ \A u \in tasks : executeAt'[u] = executeAt[u]
          BY <2>1, <2>2, <3>1 DEF Fresh
    <3>3. SleepersInTime'
      <4> SUFFICES ASSUME ~AllPending', NEW w \in Sleepers', NEW u \in tasks',
                          executeAt'[u] > now'
                   PROVE  wakeAt'[w] <= executeAt'[u]
          BY DEF SleepersInTime
      <4>1. u # t
            BY <3>a
      <4>2. u \in tasks
            BY <2>1, <4>1
      <4> QED
          BY <2>1, <3>2, <3>a, <4>2 DEF SleepersInTime
    <3>4. DueTasks' = DueTasks \cup {t} /\ t \notin DueTasks
      <4> HIDE DEF TypeOK
      <4> QED
          BY <2>1, <2>2, <3>a DEF DueTasks
    <3>5. OnePending' = OnePending \cup {c} /\ c \notin OnePending
          BY <2>1, <2>5 DEF OnePending
    <3>6. /\ Cardinality(DueTasks') = Cardinality(DueTasks) + 1
          /\ Cardinality(OnePending') = Cardinality(OnePending) + 1
          BY <3>4, <3>5, CountedFinite, FS_AddElement
    <3>7. DueCovered'
          BY <3>2, <3>6, CountedFinite DEF DueCovered
    <3> QED
        BY <2>3, <3>3, <3>7
  <2> QED
      BY <2>4, <2>5
<1> QED
    BY <1>1, <1>2

\* notify_one turns a notification into an awake worker, unless nobody sleeps.
LEMMA NotifyOneCovered ==
    ASSUME CInv, NEW c \in Clients, NotifyOne(c)
    PROVE  IsFiniteSet(tasks') /\ SleepersInTime' /\ DueCovered'
<1> USE DEF CInv, IInv, TypeOK
<1>1. /\ cpc' = [cpc EXCEPT ![c] = "idle"] /\ cpc[c] = "notify_one"
      /\ UNCHANGED <<tasks, executeAt, now, wakeAt, spc>>
      BY DEF NotifyOne
<1>2. AllPending' = AllPending /\ DueTasks' = DueTasks
      BY <1>1 DEF AllPending, DueTasks
<1>3. CASE Sleepers = {} /\ UNCHANGED wpc
  <2>1. Sleepers' = {} /\ Asleep' = {}
        BY <1>3 DEF Sleepers, Asleep
  <2> QED
      BY <1>1, <2>1 DEF SleepersInTime, DueCovered
<1>4. ASSUME NEW w \in Sleepers, Awaken({w})
      PROVE  SleepersInTime' /\ DueCovered'
  <2>1. wpc' = [wpc EXCEPT ![w] = "look"] /\ w \in Workers /\ wpc[w] = "sleep"
        BY <1>4 DEF Awaken, Sleepers
  <2>2. Sleepers' \subseteq Sleepers /\ Asleep' \subseteq Asleep
        BY <1>1, <2>1 DEF Sleepers, Asleep
  <2>3. SleepersInTime'
        BY <1>1, <1>2, <2>2 DEF SleepersInTime
  <2>4. Looking' = Looking \cup {w} /\ w \notin Looking
        BY <2>1 DEF Looking
  <2>5. OnePending' = OnePending \ {c} /\ c \in OnePending
        BY <1>1 DEF OnePending
  <2>6. /\ Cardinality(Looking') = Cardinality(Looking) + 1
        /\ Cardinality(OnePending') = Cardinality(OnePending) - 1
        BY <2>4, <2>5, CountedFinite, FS_AddElement, FS_RemoveElement
  <2>7. DueCovered'
        BY <1>2, <2>2, <2>6, CountedFinite DEF DueCovered
  <2> QED
      BY <2>3, <2>7
<1> QED
    BY <1>1, <1>3, <1>4 DEF NotifyOne

\* After notify_all nobody sleeps.
LEMMA NotifyAllCovered ==
    ASSUME CInv, UNCHANGED tasks, Awaken(Sleepers)
    PROVE  IsFiniteSet(tasks') /\ SleepersInTime' /\ DueCovered'
<1>1. Sleepers' = {} /\ Asleep' = {}
      BY DEF Awaken, Sleepers, Asleep
<1> QED
    BY <1>1 DEF CInv, SleepersInTime, DueCovered

\* A worker that takes a due task is one looking worker and one due task less;
\* one that leaves or goes to sleep has seen that nothing is due.
LEMMA WorkerCovered ==
    ASSUME CInv, NEW w \in Workers, WorkerStep(w) \/ Spurious(w)
    PROVE  IsFiniteSet(tasks') /\ SleepersInTime' /\ DueCovered'
<1> USE PoolAssumption DEF CInv, IInv, TypeOK
<1>1. CASE Take(w)
  <2>1. PICK t \in Tops : /\ now >= executeAt[t]
                          /\ tasks' = tasks \ {t}
        BY <1>1 DEF Take
  <2>2. /\ wpc[w] = "look" /\ wpc' = [wpc EXCEPT ![w] = "run"]
        /\ UNCHANGED <<now, executeAt, wakeAt, cpc, spc>>
        BY <1>1 DEF Take
  <2>3. t \in tasks /\ executeAt[t] <= now
        BY <2>1 DEF Tops
  <2>4. IsFiniteSet(tasks')
        BY <2>1, FS_RemoveElement
  <2>5. /\ AllPending' = AllPending /\ Sleepers' = Sleepers /\ Asleep' = Asleep
        /\ OnePending' = OnePending
        BY <2>2 DEF AllPending, Sleepers, Asleep, OnePending
  <2>6. SleepersInTime'
        BY <2>1, <2>2, <2>5 DEF SleepersInTime
  <2>7. Looking' = Looking \ {w} /\ w \in Looking
        BY <2>2 DEF Looking
  <2>8. DueTasks' = DueTasks \ {t} /\ t \in DueTasks
        BY <2>1, <2>2, <2>3 DEF DueTasks
  <2>9. /\ Cardinality(Looking') = Cardinality(Looking) - 1
        /\ Cardinality(DueTasks') = Cardinality(DueTasks) - 1
        BY <2>7, <2>8, CountedFinite, FS_RemoveElement
  <2>10. DueCovered'
        BY <2>5, <2>9, CountedFinite DEF DueCovered
  <2> QED
      BY <2>4, <2>6, <2>10
<1>2. ASSUME UNCHANGED <<now, tasks, executeAt, cpc, spc>>, DueTasks = {}
      PROVE  IsFiniteSet(tasks') /\ DueCovered'
  <2>1. DueTasks' = {} /\ OnePending' = OnePending
        BY <1>2 DEF DueTasks, OnePending
  <2>2. Looking' \in SUBSET Workers
        BY DEF Looking
  <2>3. Cardinality(Looking') \in Nat
        BY <2>2, FS_Subset, FS_CardinalityType
  <2>4. Cardinality(DueTasks') <= Cardinality(Looking') + Cardinality(OnePending')
        BY <2>1, <2>3, CountedFinite, FS_EmptySet
  <2> QED
      BY <1>2, <2>4 DEF DueCovered
<1>3. CASE Exit(w) \/ Wait(w)
  <2>1. tasks = {} /\ UNCHANGED <<now, tasks, executeAt, cpc, spc>>
        BY <1>3 DEF Exit, Wait
  <2>2. DueTasks = {}
        BY <2>1 DEF DueTasks
  <2>3. SleepersInTime'
        BY <2>1 DEF SleepersInTime
  <2> QED
      BY <1>2, <2>1, <2>2, <2>3
<1>4. CASE WaitUntil(w)
  <2>1. PICK t \in Tops : /\ now < executeAt[t]
                          /\ wakeAt' = [wakeAt EXCEPT ![w] = executeAt[t]]
        BY <1>4 DEF WaitUntil
  <2>2. /\ wpc' = [wpc EXCEPT ![w] = "sleep"]
        /\ UNCHANGED <<now, tasks, executeAt, cpc, spc>>
        BY <1>4 DEF WaitUntil
  <2>3. t \in tasks /\ \A u \in tasks : executeAt[t] <= executeAt[u]
        BY DEF Tops
  <2>4. DueTasks = {}
        BY <2>1, <2>3 DEF DueTasks
  <2>5. SleepersInTime'
    <3> SUFFICES ASSUME ~AllPending', NEW v \in Sleepers', NEW u \in tasks',
                        executeAt'[u] > now'
                 PROVE  wakeAt'[v] <= executeAt'[u]
        BY DEF SleepersInTime
    <3>1. ~AllPending /\ u \in tasks /\ executeAt[u] > now
          BY <2>2 DEF AllPending
    <3>2. CASE v = w
          BY <2>1, <2>2, <2>3, <3>1, <3>2
    <3>3. CASE v # w
      <4>1. v \in Sleepers /\ wakeAt'[v] = wakeAt[v]
            BY <2>1, <2>2, <3>3 DEF Sleepers
      <4> QED
          BY <2>2, <3>1, <4>1 DEF SleepersInTime
    <3> QED
        BY <3>2, <3>3
  <2> QED
      BY <1>2, <2>2, <2>4, <2>5
<1>5. CASE Finish(w) \/ TimeOut(w) \/ Spurious(w)
  <2>1. /\ UNCHANGED <<now, tasks, executeAt, wakeAt, cpc, spc>>
        /\ wpc' = [wpc EXCEPT ![w] = "look"]
    <3>1. CASE Finish(w)
          BY <3>1 DEF Finish
    <3>2. CASE TimeOut(w) \/ Spurious(w)
          BY <3>2 DEF TimeOut, Spurious, Awaken
    <3> QED
        BY <1>5, <3>1, <3>2
  <2>2. /\ Sleepers' \subseteq Sleepers /\ Asleep' \subseteq Asleep
        /\ AllPending' = AllPending /\ DueTasks' = DueTasks
        /\ Looking \subseteq Looking' /\ OnePending' = OnePending
        BY <2>1 DEF Sleepers, Asleep, AllPending, DueTasks, Looking, OnePending
  <2>3. SleepersInTime'
        BY <2>1, <2>2 DEF SleepersInTime
  <2> QED
      BY <2>1, <2>2, <2>3, StaysCovered
<1> QED
    BY <1>1, <1>3, <1>4, <1>5 DEF WorkerStep

\* shutdown notifies all before it joins.
LEMMA CloserCovered ==
    ASSUME CInv, NEW s \in Closers, CloserStep(s)
    PROVE  IsFiniteSet(tasks') /\ SleepersInTime' /\ DueCovered'
<1> USE DEF CInv, IInv, TypeOK
<1>1. CASE ShutdownNotify(s)
      BY <1>1, NotifyAllCovered DEF ShutdownNotify
<1>2. CASE Shutdown(s) \/ Join(s)
  <2>1. /\ UNCHANGED <<now, tasks, executeAt, wpc, wakeAt, cpc>>
        /\ AllPending => AllPending'
        BY <1>2 DEF Shutdown, Join, AllPending
  <2>2. /\ Sleepers' = Sleepers /\ Asleep' = Asleep /\ DueTasks' = DueTasks
        /\ Looking' = Looking /\ OnePending' = OnePending
        BY <2>1 DEF Sleepers, Asleep, DueTasks, Looking, OnePending
  <2>3. SleepersInTime'
        BY <2>1, <2>2 DEF SleepersInTime
  <2> QED
      BY <2>1, <2>2, <2>3, StaysCovered
<1> QED
    BY <1>1, <1>2 DEF CloserStep

\* Time passes: a task that becomes due finds no worker that sleeps longer.
LEMMA TickCovered ==
    ASSUME CInv, Tick
    PROVE  IsFiniteSet(tasks') /\ SleepersInTime' /\ DueCovered'
<1> USE PoolAssumption DEF CInv, IInv, TypeOK
<1>1. /\ UNCHANGED <<tasks, executeAt, wpc, wakeAt, cpc, spc>>
      /\ now' = now + 1 /\ now \in Nat
      BY DEF Tick
<1>2. /\ Sleepers' = Sleepers /\ AllPending' = AllPending
      /\ Looking' = Looking /\ OnePending' = OnePending
      BY <1>1 DEF Sleepers, AllPending, Looking, OnePending
<1>3. \A t \in tasks : executeAt[t] \in Nat
      OBVIOUS
<1>4. \A w \in Sleepers : wakeAt[w] \in Nat
      BY DEF Sleepers, Never
<1>5. SleepersInTime'
  <2> SUFFICES ASSUME ~AllPending', NEW w \in Sleepers', NEW t \in tasks',
                      executeAt'[t] > now'
               PROVE  wakeAt'[w] <= executeAt'[t]
      BY DEF SleepersInTime
  <2>1. ~AllPending /\ w \in Sleepers /\ t \in tasks /\ executeAt[t] > now
        BY <1>1, <1>2, <1>3
  <2> QED
      BY <1>1, <2>1 DEF SleepersInTime
<1>6. ASSUME ~AllPending', Asleep' # {} PROVE Asleep # {} /\ DueTasks' \subseteq DueTasks
  <2>1. PICK w \in Sleepers : wakeAt[w] > now + 1
        BY <1>1, <1>2, <1>6 DEF Asleep
  <2>2. wakeAt[w] > now
        BY <1>1, <1>4, <2>1
  <2>3. ASSUME NEW t \in tasks, executeAt[t] <= now + 1 PROVE executeAt[t] <= now
    <3>1. executeAt[t] > now => wakeAt[w] <= executeAt[t]
          BY <1>2, <1>6 DEF SleepersInTime
    <3> QED
        BY <1>1, <1>3, <1>4, <2>1, <2>3, <3>1
  <2> QED
      BY <1>1, <2>1, <2>2, <2>3 DEF Asleep, DueTasks
<1>7. DueCovered'
  <2>1. CASE AllPending'
        BY <2>1 DEF DueCovered
  <2>2. CASE ~AllPending'
    <3>1. /\ ~AllPending' => ~AllPending
          /\ Asleep' # {} => Asleep # {} /\ DueTasks' \subseteq DueTasks
          BY <1>2, <1>6, <2>2
    <3> QED
        BY <1>1, <1>2, <3>1, StaysCovered
  <2> QED
      BY <2>1, <2>2
<1> QED
    BY <1>1, <1>5, <1>7

\* Every step keeps the due tasks covered.
LEMMA NextCInv == CInv /\ [Next]_vars => CInv'
<1> SUFFICES ASSUME CInv, [Next]_vars
             PROVE  IsFiniteSet(tasks') /\ SleepersInTime' /\ DueCovered'
    BY NextTypeOK, NextRunOnce, NextExited DEF CInv, IInv
<1>1. ASSUME NEW c \in Clients, ClientStep(c)
      PROVE  IsFiniteSet(tasks') /\ SleepersInTime' /\ DueCovered'
  <2>1. CASE Push(c)
    <3>1. now \in 0..MaxTime
          BY DEF CInv, IInv, TypeOK
    <3> QED
        BY <2>1, <3>1, EnqueueCovered DEF Push
  <2>2. CASE PushDelayed(c)
    <3>1. PICK t \in Fresh, d \in Delays :
              now + d <= MaxTime /\ Enqueue(c, t, now + d, "notify_all")
          BY <2>2 DEF PushDelayed
    <3>2. now + d \in 0..MaxTime
          BY <3>1, PoolAssumption DEF CInv, IInv, TypeOK
    <3> QED
        BY <3>1, <3>2, EnqueueCovered
  <2>3. CASE NotifyAll(c)
        BY <2>3, NotifyAllCovered DEF NotifyAll
  <2> QED
      BY <1>1, <2>1, <2>2, <2>3, NotifyOneCovered DEF ClientStep
<1>2. CASE UNCHANGED vars
  <2>1. SleepersInTime'
        BY <1>2 DEF CInv, vars, SleepersInTime, AllPending, Sleepers
  <2>2. DueCovered'
        BY <1>2 DEF CInv, vars, DueCovered, AllPending, Asleep, Sleepers, DueTasks,
           Looking, OnePending
  <2> QED
      BY <1>2, <2>1, <2>2 DEF CInv, vars
<1> QED
    BY <1>1, <1>2, WorkerCovered, CloserCovered, TickCovered DEF Next

\* The constructor's state satisfies it: nobody sleeps.
LEMMA InitCInv == Init => CInv
<1> SUFFICES ASSUME Init PROVE IsFiniteSet(tasks) /\ SleepersInTime /\ DueCovered
    BY InitIInv DEF CInv
<1>1. tasks = {} /\ Sleepers = {}
      BY DEF Init, Sleepers
<1>2. Asleep = {}
      BY <1>1 DEF Asleep
<1> QED
    BY <1>1, <1>2, FS_EmptySet DEF SleepersInTime, DueCovered

\* A worker that sleeps until the deadline it saw on top does not miss an
\* earlier one pushed meanwhile: once no notify_all is on its way, every sleeper
\* wakes by the deadline of every task that is not yet due.
THEOREM NoStaleDeadline == Spec => []SleepersInTime
<1>1. CInv => SleepersInTime
      BY DEF CInv
<1> QED
    BY InitCInv, <1>1, NextCInv, PTL DEF Spec

\* No due task is left waiting while a worker sleeps on: when all notifications
\* have been delivered there is an awake worker for each due task, although
\* they are sent after the mutex is released and push wakes only one waiter.
THEOREM PoolIsWorkConserving == Spec => []WorkConserving
<1>1. CInv => WorkConserving
  <2> SUFFICES ASSUME CInv, ~NotifyPending, Asleep # {}
               PROVE  Cardinality(DueTasks) <= Cardinality(Looking)
      BY DEF WorkConserving, Looking
  <2>1. OnePending = {} /\ ~AllPending
        BY DEF NotifyPending, OnePending, AllPending
  <2>2. Cardinality(OnePending) = 0
        BY <2>1, FS_EmptySet
  <2> QED
      BY <2>1, <2>2, CountedFinite DEF CInv, DueCovered
<1> QED
    BY InitCInv, <1>1, NextCInv, PTL DEF Spec

=============================================================================
