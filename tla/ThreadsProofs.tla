--------------------------- MODULE ThreadsProofs ---------------------------
(***************************************************************************)
(* Two programs with two threads each.  PipeSessions: for every set of       *)
(* clients and every set of descriptor numbers with enough of them.          *)
(* RobotControl: for every program and every number of keys.                 *)
(***************************************************************************)
EXTENDS PipeSessions, RobotControl, FiniteSetTheorems, TLAPS

-----------------------------------------------------------------------------
(* The sessions of the pipe server *)

Acceptors == [at : {"idle", "opened", "reading", "decide", "joining"},
              request : Fds \cup {None}, id : ClientIds \cup {None},
              fd : Fds \cup {None}]

Pollers == [at : {"top", "snapshot", "poll", "next", "find", "switch", "reading"},
            polled : SUBSET (Fds \X ClientIds), ready : SUBSET (Fds \X ClientIds),
            id : ClientIds \cup {None}, proxy : Fds \cup {None}]

\* Every handle refers to the file it was made for: the sessions' to their
\* clients' FIFOs, the acceptor's to the request FIFO and to those of the client
\* that joins, the proxies to those of the client that is served.
SessionFiles(f, reg) ==
    /\ DOMAIN reg \subseteq ClientIds
    /\ reg = [id \in DOMAIN reg |-> reg[id]]
    /\ \A id \in DOMAIN reg : reg[id] \in Fds /\ f[reg[id]] = id

AcceptorFiles(f, reg, a) ==
    /\ IF a.at = "idle" THEN a.request = None
                        ELSE a.request \in Fds /\ f[a.request] = Request
    /\ a.at \in {"decide", "joining"} => a.id \in ClientIds
    /\ IF a.at = "joining"
       THEN a.fd \in Fds /\ f[a.fd] = a.id /\ a.id \notin DOMAIN reg
       ELSE a.fd = None

PollerFiles(f, p) ==
    /\ p.at \in {"top", "snapshot", "poll"} => p.ready = {}
    /\ IF p.at \in {"find", "switch", "reading"}
       THEN p.proxy \in Fds /\ p.id \in ClientIds /\ f[p.proxy] = p.id
       ELSE p.proxy = None

Files(f, reg, a, p) ==
    /\ f \in [Fds -> ClientIds \cup {Request, None}]
    /\ SessionFiles(f, reg)
    /\ a \in Acceptors /\ AcceptorFiles(f, reg, a)
    /\ p \in Pollers /\ p.ready \subseteq p.polled /\ PollerFiles(f, p)

\* The shared member belongs to the thread that has the guard.
GuardInv(gd, act, a, p) ==
    /\ gd \in {None, "acceptor", "poller"}
    /\ gd = "acceptor" <=> a.at = "reading"
    /\ gd = "poller" <=> p.at = "reading"
    /\ act = CASE gd = "acceptor" -> a.request
               [] gd = "poller" -> p.proxy
               [] OTHER -> None

\* A number that no handle holds is free.
NothingLeaks(f, held) == \A n \in Fds : f[n] # None => n \in held

\* The strengthening that makes the properties inductive.
SessionsInv ==
    /\ Files(file, registry, acceptor, poller)
    /\ GuardInv(guard, active, acceptor, poller)
    /\ NothingLeaks(file, Held(registry, acceptor, poller))

-----------------------------------------------------------------------------
(* Descriptors *)

\* A set of numbers that is not empty has a least one.
LEMMA LeastNumber ==
    ASSUME NEW S, S \subseteq Nat, S # {}
    PROVE  Min(S) \in S
<1> DEFINE less == {ss \in Nat \X Nat : ss[1] < ss[2]}
<1>1. IsWellFoundedOn(less, Nat)
      BY NatLessThanWellFounded DEF OpToRel
<1>2. PICK x \in S : \A y \in S : ~ (<<y, x>> \in less)
      BY <1>1, WFMin, Zenon
<1>3. ASSUME NEW y \in S PROVE x =< y
  <2>1. x \in Nat /\ y \in Nat
        OBVIOUS
  <2>2. y < x => <<y, x>> \in less
        BY <2>1
  <2>3. ~ (y < x)
        BY <1>2, <2>2
  <2> QED
      BY <2>1, <2>3
<1> QED
    BY <1>3 DEF Min

\* There is always a number left for open().
LEMMA FreeDescriptor ==
    ASSUME SessionsAssumption, SessionsInv, acceptor.fd = None
    PROVE  Lowest \in Fds /\ file[Lowest] = None
<1> DEFINE images == {registry[id] : id \in DOMAIN registry}
           most == (images \cup {acceptor.request}) \cup {poller.proxy}
<1>1. /\ DOMAIN registry \in SUBSET ClientIds
      /\ registry = [id \in DOMAIN registry |-> registry[id]]
      BY DEF SessionsInv, Files, SessionFiles
<1>2. IsFiniteSet(DOMAIN registry) /\ Cardinality(DOMAIN registry) <= Cardinality(ClientIds)
      BY <1>1, FS_Subset DEF SessionsAssumption
<1>3. registry \in Surjection(DOMAIN registry, images)
      BY <1>1 DEF Surjection
<1>4. IsFiniteSet(images) /\ Cardinality(images) <= Cardinality(DOMAIN registry)
      BY <1>2, <1>3, FS_Surjection
<1>5. /\ Cardinality(ClientIds) \in Nat /\ Cardinality(images) \in Nat
      /\ Cardinality(DOMAIN registry) \in Nat
      BY <1>2, <1>4, FS_CardinalityType DEF SessionsAssumption
<1> HIDE DEF images
<1>6. /\ IsFiniteSet(images \cup {acceptor.request})
      /\ Cardinality(images \cup {acceptor.request}) \in {Cardinality(images), Cardinality(images) + 1}
      BY <1>4, FS_AddElement
<1>7. /\ IsFiniteSet(most)
      /\ Cardinality(most) \in {Cardinality(images \cup {acceptor.request}),
                                Cardinality(images \cup {acceptor.request}) + 1}
      BY <1>6, FS_AddElement
<1>8. Cardinality(most) <= Cardinality(ClientIds) + 2
      BY <1>2, <1>4, <1>5, <1>6, <1>7
<1>9. ~ (Fds \subseteq most)
  <2> HIDE DEF most
  <2>1. Cardinality(Fds) \in Nat /\ Cardinality(most) \in Nat
        BY <1>7, FS_CardinalityType DEF SessionsAssumption
  <2>2. Fds \in SUBSET most => Cardinality(Fds) <= Cardinality(most)
        BY <1>7, FS_Subset
  <2> QED
      BY <2>1, <2>2, <1>5, <1>8 DEF SessionsAssumption
<1>10. {f \in Fds : file[f] = None} # {}
  <2>1. PICK n \in Fds : n \notin most
        BY <1>9
  <2>2. n # None
        BY DEF SessionsAssumption
  <2>3. n \notin Held(registry, acceptor, poller)
        BY <2>1, <2>2 DEF Held, images
  <2> QED
      BY <2>3 DEF SessionsInv, NothingLeaks
<1> QED
    BY <1>10, LeastNumber DEF Lowest, SessionsAssumption

\* Closing what nobody holds takes no file from a handle, and frees the rest.
LEMMA ClosedKeeps ==
    ASSUME SessionsAssumption, NEW f, NEW reg, NEW a, NEW p, Files(f, reg, a, p)
    PROVE  /\ Files(Closed(f, Held(reg, a, p)), reg, a, p)
           /\ NothingLeaks(Closed(f, Held(reg, a, p)), Held(reg, a, p))
<1> DEFINE g == Closed(f, Held(reg, a, p))
<1>1. g \in [Fds -> ClientIds \cup {Request, None}]
      BY DEF Closed, Files
<1>2. \A n \in Fds : n \in Held(reg, a, p) => g[n] = f[n]
      BY DEF Closed
<1>3. NothingLeaks(g, Held(reg, a, p))
      BY DEF Closed, NothingLeaks
<1> HIDE DEF g
<1>4. SessionFiles(g, reg)
      BY <1>2 DEF Files, SessionFiles, Held
<1>5. AcceptorFiles(g, reg, a)
      BY <1>2 DEF Files, AcceptorFiles, Held
<1>6. PollerFiles(g, p)
      BY <1>2 DEF Files, PollerFiles, Held
<1> QED
    BY <1>1, <1>3, <1>4, <1>5, <1>6 DEF Files, g

\* open() takes no file from a handle either.
LEMMA OpenedKeeps ==
    ASSUME SessionsAssumption, NEW f, NEW reg, NEW a, NEW p, Files(f, reg, a, p),
           NEW n \in Fds, f[n] = None, NEW what \in ClientIds \cup {Request}
    PROVE  Files([f EXCEPT ![n] = what], reg, a, p) /\ [f EXCEPT ![n] = what][n] = what
<1> DEFINE g == [f EXCEPT ![n] = what]
<1>1. g \in [Fds -> ClientIds \cup {Request, None}] /\ g[n] = what
      BY DEF Files
<1>2. \A m \in Fds : f[m] # None => g[m] = f[m]
      BY DEF Files
<1> HIDE DEF g
<1>3. SessionFiles(g, reg)
      BY <1>2 DEF Files, SessionFiles, SessionsAssumption
<1>4. AcceptorFiles(g, reg, a)
      BY <1>2 DEF Files, AcceptorFiles, SessionsAssumption, Request
<1>5. PollerFiles(g, p)
      BY <1>2 DEF Files, PollerFiles, SessionsAssumption
<1> QED
    BY <1>1, <1>3, <1>4, <1>5 DEF Files, g

-----------------------------------------------------------------------------
(* The threads *)

\* Nothing is open, nobody has the guard.
LEMMA SessionsStart == ASSUME SessionsAssumption, SessionsInit PROVE SessionsInv
<1>1. AcceptorIdle \in Acceptors /\ PollerTop \in Pollers
      BY DEF AcceptorIdle, PollerTop, Acceptors, Pollers
<1>2. Files(file, registry, acceptor, poller)
      BY <1>1 DEF SessionsInit, Files, SessionFiles, AcceptorFiles, PollerFiles, AcceptorIdle, PollerTop
<1>3. GuardInv(guard, active, acceptor, poller)
      BY DEF SessionsInit, GuardInv, AcceptorIdle, PollerTop, SessionsAssumption
<1>4. NothingLeaks(file, Held(registry, acceptor, poller))
      BY DEF SessionsInit, NothingLeaks
<1> QED
    BY <1>2, <1>3, <1>4 DEF SessionsInv

\* What an action that closes descriptors has to establish.
LEMMA ByClosing ==
    ASSUME SessionsAssumption,
           Files(file, registry', acceptor', poller'),
           GuardInv(guard', active', acceptor', poller'),
           file' = Closed(file, Held(registry', acceptor', poller'))
    PROVE  SessionsInv'
BY ClosedKeeps, Zenon DEF SessionsInv

\* The acceptor idles again, or goes on with the request of a client.
LEMMA AcceptorNext ==
    ASSUME SessionsAssumption, NEW f, NEW reg, NEW a, NEW p, Files(f, reg, a, p)
    PROVE  /\ Files(f, reg, AcceptorIdle, p)
           /\ a.at = "reading" => \A id \in ClientIds :
                Files(f, reg, [a EXCEPT !.at = "decide", !.id = id], p)
<1>1. AcceptorIdle \in Acceptors
      BY DEF AcceptorIdle, Acceptors
<1>2. Files(f, reg, AcceptorIdle, p)
      BY <1>1 DEF Files, AcceptorFiles, AcceptorIdle
<1>3. ASSUME a.at = "reading", NEW id \in ClientIds
      PROVE  Files(f, reg, [a EXCEPT !.at = "decide", !.id = id], p)
      BY <1>3 DEF Files, AcceptorFiles, Acceptors
<1> QED
    BY <1>2, <1>3

\* The polling thread is done with an entry.
LEMMA PollerNext ==
    ASSUME SessionsAssumption, NEW f, NEW reg, NEW a, NEW p, Files(f, reg, a, p)
    PROVE  Files(f, reg, a, PollerTop) /\ Files(f, reg, a, Onward(p))
<1>1. PollerTop \in Pollers
      BY DEF PollerTop, Pollers
<1>2. Files(f, reg, a, PollerTop)
      BY <1>1 DEF Files, PollerFiles, PollerTop
<1>3. ASSUME p.ready # {} PROVE Files(f, reg, a, Onward(p))
      BY <1>3 DEF Files, PollerFiles, Onward, Pollers
<1> QED
    BY <1>2, <1>3 DEF Onward

\* Sessions that go leave the others as they are.
LEMMA WithoutKeeps ==
    ASSUME Files(file, registry, acceptor, poller), NEW ids
    PROVE  Files(file, Without(ids), acceptor, poller)
BY DEF Files, SessionFiles, AcceptorFiles, Without

\* The acceptor thread keeps the invariant.
LEMMA AcceptorKeeps ==
    ASSUME SessionsAssumption, SessionsInv,
           \/ OpenRequest \/ AcceptorSwitch \/ Register
           \/ \E id \in ClientIds \cup {None} : ReadRequest(id)
           \/ \E remove \in BOOLEAN : Decide(remove)
    PROVE  SessionsInv'
<1>0. /\ Files(file, registry, acceptor, poller)
      /\ GuardInv(guard, active, acceptor, poller)
      /\ acceptor \in Acceptors
      BY DEF SessionsInv, Files
<1>1. CASE OpenRequest
  <2>1. Lowest \in Fds /\ file[Lowest] = None
        BY <1>0, <1>1, FreeDescriptor DEF OpenRequest, Files, AcceptorFiles
  <2>2. Files(file', registry, acceptor, poller) /\ file'[Lowest] = Request
    <3>1. Request \in ClientIds \cup {Request}
          OBVIOUS
    <3>2. PICK n \in Fds : n = Lowest
          BY <2>1
    <3>3. file[n] = None /\ file' = [file EXCEPT ![n] = Request]
          BY <1>1, <2>1, <3>2, Zenon DEF OpenRequest
    <3>4. Files([file EXCEPT ![n] = Request], registry, acceptor, poller)
          /\ [file EXCEPT ![n] = Request][n] = Request
          BY <1>0, <3>1, <3>3, OpenedKeeps, Zenon
    <3> QED
        BY <3>2, <3>3, <3>4, Zenon
  <2>3. acceptor' = [acceptor EXCEPT !.at = "opened", !.request = Lowest]
        BY <1>1 DEF OpenRequest
  <2> HIDE DEF Lowest
  <2>4. Files(file', registry', acceptor', poller')
    <3>1. acceptor' \in Acceptors /\ AcceptorFiles(file', registry, acceptor')
          BY <1>0, <1>1, <2>1, <2>2, <2>3 DEF OpenRequest, Files, AcceptorFiles, Acceptors
    <3> QED
        BY <2>2, <3>1, <1>1 DEF OpenRequest, Files
  <2>5. GuardInv(guard', active', acceptor', poller')
        BY <1>0, <1>1, <2>3 DEF OpenRequest, GuardInv, Acceptors
  <2>6. NothingLeaks(file', Held(registry', acceptor', poller'))
    <3>1. acceptor.request = None /\ acceptor'.request = Lowest /\ acceptor'.fd = acceptor.fd
          BY <1>0, <1>1, <2>3 DEF OpenRequest, Files, AcceptorFiles, Acceptors
    <3>2. \A n \in Fds : n # Lowest => file'[n] = file[n]
          BY <1>0, <1>1 DEF OpenRequest, Files
    <3> QED
        BY <1>1, <3>1, <3>2 DEF OpenRequest, SessionsInv, NothingLeaks, Held, SessionsAssumption
  <2> QED
      BY <2>4, <2>5, <2>6 DEF SessionsInv
<1>2. CASE AcceptorSwitch
  <2>1. /\ acceptor' \in Acceptors /\ acceptor'.at = "reading"
        /\ acceptor'.request = acceptor.request /\ acceptor'.fd = acceptor.fd
        BY <1>0, <1>2 DEF AcceptorSwitch, Acceptors
  <2>2. Files(file', registry', acceptor', poller')
        BY <1>0, <1>2, <2>1 DEF AcceptorSwitch, Files, AcceptorFiles
  <2>3. GuardInv(guard', active', acceptor', poller')
        BY <1>0, <1>2, <2>1 DEF AcceptorSwitch, Switch, GuardInv, SessionsAssumption
  <2>4. NothingLeaks(file', Held(registry', acceptor', poller'))
        BY <1>2, <2>1 DEF AcceptorSwitch, SessionsInv, NothingLeaks, Held
  <2> QED
      BY <2>2, <2>3, <2>4 DEF SessionsInv
<1>3. CASE Register
  <2>1. Files(file, registry', acceptor', poller')
    <3>1. SessionFiles(file, registry')
          BY <1>0, <1>3 DEF Register, Files, SessionFiles, AcceptorFiles
    <3> QED
        BY <1>0, <1>3, <3>1, AcceptorNext DEF Register, Files, AcceptorFiles, AcceptorIdle
  <2>2. GuardInv(guard', active', acceptor', poller')
        BY <1>0, <1>3 DEF Register, GuardInv, AcceptorIdle
  <2> QED
      BY <1>3, <2>1, <2>2, ByClosing DEF Register
<1>4. ASSUME NEW id \in ClientIds \cup {None}, ReadRequest(id) PROVE SessionsInv'
  <2>1. Files(file, registry', acceptor', poller')
        BY <1>0, <1>4, AcceptorNext DEF ReadRequest
  <2>2. acceptor'.at # "reading" /\ poller.at # "reading"
        BY <1>0, <1>4 DEF ReadRequest, GuardInv, AcceptorIdle, Acceptors
  <2>3. GuardInv(guard', active', acceptor', poller')
        BY <1>4, <2>2 DEF ReadRequest, Restore, GuardInv, SessionsAssumption
  <2> QED
      BY <1>4, <2>1, <2>3, ByClosing DEF ReadRequest
<1>5. ASSUME NEW remove \in BOOLEAN, Decide(remove), acceptor.id \in DOMAIN registry
      PROVE  SessionsInv'
  <2>1. Files(file, registry', acceptor', poller')
        BY <1>0, <1>5, AcceptorNext, WithoutKeeps DEF Decide
  <2>2. GuardInv(guard', active', acceptor', poller')
        BY <1>0, <1>5 DEF Decide, GuardInv, AcceptorIdle
  <2> QED
      BY <1>5, <2>1, <2>2, ByClosing DEF Decide
<1>6. ASSUME NEW remove \in BOOLEAN, Decide(remove), acceptor.id \notin DOMAIN registry
      PROVE  SessionsInv'
  <2>1. Lowest \in Fds /\ file[Lowest] = None
        BY <1>0, <1>6, FreeDescriptor DEF Decide, Files, AcceptorFiles
  <2>2. acceptor.id \in ClientIds /\ acceptor.fd = None
        BY <1>0, <1>6 DEF Decide, Files, AcceptorFiles
  <2>3. Files(file', registry, acceptor, poller) /\ file'[Lowest] = acceptor.id
    <3>1. file' = [file EXCEPT ![Lowest] = acceptor.id]
          BY <1>6 DEF Decide
    <3>2. acceptor.id \in ClientIds \cup {Request}
          BY <2>2
    <3> QED
        BY <1>0, <2>1, <3>1, <3>2, OpenedKeeps, ZenonT(30)
  <2>4. acceptor' = [acceptor EXCEPT !.at = "joining", !.fd = Lowest]
        BY <1>6 DEF Decide
  <2>5. UNCHANGED <<registry, poller, active, guard>>
        BY <1>6 DEF Decide
  <2>6. acceptor.at = "decide" /\ \A n \in Fds : n # Lowest => file'[n] = file[n]
        BY <1>0, <1>6 DEF Decide, Files
  <2> HIDE DEF Lowest
  <2>7. Files(file', registry', acceptor', poller')
    <3>1. acceptor' \in Acceptors /\ AcceptorFiles(file', registry, acceptor')
          BY <1>0, <1>6, <2>1, <2>2, <2>3, <2>4, <2>6 DEF Files, AcceptorFiles, Acceptors
    <3> QED
        BY <2>3, <3>1, <2>5 DEF Files
  <2>8. GuardInv(guard', active', acceptor', poller')
        BY <1>0, <2>4, <2>5, <2>6 DEF GuardInv, Acceptors
  <2>9. NothingLeaks(file', Held(registry', acceptor', poller'))
    <3>1. acceptor'.request = acceptor.request /\ acceptor'.fd = Lowest
          BY <1>0, <2>4 DEF Acceptors
    <3> QED
        BY <2>2, <2>5, <2>6, <3>1 DEF SessionsInv, NothingLeaks, Held, SessionsAssumption
  <2> QED
      BY <2>7, <2>8, <2>9 DEF SessionsInv
<1> QED
    BY <1>1, <1>2, <1>3, <1>4, <1>5, <1>6

\* The polling thread keeps the invariant.
LEMMA PollerKeeps ==
    ASSUME SessionsAssumption, SessionsInv,
           \/ \E late \in SUBSET DOMAIN registry : Housekeep(late)
           \/ Snapshot \/ Find \/ PollerSwitch \/ Process
           \/ \E ready \in SUBSET poller.polled : Poll(ready)
           \/ \E e \in poller.ready : Lookup(e)
    PROVE  SessionsInv'
<1>0. /\ Files(file, registry, acceptor, poller)
      /\ GuardInv(guard, active, acceptor, poller)
      /\ NothingLeaks(file, Held(registry, acceptor, poller))
      /\ poller \in Pollers
      BY DEF SessionsInv, Files
<1>a. Onward(poller).at # "reading" /\ PollerTop.at # "reading"
      BY <1>0 DEF Onward, PollerTop, Pollers
<1>1. ASSUME NEW late \in SUBSET DOMAIN registry, Housekeep(late) PROVE SessionsInv'
  <2>1. Files(file, registry', acceptor', poller)
        BY <1>0, <1>1, WithoutKeeps DEF Housekeep
  <2>2. poller' \in Pollers /\ poller'.at = "snapshot" /\ poller'.proxy = poller.proxy
        /\ poller'.ready = poller.ready /\ poller'.polled = poller.polled
        BY <1>0, <1>1 DEF Housekeep, Pollers
  <2>3. poller.at = "top" /\ UNCHANGED <<active, guard, acceptor>>
        BY <1>1 DEF Housekeep
  <2>4. Files(file, registry', acceptor', poller')
        BY <2>1, <2>2, <2>3 DEF Files, PollerFiles
  <2>5. GuardInv(guard', active', acceptor', poller')
        BY <1>0, <2>2, <2>3 DEF GuardInv
  <2> QED
      BY <1>1, <2>4, <2>5, ByClosing DEF Housekeep
<1>2. CASE Snapshot
  <2>0. poller.at = "snapshot" /\ UNCHANGED <<file, registry, active, guard, acceptor>>
        BY <1>2 DEF Snapshot
  <2>1. CASE registry = <<>>
    <3>1. poller' = PollerTop
          BY <1>2, <2>1 DEF Snapshot
    <3>2. poller.proxy = None /\ poller'.proxy = None
          BY <1>0, <2>0, <3>1 DEF Files, PollerFiles, PollerTop
    <3> QED
        BY <1>0, <1>a, <2>0, <3>1, <3>2, PollerNext DEF SessionsInv, GuardInv, NothingLeaks, Held
  <2>2. CASE registry # <<>>
    <3> DEFINE all == {<<registry[id], id>> : id \in DOMAIN registry}
    <3>1. poller' = [poller EXCEPT !.at = "poll", !.polled = all]
          BY <1>2, <2>2 DEF Snapshot
    <3>2. all \in SUBSET (Fds \X ClientIds)
          BY <1>0 DEF Files, SessionFiles
    <3> HIDE DEF all
    <3>3. /\ poller' \in Pollers /\ poller'.at = "poll" /\ poller'.proxy = poller.proxy
          /\ poller'.ready = poller.ready
          BY <1>0, <3>1, <3>2 DEF Pollers
    <3>4. Files(file, registry, acceptor, poller')
          BY <1>0, <2>0, <3>3 DEF Files, PollerFiles
    <3>5. GuardInv(guard, active, acceptor, poller')
          BY <1>0, <2>0, <3>3 DEF GuardInv
    <3> QED
        BY <1>0, <2>0, <3>3, <3>4, <3>5 DEF SessionsInv, Held
  <2> QED
      BY <2>1, <2>2
<1>3. ASSUME NEW ready \in SUBSET poller.polled, Poll(ready) PROVE SessionsInv'
  <2>0. poller.at = "poll" /\ UNCHANGED <<file, registry, active, guard, acceptor>>
        BY <1>3 DEF Poll
  <2>1. CASE ready = {}
    <3>1. poller' = PollerTop
          BY <1>3, <2>1 DEF Poll
    <3>2. poller.proxy = None /\ poller'.proxy = None
          BY <1>0, <2>0, <3>1 DEF Files, PollerFiles, PollerTop
    <3> QED
        BY <1>0, <1>a, <2>0, <3>1, <3>2, PollerNext DEF SessionsInv, GuardInv, NothingLeaks, Held
  <2>2. CASE ready # {}
    <3>1. poller' = [poller EXCEPT !.at = "next", !.ready = ready]
          BY <1>3, <2>2 DEF Poll
    <3>2. /\ poller' \in Pollers /\ poller'.at = "next" /\ poller'.proxy = poller.proxy
          /\ poller'.ready \subseteq poller'.polled
          BY <1>0, <3>1 DEF Pollers
    <3>3. Files(file, registry, acceptor, poller')
          BY <1>0, <2>0, <3>2 DEF Files, PollerFiles
    <3>4. GuardInv(guard, active, acceptor, poller')
          BY <1>0, <2>0, <3>2 DEF GuardInv
    <3> QED
        BY <1>0, <2>0, <3>2, <3>3, <3>4 DEF SessionsInv, Held
  <2> QED
      BY <2>1, <2>2
<1>4. ASSUME NEW e \in poller.ready, Lookup(e) PROVE SessionsInv'
  <2> DEFINE rest == [poller EXCEPT !.ready = @ \ {e}]
  <2>0. /\ poller.at = "next" /\ UNCHANGED <<file, registry, active, guard, acceptor>>
        /\ poller' = IF e[2] \in DOMAIN registry
                     THEN [rest EXCEPT !.at = "find", !.id = e[2],
                                       !.proxy = registry[e[2]]]
                     ELSE Onward(rest)
        BY <1>4 DEF Lookup
  <2>1. /\ rest \in Pollers /\ rest.ready \subseteq rest.polled /\ rest.at = "next"
        /\ rest.proxy = poller.proxy /\ poller.proxy = None
        BY <1>0, <2>0 DEF Pollers, Files, PollerFiles
  <2> HIDE DEF rest
  <2>2. Files(file, registry, acceptor, rest)
        BY <1>0, <2>1 DEF Files, PollerFiles
  <2>3. CASE e[2] \in DOMAIN registry
    <3>1. e[2] \in ClientIds /\ registry[e[2]] \in Fds /\ file[registry[e[2]]] = e[2]
          BY <1>0, <2>3 DEF Files, SessionFiles
    <3>2. /\ poller' \in Pollers /\ poller'.at = "find"
          /\ poller'.id = e[2] /\ poller'.proxy = registry[e[2]]
          /\ poller'.ready \subseteq poller'.polled
          BY <2>0, <2>1, <2>3, <3>1 DEF Pollers
    <3>3. Files(file, registry, acceptor, poller')
          BY <1>0, <3>1, <3>2 DEF Files, PollerFiles
    <3>4. GuardInv(guard, active, acceptor, poller')
          BY <1>0, <2>0, <3>2 DEF GuardInv
    <3>5. NothingLeaks(file, Held(registry, acceptor, poller'))
          BY <1>0, <2>1, <3>2 DEF NothingLeaks, Held, SessionsAssumption
    <3> QED
        BY <2>0, <3>3, <3>4, <3>5 DEF SessionsInv
  <2>4. CASE e[2] \notin DOMAIN registry
    <3>1. Files(file, registry, acceptor, poller')
          BY <2>0, <2>2, <2>4, PollerNext
    <3>2. poller'.at # "reading" /\ poller'.proxy = None
          BY <2>0, <2>1, <2>4 DEF Onward, PollerTop, Pollers
    <3>3. GuardInv(guard, active, acceptor, poller')
          BY <1>0, <2>0, <3>2 DEF GuardInv
    <3> QED
        BY <1>0, <2>0, <2>1, <3>1, <3>2, <3>3 DEF SessionsInv, Held
  <2> QED
      BY <2>3, <2>4
<1>5. CASE Find
  <2>0. /\ poller.at = "find" /\ UNCHANGED <<registry, active, guard, acceptor>>
        /\ file' = Closed(file, Held(registry, acceptor, poller'))
        BY <1>5 DEF Find
  <2>1. CASE poller.id \in DOMAIN registry
    <3>1. /\ poller' \in Pollers /\ poller'.at = "switch" /\ poller'.proxy = poller.proxy
          /\ poller'.id = poller.id /\ poller'.ready \subseteq poller'.polled
          BY <1>0, <1>5, <2>1 DEF Find, Pollers, Files
    <3>2. Files(file, registry, acceptor, poller')
          BY <1>0, <2>0, <3>1 DEF Files, PollerFiles
    <3>3. GuardInv(guard, active, acceptor, poller')
          BY <1>0, <2>0, <3>1 DEF GuardInv
    <3> QED
        BY <2>0, <3>2, <3>3, ByClosing
  <2>2. CASE poller.id \notin DOMAIN registry
    <3>1. poller' = Onward(poller)
          BY <1>5, <2>2 DEF Find
    <3>2. Files(file, registry, acceptor, poller')
          BY <1>0, <3>1, PollerNext
    <3>3. GuardInv(guard, active, acceptor, poller')
          BY <1>0, <1>a, <2>0, <3>1 DEF GuardInv
    <3> QED
        BY <2>0, <3>2, <3>3, ByClosing
  <2> QED
      BY <2>1, <2>2
<1>6. CASE PollerSwitch
  <2>1. /\ poller' \in Pollers /\ poller'.at = "reading" /\ poller'.proxy = poller.proxy
        /\ poller'.id = poller.id /\ poller'.ready \subseteq poller'.polled
        BY <1>0, <1>6 DEF PollerSwitch, Pollers, Files
  <2>2. Files(file', registry', acceptor', poller')
        BY <1>0, <1>6, <2>1 DEF PollerSwitch, Files, PollerFiles
  <2>3. GuardInv(guard', active', acceptor', poller')
        BY <1>0, <1>6, <2>1 DEF PollerSwitch, Switch, GuardInv, SessionsAssumption
  <2>4. NothingLeaks(file', Held(registry', acceptor', poller'))
        BY <1>0, <1>6, <2>1 DEF PollerSwitch, NothingLeaks, Held
  <2> QED
      BY <2>2, <2>3, <2>4 DEF SessionsInv
<1>7. CASE Process
  <2>1. Files(file, registry', acceptor', poller')
        BY <1>0, <1>7, PollerNext DEF Process
  <2>2. GuardInv(guard', active', acceptor', poller')
        BY <1>0, <1>a, <1>7 DEF Process, Restore, GuardInv, SessionsAssumption
  <2> QED
      BY <1>7, <2>1, <2>2, ByClosing DEF Process
<1> QED
    BY <1>1, <1>2, <1>3, <1>4, <1>5, <1>6, <1>7

-----------------------------------------------------------------------------
(* Theorems *)

\* Every step of both threads keeps the invariant.
LEMMA SessionsStep == ASSUME SessionsAssumption, SessionsInv, [SessionsNext]_sessionVars PROVE SessionsInv'
<1>1. CASE UNCHANGED sessionVars
      BY <1>1 DEF sessionVars, SessionsInv
<1> QED
    BY <1>1, AcceptorKeeps, PollerKeeps DEF SessionsNext

\* receive_packet of the acceptor and of the polling thread never reads another's
\* FIFO: each reads from the descriptor its own SharedFdSwitchGuard put into
\* _shared_fd, and the polling thread's is that of the client it looked up,
\* for any number of clients and however numbers are closed and used again.
THEOREM PipesNeverMixed == SessionsAssumption => (SessionsSpec => []PipeSound)
<1> SUFFICES ASSUME SessionsAssumption PROVE SessionsSpec => []PipeSound
    OBVIOUS
<1>1. SessionsInv => PipeSound
  <2> SUFFICES ASSUME SessionsInv PROVE PipeSound
      OBVIOUS
  <2>1. SessionsTypeOK
        BY DEF SessionsInv, Files, SessionFiles, AcceptorFiles, GuardInv, SessionsTypeOK, Acceptors, Pollers
  <2>2. ReceivesFromItsOwn
        BY DEF SessionsInv, GuardInv, ReceivesFromItsOwn
  <2>3. ServesWhomItLookedUp
        BY DEF SessionsInv, Files, PollerFiles, ServesWhomItLookedUp
  <2> QED
      BY <2>1, <2>2, <2>3 DEF PipeSound
<1> QED
    BY <1>1, SessionsStart, SessionsStep, PTL DEF SessionsSpec

-----------------------------------------------------------------------------
(* The window and the program thread of the robot *)

\* Without a joinable thread none is running; between join and assignment
\* there is none.
ThreadInv ==
    /\ ~joinable => exec \in {"none", "ended"}
    /\ ui \in {"clear", "spawn"} => ~joinable
    /\ exec \in {"load", "store"} => thread_done
    /\ exec = "check" => command \in 1..Len(Program) + 1
    /\ exec = "move" => command \in 1..Len(Program)

\* Where the program has not begun, flag_impl is 1 only because it was asked for.
AskedInv ==
    (exec \in {"none", "parse", "ended"} \/ (exec = "check" /\ command = 1)) =>
        (flag_impl = 1 => asked)

\* The strengthening that makes the three properties inductive.
RobotInv ==
    /\ RobotTypeOK /\ asked \in BOOLEAN /\ unasked \in BOOLEAN /\ terminated \in BOOLEAN
    /\ ThreadInv
    /\ AskedInv
    /\ EndIsKnown
    /\ NeverTerminated
    /\ RobotRunsOnlyWhenAsked

\* The window opens with a program asked for and no thread.
LEMMA RobotStart == ASSUME RobotAssumption, RobotInit PROVE RobotInv
<1>1. /\ thread_done \in BOOLEAN /\ sim_enabled \in BOOLEAN /\ joinable \in BOOLEAN
      /\ asked \in BOOLEAN /\ unasked \in BOOLEAN /\ terminated \in BOOLEAN
      BY DEF RobotInit
<1>2. /\ flag_impl \in 0..2 /\ command \in 0..Len(Program) + 1 /\ keys \in 0..MaxKeys
      BY DEF RobotInit, RobotAssumption
<1>3. ThreadInv /\ AskedInv /\ EndIsKnown /\ NeverTerminated /\ RobotRunsOnlyWhenAsked
      BY DEF RobotInit, ThreadInv, AskedInv, EndIsKnown, NeverTerminated, RobotRunsOnlyWhenAsked
<1> QED
    BY <1>1, <1>2, <1>3 DEF RobotInit, RobotInv, RobotTypeOK

\* The window's thread keeps the invariant.
LEMMA WindowKeeps ==
    ASSUME RobotAssumption, RobotInv,
           \/ \E reached \in BOOLEAN : Manual(reached)
           \/ Start \/ Ready \/ Join \/ Clear \/ Spawn
           \/ KeyG \/ KeyI \/ KeyS
           \/ \E at \in {"manual", "closing"} : NextFrame(at)
           \/ Close
    PROVE  RobotInv'
<1> USE DEF RobotAssumption, RobotInv, RobotTypeOK, ThreadInv, AskedInv, EndIsKnown,
        NeverTerminated, RobotRunsOnlyWhenAsked, execVars
<1>1. ASSUME NEW reached \in BOOLEAN, Manual(reached) PROVE RobotInv'
      BY <1>1 DEF Manual
<1>2. CASE Start \/ Ready
      BY <1>2 DEF Start, Ready
<1>3. CASE Join
      BY <1>3 DEF Join
<1>4. CASE Clear
      BY <1>4 DEF Clear
<1>5. CASE Spawn
      BY <1>5 DEF Spawn
<1>6. CASE KeyG \/ KeyI \/ KeyS
  <2>1. /\ keys' \in 0..MaxKeys /\ flag_impl' \in 0..2
        /\ UNCHANGED <<thread_done, ui, joinable, exec, command, unasked, terminated>>
        BY <1>6 DEF KeyG, KeyI, KeyS, Key
  <2>2. sim_enabled' \in BOOLEAN /\ asked' \in BOOLEAN
        BY <1>6, Zenon DEF KeyG, KeyI, KeyS, Key
  <2>3. flag_impl' = 1 => (asked' \/ (flag_impl = 1 /\ asked' = asked))
        BY <1>6 DEF KeyG, KeyI, KeyS, Key
  <2> QED
      BY <2>1, <2>2, <2>3
<1>7. ASSUME NEW at \in {"manual", "closing"}, NextFrame(at) PROVE RobotInv'
      BY <1>7 DEF NextFrame
<1>8. CASE Close
      BY <1>8 DEF Close
<1> QED
    BY <1>1, <1>2, <1>3, <1>4, <1>5, <1>6, <1>7, <1>8

\* The program's thread keeps the invariant.
LEMMA ProgramKeeps ==
    ASSUME RobotAssumption, RobotInv,
           Parse \/ Check \/ Move \/ SetDone \/ LoadFlag \/ StoreFlag
    PROVE  RobotInv'
<1> USE DEF RobotAssumption, RobotInv, RobotTypeOK, ThreadInv, AskedInv, EndIsKnown,
        NeverTerminated, RobotRunsOnlyWhenAsked, uiVars
<1>1. CASE Parse
      BY <1>1 DEF Parse
<1>2. CASE Check
  <2>1. /\ exec = "check" /\ exec' \in {"finish", "move"}
        /\ exec' = "move" => command \in 1..Len(Program) /\ flag_impl = 1
        /\ UNCHANGED <<flag_impl, thread_done, sim_enabled, ui, joinable, keys, command,
                       terminated>>
        BY <1>2 DEF Check
  <2>2. (command = 1 /\ exec' = "move") => asked
        BY <2>1
  <2>3. unasked' = (unasked \/ (command = 1 /\ exec' = "move" /\ ~asked))
        BY <1>2 DEF Check
  <2>4. ~unasked'
        BY <2>2, <2>3
  <2>5. asked' \in BOOLEAN /\ unasked' \in BOOLEAN
        BY <1>2, Zenon DEF Check
  <2> QED
      BY <2>1, <2>4, <2>5
<1>3. CASE Move
      BY <1>3 DEF Move
<1>4. CASE SetDone
      BY <1>4 DEF SetDone
<1>5. CASE LoadFlag
      BY <1>5 DEF LoadFlag
<1>6. CASE StoreFlag
      BY <1>6 DEF StoreFlag
<1> QED
    BY <1>1, <1>2, <1>3, <1>4, <1>5, <1>6

\* Every step of either thread keeps the invariant.
LEMMA RobotStep == ASSUME RobotAssumption, RobotInv, [RobotNext]_robotVars PROVE RobotInv'
<1>1. CASE UNCHANGED robotVars
      BY <1>1 DEF robotVars, RobotInv, RobotTypeOK, ThreadInv, AskedInv, EndIsKnown,
         NeverTerminated, RobotRunsOnlyWhenAsked
<1> QED
    BY <1>1, WindowKeeps, ProgramKeeps DEF RobotNext

\* For every program: it runs once per request, although thread_done is set
\* while flag_impl is still 1 and a frame in between starts another thread.
THEOREM OneRunPerRequest == RobotAssumption => (RobotSpec => []RobotRunsOnlyWhenAsked)
<1> SUFFICES ASSUME RobotAssumption PROVE RobotSpec => []RobotRunsOnlyWhenAsked
    OBVIOUS
<1>1. RobotInit => RobotInv
      BY RobotStart
<1>2. RobotInv /\ [RobotNext]_robotVars => RobotInv'
      BY RobotStep
<1>3. RobotInv => RobotRunsOnlyWhenAsked
      BY DEF RobotInv
<1> QED
    BY <1>1, <1>2, <1>3, PTL DEF RobotSpec

\* For every program: the thread object is never overwritten while joinable,
\* and an ended thread is always known to have ended.
THEOREM ThreadsJoined == RobotAssumption => (RobotSpec => []RobotThreadsSound)
<1> SUFFICES ASSUME RobotAssumption PROVE RobotSpec => []RobotThreadsSound
    OBVIOUS
<1>1. RobotInit => RobotInv
      BY RobotStart
<1>2. RobotInv /\ [RobotNext]_robotVars => RobotInv'
      BY RobotStep
<1>3. RobotInv => RobotThreadsSound
      BY DEF RobotInv, RobotThreadsSound
<1> QED
    BY <1>1, <1>2, <1>3, PTL DEF RobotSpec

=============================================================================
