----------------------------- MODULE SfdRegistry -----------------------------
(***************************************************************************)
(* Shared file descriptors of linux/common: SharedFileDescriptor handles    *)
(* that count their references in StaticFileDescriptionRegistry, a fixed    *)
(* open-addressing table of atomic (fd, count) pairs, and the I/O mutex of  *)
(* each slot.                                                               *)
(*                                                                         *)
(* Every handle is used by a thread of its own.  Each atomic load, exchange *)
(* and fetch_add is one action, so retain and release of different threads  *)
(* interleave between any two of them.                                      *)
(***************************************************************************)
EXTENDS Integers, FiniteSets

CONSTANTS
    MaxSlots,   \* slots of the registry
    Fds,        \* the descriptors the kernel may hand out
    Handles,    \* the SharedFileDescriptor objects
    MaxReuse,   \* how many handles are made from a number that another holds
    NoHandle    \* "no handle is being copied"

ASSUME RegistryAssumption ==
    /\ MaxSlots \in Nat \ {0}
    /\ Fds \subseteq Nat
    /\ IsFiniteSet(Handles)
    /\ MaxReuse \in Nat
    /\ NoHandle \notin Handles

NoFd == -1
Slots == 0..(MaxSlots - 1)
Fallback == MaxSlots

VARIABLES
    slotFd,     \* _registry[i].fd
    slotCount,  \* _registry[i].count, where -1 stands for the largest size_t
    hfd,        \* SharedFileDescriptor::_fd
    pc,         \* where the handle's thread is
    probe,      \* the loop index i of retain or release
    src,        \* the handle being copied
    closes,     \* whether the running release may close: reset() or release()
    mtx,        \* the _io_mutexes entry found by lock()
    opened,     \* descriptors open in the kernel
    given,      \* descriptors given back to the caller by release()
    reused      \* history: handles made from a number that another handle held

vars == <<slotFd, slotCount, hfd, pc, probe, src, closes, mtx, opened, given, reused>>

PCs == {"idle", "scan", "add", "claim", "store", "find", "sub", "free",
        "close", "mutex", "session"}

TypeOK ==
    /\ slotFd \in [Slots -> Fds \cup {NoFd}]
    /\ slotCount \in [Slots -> Int]
    /\ hfd \in [Handles -> Fds \cup {NoFd}]
    /\ pc \in [Handles -> PCs]
    /\ probe \in [Handles -> Slots]
    /\ src \in [Handles -> Handles \cup {NoHandle}]
    /\ closes \in [Handles -> BOOLEAN]
    /\ mtx \in [Handles -> Slots \cup {Fallback}]
    /\ opened \subseteq Fds
    /\ given \subseteq Fds
    /\ reused \in Nat
    /\ reused = 0 => slotCount \in [Slots -> Nat]

Init ==
    /\ slotFd = [i \in Slots |-> NoFd]
    /\ slotCount = [i \in Slots |-> 0]
    /\ hfd = [h \in Handles |-> NoFd]
    /\ pc = [h \in Handles |-> "idle"]
    /\ probe = [h \in Handles |-> 0]
    /\ src = [h \in Handles |-> NoHandle]
    /\ closes = [h \in Handles |-> FALSE]
    /\ mtx = [h \in Handles |-> Fallback]
    /\ opened = {}
    /\ given = {}
    /\ reused = 0

\* get_slot_index
HomeSlot(fd) == fd % MaxSlots

\* Every descriptor has a home slot of its own, as when all are below MaxSlots.
NoCollisions == \A f, g \in Fds : HomeSlot(f) = HomeSlot(g) => f = g

\* The slot a handle's thread is looking at.
At(h) == (HomeSlot(hfd[h]) + probe[h]) % MaxSlots

Goto(h, label) == pc' = [pc EXCEPT ![h] = label]

Free(h) == pc[h] = "idle" /\ hfd[h] = NoFd

\* Nobody is copying the handle.  Changing an object that another thread is
\* copying from would be a data race of the caller's.
Unshared(h) == \A g \in Handles : src[g] # h

-----------------------------------------------------------------------------
(* Construction: retain *)

StartRetain(h, fd, from) ==
    /\ hfd' = [hfd EXCEPT ![h] = fd]
    /\ Goto(h, "scan")
    /\ probe' = [probe EXCEPT ![h] = 0]
    /\ src' = [src EXCEPT ![h] = from]
    /\ UNCHANGED <<slotFd, slotCount, closes, mtx, given>>

\* SharedFileDescriptor(fd) takes any number: one the kernel has just opened,
\* one that a caller has got back from release(), or one that another handle
\* holds already.
Construct(h) ==
    /\ Free(h)
    /\ \E fd \in Fds :
        LET held == \E g \in Handles : hfd[g] = fd
        IN  /\ held => reused < MaxReuse
            /\ reused' = IF held THEN reused + 1 ELSE reused
            /\ opened' = opened \cup {fd}
            /\ StartRetain(h, fd, NoHandle)

\* The copy constructor (and the second half of copy assignment).
Copy(h, g) ==
    /\ Free(h)
    /\ pc[g] \in {"idle", "mutex", "session"}
    /\ hfd[g] # NoFd
    /\ StartRetain(h, hfd[g], g)
    /\ UNCHANGED <<opened, reused>>

\* The move constructor (and the second half of move assignment).
Move(h, g) ==
    /\ Free(h)
    /\ pc[g] = "idle"
    /\ hfd[g] # NoFd
    /\ Unshared(g)
    /\ hfd' = [hfd EXCEPT ![h] = hfd[g], ![g] = NoFd]
    /\ UNCHANGED <<slotFd, slotCount, pc, probe, src, closes, mtx, opened, given, reused>>

\* retain is done; the source of a copy may change again.
Retained(h) ==
    /\ Goto(h, "idle")
    /\ src' = [src EXCEPT ![h] = NoHandle]

\* The next iteration of a probing loop, or what follows the last one.
Probe(h, atEnd) ==
    \/ /\ probe[h] + 1 < MaxSlots
       /\ probe' = [probe EXCEPT ![h] = @ + 1]
       /\ UNCHANGED <<pc, src, hfd, closes>>
    \/ /\ probe[h] + 1 = MaxSlots
       /\ probe' = [probe EXCEPT ![h] = 0]
       /\ atEnd

\* Step 1 of retain: the read-only scan, which stops at the first unused slot.
Scan(h) ==
    /\ pc[h] = "scan"
    /\ \/ /\ slotFd[At(h)] = hfd[h]
          /\ Goto(h, "add")
          /\ UNCHANGED <<probe, src, hfd, closes>>
       \/ /\ slotFd[At(h)] = NoFd
          /\ Goto(h, "claim")
          /\ probe' = [probe EXCEPT ![h] = 0]
          /\ UNCHANGED <<src, hfd, closes>>
       \/ /\ slotFd[At(h)] \notin {hfd[h], NoFd}
          /\ Probe(h, Goto(h, "claim") /\ UNCHANGED <<src, hfd, closes>>)
    /\ UNCHANGED <<slotFd, slotCount, mtx, opened, given, reused>>

\* Mutant of Add: the increment is lost.
Add_Lost(h) ==
    /\ pc[h] = "add"
    /\ Retained(h)
    /\ UNCHANGED <<slotFd, slotCount, hfd, probe, closes, mtx, opened, given, reused>>

\* count.fetch_add(1), after the scan or after a lost exchange.
Add(h) ==
    /\ pc[h] = "add"
    /\ slotCount' = [slotCount EXCEPT ![At(h)] = @ + 1]
    /\ Retained(h)
    /\ UNCHANGED <<slotFd, hfd, probe, closes, mtx, opened, given, reused>>

\* Step 2 of retain: compare_exchange of the slot's fd.  A full table ends the
\* loop without counting anything.
Claim(h) ==
    /\ pc[h] = "claim"
    /\ \/ /\ slotFd[At(h)] = NoFd
          /\ slotFd' = [slotFd EXCEPT ![At(h)] = hfd[h]]
          /\ Goto(h, "store")
          /\ UNCHANGED <<probe, src, hfd, closes>>
       \/ /\ slotFd[At(h)] = hfd[h]
          /\ Goto(h, "add")
          /\ UNCHANGED <<slotFd, probe, src, hfd, closes>>
       \/ /\ slotFd[At(h)] \notin {hfd[h], NoFd}
          /\ Probe(h, Retained(h) /\ UNCHANGED <<hfd, closes>>)
          /\ UNCHANGED slotFd
    /\ UNCHANGED <<slotCount, mtx, opened, given, reused>>

\* count.store(1) in the slot just claimed.
Store(h) ==
    /\ pc[h] = "store"
    /\ slotCount' = [slotCount EXCEPT ![At(h)] = 1]
    /\ Retained(h)
    /\ UNCHANGED <<slotFd, hfd, probe, closes, mtx, opened, given, reused>>

-----------------------------------------------------------------------------
(* Destruction: release *)

StartRelease(h, closing) ==
    /\ pc[h] = "idle"
    /\ hfd[h] # NoFd
    /\ Unshared(h)
    /\ Goto(h, "find")
    /\ probe' = [probe EXCEPT ![h] = 0]
    /\ closes' = [closes EXCEPT ![h] = closing]
    /\ UNCHANGED <<slotFd, slotCount, hfd, src, mtx, opened, given, reused>>

\* reset(), the destructor, and the first half of an assignment.
Reset(h) == StartRelease(h, TRUE)

\* release(): gives the bare descriptor to the caller and never closes it.
Release(h) == StartRelease(h, FALSE)

\* Registry::release returned false, or release() ignored its result.
Drop(h) ==
    /\ Goto(h, "idle")
    /\ hfd' = [hfd EXCEPT ![h] = NoFd]
    /\ closes' = [closes EXCEPT ![h] = FALSE]

\* Scan for the slot, past unused ones; a descriptor that is not registered is
\* dropped.
Find(h) ==
    /\ pc[h] = "find"
    /\ \/ /\ slotFd[At(h)] = hfd[h]
          /\ Goto(h, "sub")
          /\ UNCHANGED <<probe, src, hfd, closes, given>>
       \/ /\ slotFd[At(h)] # hfd[h]
          /\ Probe(h, Drop(h) /\ UNCHANGED src)
          /\ given' = IF pc'[h] = "idle" /\ ~closes[h] THEN given \cup {hfd[h]}
                                                       ELSE given
    /\ UNCHANGED <<slotFd, slotCount, mtx, opened, reused>>

\* Mutant of Sub: compares the new count with one.
Sub_OffByOne(h) ==
    /\ pc[h] = "sub"
    /\ slotCount' = [slotCount EXCEPT ![At(h)] = @ - 1]
    /\ IF slotCount[At(h)] = 2
       THEN Goto(h, "free") /\ UNCHANGED <<hfd, closes, given>>
       ELSE /\ Drop(h)
            /\ given' = IF closes[h] THEN given ELSE given \cup {hfd[h]}
    /\ UNCHANGED <<slotFd, probe, src, mtx, opened, reused>>

\* count.fetch_sub(1) == 1
Sub(h) ==
    /\ pc[h] = "sub"
    /\ slotCount' = [slotCount EXCEPT ![At(h)] = @ - 1]
    /\ IF slotCount[At(h)] = 1
       THEN Goto(h, "free") /\ UNCHANGED <<hfd, closes, given>>
       ELSE /\ Drop(h)
            /\ given' = IF closes[h] THEN given ELSE given \cup {hfd[h]}
    /\ UNCHANGED <<slotFd, probe, src, mtx, opened, reused>>

\* fd.store(-1): the slot is free again.
FreeSlot(h) ==
    /\ pc[h] = "free"
    /\ slotFd' = [slotFd EXCEPT ![At(h)] = NoFd]
    /\ IF closes[h]
       THEN Goto(h, "close") /\ UNCHANGED <<hfd, closes, given>>
       ELSE Drop(h) /\ given' = given \cup {hfd[h]}
    /\ UNCHANGED <<slotCount, probe, src, mtx, opened, reused>>

\* Policy::close(_fd, _ctx)
Close(h) ==
    /\ pc[h] = "close"
    /\ opened' = opened \ {hfd[h]}
    /\ given' = given \ {hfd[h]}
    /\ Drop(h)
    /\ UNCHANGED <<slotFd, slotCount, probe, src, mtx, reused>>

\* The caller who took a descriptor out of its last handle closes it.
CallerClose(fd) ==
    /\ fd \in given
    /\ \A h \in Handles : hfd[h] # fd
    /\ opened' = opened \ {fd}
    /\ given' = given \ {fd}
    /\ UNCHANGED <<slotFd, slotCount, hfd, pc, probe, src, closes, mtx, reused>>

-----------------------------------------------------------------------------
(* Sessions: lock() *)

\* get_mutex: that of the first slot in probing order that holds the descriptor.
FindsMutex(h, m) ==
    LET slot(i) == (HomeSlot(hfd[h]) + i) % MaxSlots
    IN  \/ /\ m = Fallback
           /\ \A i \in Slots : slotFd[slot(i)] # hfd[h]
        \/ \E i \in Slots :
            /\ m = slot(i)
            /\ slotFd[m] = hfd[h]
            /\ \A j \in 0..(i - 1) : slotFd[slot(j)] # hfd[h]

Lock(h) ==
    /\ pc[h] = "idle"
    /\ hfd[h] # NoFd
    /\ Goto(h, "mutex")
    /\ \E m \in Slots \cup {Fallback} :
        /\ FindsMutex(h, m)
        /\ mtx' = [mtx EXCEPT ![h] = m]
    /\ UNCHANGED <<slotFd, slotCount, hfd, probe, src, closes, opened, given, reused>>

\* Mutant of Acquire: the session does not lock the mutex it was given.
Acquire_Unlocked(h) ==
    /\ pc[h] = "mutex"
    /\ Goto(h, "session")
    /\ UNCHANGED <<slotFd, slotCount, hfd, probe, src, closes, mtx, opened, given, reused>>

\* std::lock_guard of the session.
Acquire(h) ==
    /\ pc[h] = "mutex"
    /\ \A g \in Handles : pc[g] = "session" => mtx[g] # mtx[h]
    /\ Goto(h, "session")
    /\ UNCHANGED <<slotFd, slotCount, hfd, probe, src, closes, mtx, opened, given, reused>>

\* The session ends.
Unlock(h) ==
    /\ pc[h] = "session"
    /\ Goto(h, "idle")
    /\ mtx' = [mtx EXCEPT ![h] = Fallback]
    /\ UNCHANGED <<slotFd, slotCount, hfd, probe, src, closes, opened, given, reused>>

-----------------------------------------------------------------------------
HandleStep(h) ==
    \/ Construct(h)
    \/ \E g \in Handles : Copy(h, g) \/ Move(h, g)
    \/ Scan(h) \/ Add(h) \/ Claim(h) \/ Store(h)
    \/ Reset(h) \/ Release(h)
    \/ Find(h) \/ Sub(h) \/ FreeSlot(h) \/ Close(h)
    \/ Lock(h) \/ Acquire(h) \/ Unlock(h)

Next ==
    \/ \E h \in Handles : HandleStep(h)
    \/ \E fd \in Fds : CallerClose(fd)

Spec == Init /\ [][Next]_vars

-----------------------------------------------------------------------------
(* Properties *)

\* Every handle so far was copied or moved from another, or made from a number
\* that no handle held.
MadeOnce == reused = 0

\* As long as no handle is made from a number that another holds, a handle that
\* holds a descriptor holds an open one: nobody closes it under another handle.
\* "returns true only if the count drops to exactly zero".
HeldIsOpen == MadeOnce => \A h \in Handles : hfd[h] # NoFd => hfd[h] \in opened

\* A descriptor stays open only while somebody has it: a handle, or a caller
\* who took it out of one with release().
NoDescriptorLeaks == opened \subseteq given \cup {hfd[h] : h \in Handles}

\* As long as no handle is made from a number that another holds, there is at
\* most one session on a descriptor at a time: reads and writes of different
\* handles that share it do not interleave.
SessionsExclusive ==
    MadeOnce =>
        \A g, h \in Handles :
            pc[g] = "session" /\ pc[h] = "session" /\ hfd[g] = hfd[h] => g = h

=============================================================================
