-------------------------- MODULE SfdRegistryProofs --------------------------
(***************************************************************************)
(* SfdRegistry for every number of slots and handles, as long as no two     *)
(* descriptors share a home slot and no handle is made from a number that   *)
(* another holds: the case in which the registry keeps what                 *)
(* SharedFileDescriptor promises.                                           *)
(***************************************************************************)
EXTENDS SfdRegistry, FiniteSetTheorems, TLAPS

\* The types as they are until a handle is made from a number in use.
Types ==
    /\ slotFd \in [Slots -> Fds \cup {NoFd}]
    /\ slotCount \in [Slots -> Nat]
    /\ hfd \in [Handles -> Fds \cup {NoFd}]
    /\ pc \in [Handles -> PCs]
    /\ probe \in [Handles -> Slots]
    /\ src \in [Handles -> Handles \cup {NoHandle}]
    /\ closes \in [Handles -> BOOLEAN]
    /\ mtx \in [Handles -> Slots \cup {Fallback}]
    /\ opened \subseteq Fds
    /\ given \subseteq Fds
    /\ reused = 0

OpenInv == \A h \in Handles : hfd[h] # NoFd => hfd[h] \in opened

\* A handle counted in its slot, and one whose owner may copy it.
Steady == {"idle", "mutex", "session"}
CountedPCs == Steady \cup {"find", "sub"}

Counted(fd) == {h \in Handles : hfd[h] = fd /\ pc[h] \in CountedPCs}

\* A handle made from a number, which no other had: not yet in the table.
Fresh(h) == pc[h] = "claim" \/ (pc[h] = "scan" /\ src[h] = NoHandle)

Alone(h) == \A g \in Handles : hfd[g] = hfd[h] => g = h

\* No loop gets past the first slot, and a slot holds what belongs there.
HomeInv ==
    /\ \A h \in Handles : probe[h] = 0
    /\ \A i \in Slots : slotFd[i] # NoFd =>
            HomeSlot(slotFd[i]) = i /\ \E h \in Handles : hfd[h] = slotFd[i]

\* Whoever copies copies a counted handle.
CopyInv ==
    \A h \in Handles :
        /\ hfd[h] = NoFd => pc[h] = "idle"
        /\ pc[h] = "add" => src[h] # NoHandle
        /\ src[h] # NoHandle =>
                /\ pc[h] \in {"scan", "add"}
                /\ hfd[src[h]] = hfd[h]
                /\ pc[src[h]] \in Steady

\* Before the claim and after the last fetch_sub a handle has its descriptor
\* for itself.
AloneInv ==
    \A h \in Handles :
        /\ Fresh(h) \/ pc[h] = "close" => Alone(h) /\ slotFd[HomeSlot(hfd[h])] = NoFd
        /\ pc[h] \in {"store", "free"} => Alone(h) /\ slotFd[HomeSlot(hfd[h])] = hfd[h]

\* A slot's count is the number of handles that have counted themselves.
CountInv ==
    \A fd \in Fds : Counted(fd) # {} =>
        /\ slotFd[HomeSlot(fd)] = fd
        /\ slotCount[HomeSlot(fd)] = Cardinality(Counted(fd))

\* Sessions of one descriptor take the same mutex, and one of them has it.
MutexInv ==
    /\ \A h \in Handles : pc[h] \in {"mutex", "session"} => mtx[h] = HomeSlot(hfd[h])
    /\ \A g, h \in Handles :
            pc[g] = "session" /\ pc[h] = "session" /\ mtx[g] = mtx[h] => g = h

\* The strengthening that makes the properties inductive.
IInv ==
    /\ Types /\ HomeInv /\ CopyInv /\ AloneInv /\ CountInv /\ MutexInv
    /\ OpenInv /\ NoDescriptorLeaks

-----------------------------------------------------------------------------
(* Slots *)

\* get_slot_index is a slot, and the first round of a loop looks at it.
LEMMA Home ==
    ASSUME NEW fd \in Fds
    PROVE  HomeSlot(fd) \in Slots /\ (HomeSlot(fd) + 0) % MaxSlots = HomeSlot(fd)
BY RegistryAssumption DEF HomeSlot, Slots

\* So does every round, of every handle that holds something.
LEMMA AtHome ==
    ASSUME NoCollisions, IInv, NEW h \in Handles, hfd[h] # NoFd
    PROVE  /\ hfd[h] \in Fds
           /\ HomeSlot(hfd[h]) \in Slots /\ At(h) = HomeSlot(hfd[h])
           /\ slotFd[HomeSlot(hfd[h])] \in {hfd[h], NoFd}
<1>1. hfd[h] \in Fds /\ probe[h] = 0
      BY DEF IInv, Types, HomeInv
<1>2. HomeSlot(hfd[h]) \in Slots /\ At(h) = HomeSlot(hfd[h])
      BY <1>1, Home DEF At
<1>3. slotFd[HomeSlot(hfd[h])] \in Fds \cup {NoFd}
      BY <1>2 DEF IInv, Types
<1> QED
    BY <1>1, <1>2, <1>3 DEF NoCollisions, IInv, HomeInv

\* A counted handle's descriptor is in its home slot.
LEMMA CountedAtHome ==
    ASSUME IInv, NEW h \in Handles, hfd[h] # NoFd, pc[h] \in CountedPCs
    PROVE  /\ hfd[h] \in Fds
           /\ slotFd[HomeSlot(hfd[h])] = hfd[h]
           /\ slotCount[HomeSlot(hfd[h])] = Cardinality(Counted(hfd[h]))
           /\ h \in Counted(hfd[h])
<1>1. hfd[h] \in Fds /\ h \in Counted(hfd[h])
      BY DEF IInv, Types, Counted
<1> QED
    BY <1>1 DEF IInv, CountInv

\* A handle more, a handle less, and one for another.
LEMMA Counting ==
    ASSUME NEW S, S \subseteq Handles
    PROVE  /\ Cardinality(S) \in Nat
           /\ \A h \in Handles \ S : Cardinality(S \cup {h}) = Cardinality(S) + 1
           /\ \A g \in S :
                /\ Cardinality(S) > 0
                /\ Cardinality(S \ {g}) = Cardinality(S) - 1
                /\ Cardinality(S) = 1 => S = {g}
                /\ \A h \in Handles \ S : Cardinality((S \ {g}) \cup {h}) = Cardinality(S)
<1>1. IsFiniteSet(S)
      BY FS_Subset, RegistryAssumption
<1>2. Cardinality(S) \in Nat
      BY <1>1, FS_CardinalityType
<1>3. ASSUME NEW g \in S
      PROVE  /\ Cardinality(S) > 0 /\ Cardinality(S \ {g}) = Cardinality(S) - 1
             /\ Cardinality(S) = 1 => S = {g} 
             /\ \A h \in Handles \ S : Cardinality((S \ {g}) \cup {h}) = Cardinality(S)
  <2>1. IsFiniteSet(S \ {g}) /\ Cardinality(S \ {g}) = Cardinality(S) - 1
        BY <1>1, FS_RemoveElement
  <2>2. Cardinality(S) # 0
        BY <1>1, FS_EmptySet
  <2>3. Cardinality(S) = 1 => \E x : S = {x}
        BY <1>1, FS_Singleton
  <2>4. \A h \in Handles \ S : Cardinality((S \ {g}) \cup {h}) = (Cardinality(S) - 1) + 1
        BY <2>1, FS_AddElement
  <2> QED
      BY <1>2, <2>1, <2>2, <2>3, <2>4
<1>4. \A h \in Handles \ S : Cardinality(S \cup {h}) = Cardinality(S) + 1
      BY <1>1, FS_AddElement
<1> QED
    BY <1>2, <1>3, <1>4

\* lock() finds the home slot of a counted handle.
LEMMA MutexAtHome ==
    ASSUME NoCollisions, IInv, NEW h \in Handles, hfd[h] # NoFd, pc[h] = "idle",
           NEW m \in Slots \cup {Fallback}, FindsMutex(h, m)
    PROVE  m = HomeSlot(hfd[h])
<1> DEFINE home == HomeSlot(hfd[h])
<1>1. /\ hfd[h] \in Fds /\ home \in Slots
      /\ (home + 0) % MaxSlots = home /\ slotFd[home] = hfd[h]
      BY AtHome, CountedAtHome, Home DEF CountedPCs, Steady
<1>2. 0 \in Slots
      BY RegistryAssumption DEF Slots
<1>3. slotFd[m] = hfd[h] /\ \E i \in Slots : m = (home + i) % MaxSlots
      BY <1>1, <1>2 DEF FindsMutex
<1>4. m \in Slots
      BY <1>1, <1>3, RegistryAssumption DEF Slots
<1> QED
    BY <1>1, <1>3, <1>4 DEF IInv, HomeInv

\* Nothing is open or held.
LEMMA InitIInv == ASSUME Init PROVE IInv
<1>1. Types
      BY RegistryAssumption DEF Init, Types, PCs, Slots, NoFd, Fallback
<1>2. HomeInv /\ CopyInv /\ AloneInv /\ MutexInv /\ OpenInv /\ NoDescriptorLeaks
      BY DEF Init, HomeInv, CopyInv, AloneInv, MutexInv, OpenInv, NoDescriptorLeaks, Fresh
<1>3. CountInv
      BY RegistryAssumption DEF Init, CountInv, Counted, NoFd
<1> QED
    BY <1>1, <1>2, <1>3 DEF IInv

-----------------------------------------------------------------------------
(* The steps of a handle's thread *)

\* A number that no handle has is in no slot.
LEMMA ConstructKeeps ==
    ASSUME NoCollisions, IInv, NEW h \in Handles, Construct(h), MadeOnce' PROVE IInv'
<1>1. PICK fd \in Fds : /\ opened' = opened \cup {fd} /\ StartRetain(h, fd, NoHandle)
                        /\ \A g \in Handles : hfd[g] # fd
                        /\ reused' = 0
      BY DEF Construct, MadeOnce, IInv, Types
<1>2. /\ pc[h] = "idle" /\ hfd[h] = NoFd
      /\ hfd' = [hfd EXCEPT ![h] = fd] /\ pc' = [pc EXCEPT ![h] = "scan"]
      /\ probe' = [probe EXCEPT ![h] = 0] /\ src' = [src EXCEPT ![h] = NoHandle]
      /\ UNCHANGED <<slotFd, slotCount, closes, mtx, given>>
      BY <1>1 DEF Construct, Free, StartRetain, Goto
<1>3. fd \in Fds /\ fd # NoFd /\ HomeSlot(fd) \in Slots
      BY RegistryAssumption, Home DEF NoFd
<1>4. \A g \in Handles : hfd[g] # fd
      BY <1>1
<1>5. slotFd[HomeSlot(fd)] = NoFd
      BY <1>3, <1>4 DEF IInv, HomeInv, Types, NoCollisions
<1>6. Types'
      BY <1>1, <1>2, RegistryAssumption DEF IInv, Types, PCs, Slots
<1>7. HomeInv'
      BY <1>2 DEF IInv, Types, HomeInv
<1>8. CopyInv'
      BY <1>2, <1>3 DEF IInv, Types, CopyInv, Steady
<1>9. AloneInv'
      BY <1>2, <1>3, <1>4, <1>5 DEF IInv, Types, AloneInv, Alone, Fresh
<1>10. CountInv'
  <2>1. \A f \in Fds : Counted(f)' = Counted(f)
        BY <1>2, <1>3, <1>4, RegistryAssumption DEF IInv, Types, Counted, CountedPCs, Steady, NoFd
  <2> QED
      BY <1>2, <2>1 DEF IInv, CountInv
<1>11. MutexInv'
      BY <1>2 DEF IInv, Types, MutexInv
<1>12. OpenInv'
  <2>1. \A g \in Handles : hfd'[g] = IF g = h THEN fd ELSE hfd[g]
        BY <1>2 DEF IInv, Types
  <2> QED
      BY <1>1, <2>1 DEF IInv, OpenInv
<1>13. NoDescriptorLeaks'
  <2>1. /\ \A g \in Handles : hfd'[g] = IF g = h THEN fd ELSE hfd[g]
        /\ given' = given
        BY <1>2 DEF IInv, Types
  <2>2. \A f \in opened : f \in given \/ \E g \in Handles : hfd[g] = f
        BY DEF IInv, NoDescriptorLeaks
  <2>3. opened \subseteq Fds
        BY DEF IInv, Types
  <2>4. \A f \in opened : f # NoFd
        BY <2>3, RegistryAssumption DEF NoFd
  <2>5. \A f \in opened : f \in given \/ \E g \in Handles : hfd'[g] = f
        BY <1>2, <2>1, <2>2, <2>4
  <2> QED
      BY <1>1, <2>1, <2>5 DEF NoDescriptorLeaks
<1> QED
    BY <1>6, <1>7, <1>8, <1>9, <1>10, <1>11, <1>12, <1>13 DEF IInv

\* A copy's source stays counted, and keeps the slot, until the copy is.
LEMMA CopyKeeps ==
    ASSUME NoCollisions, IInv, NEW h \in Handles, NEW g \in Handles, Copy(h, g)
    PROVE  IInv'
<1>1. /\ pc[h] = "idle" /\ hfd[h] = NoFd /\ pc[g] \in Steady /\ hfd[g] # NoFd
      /\ hfd' = [hfd EXCEPT ![h] = hfd[g]] /\ pc' = [pc EXCEPT ![h] = "scan"]
      /\ probe' = [probe EXCEPT ![h] = 0] /\ src' = [src EXCEPT ![h] = g]
      /\ UNCHANGED <<slotFd, slotCount, closes, mtx, given, opened, reused>>
      BY DEF Copy, Free, StartRetain, Goto, Steady
<1>2. hfd[g] \in Fds /\ g # h /\ g # NoHandle
      BY <1>1, RegistryAssumption DEF IInv, Types
<1>3. Types'
      BY <1>1, <1>2, RegistryAssumption DEF IInv, Types, PCs, Slots
<1>4. HomeInv'
      BY <1>1 DEF IInv, Types, HomeInv
<1>5. CopyInv'
      BY <1>1, <1>2 DEF IInv, Types, CopyInv, Steady
<1>6. AloneInv'
  <2>1. \A k \in Handles : Fresh(k)' => Fresh(k) /\ k # h
        BY <1>1, <1>2 DEF IInv, Types, Fresh
  <2>2. ASSUME NEW k \in Handles, k # h,
               Fresh(k) \/ pc[k] \in {"close", "store", "free"}
        PROVE  Alone(k)'
    <3>1. Alone(k) /\ k # g
          BY <1>1, <2>2 DEF IInv, AloneInv, Fresh, Steady
    <3> QED
        BY <1>1, <1>2, <2>2, <3>1 DEF IInv, Types, Alone
  <2> QED
      BY <1>1, <2>1, <2>2 DEF IInv, Types, AloneInv
<1>7. CountInv'
  <2>1. \A f \in Fds : Counted(f)' = Counted(f)
        BY <1>1, RegistryAssumption DEF IInv, Types, Counted, CountedPCs, Steady, NoFd
  <2> QED
      BY <1>1, <2>1 DEF IInv, CountInv
<1>8. MutexInv'
      BY <1>1 DEF IInv, Types, MutexInv
<1>9. OpenInv' /\ NoDescriptorLeaks'
      BY <1>1, <1>2, RegistryAssumption DEF IInv, Types, OpenInv, NoDescriptorLeaks, NoFd
<1> QED
    BY <1>3, <1>4, <1>5, <1>6, <1>7, <1>8, <1>9 DEF IInv

\* A moved handle counts in the place of the other.
LEMMA MoveKeeps ==
    ASSUME NoCollisions, IInv, NEW h \in Handles, NEW g \in Handles, Move(h, g)
    PROVE  IInv'
<1>1. /\ pc[h] = "idle" /\ hfd[h] = NoFd /\ pc[g] = "idle" /\ hfd[g] # NoFd
      /\ \A k \in Handles : src[k] # g
      /\ hfd' = [hfd EXCEPT ![h] = hfd[g], ![g] = NoFd]
      /\ UNCHANGED <<slotFd, slotCount, pc, probe, src, closes, mtx, given, opened, reused>>
      BY DEF Move, Free, Unshared
<1>2. hfd[g] \in Fds /\ g # h
      BY <1>1, RegistryAssumption DEF IInv, Types
<1>3. /\ \A k \in Handles : hfd'[k] = IF k = g THEN NoFd ELSE IF k = h THEN hfd[g] ELSE hfd[k]
      /\ hfd' \in [Handles -> Fds \cup {NoFd}]
      BY <1>1, <1>2 DEF IInv, Types
<1>4. Types'
      BY <1>1, <1>3 DEF IInv, Types
<1>5. HomeInv'
      BY <1>1, <1>2, <1>3 DEF IInv, Types, HomeInv
<1>6. CopyInv'
      BY <1>1, <1>2, <1>3 DEF IInv, Types, CopyInv, Steady
<1>7. AloneInv'
  <2>1. \A k \in Handles : Fresh(k)' <=> Fresh(k)
        BY <1>1 DEF Fresh
  <2>2. ASSUME NEW k \in Handles, Fresh(k) \/ pc[k] \in {"close", "store", "free"}
        PROVE  Alone(k)' /\ hfd'[k] = hfd[k]
    <3>1. Alone(k) /\ k # g /\ k # h /\ hfd[k] # NoFd
          BY <1>1, <2>2 DEF IInv, AloneInv, CopyInv, Fresh
    <3> QED
        BY <1>1, <1>2, <1>3, <3>1 DEF Alone
  <2> QED
      BY <1>1, <2>1, <2>2 DEF IInv, AloneInv
<1>8. CountInv'
  <2>0. PICK fd \in Fds : fd = hfd[g]
        BY <1>2
  <2>1. \A f \in Fds \ {fd} : Counted(f)' = Counted(f)
        BY <1>1, <1>2, <1>3, <2>0, RegistryAssumption DEF Counted, CountedPCs, Steady, NoFd
  <2>2. Counted(fd)' = (Counted(fd) \ {g}) \cup {h}
        BY <1>1, <1>2, <1>3, <2>0, RegistryAssumption DEF Counted, CountedPCs, Steady, NoFd
  <2>3. g \in Counted(fd) /\ h \notin Counted(fd) /\ Counted(fd) \subseteq Handles
        BY <1>1, <2>0, RegistryAssumption DEF Counted, CountedPCs, Steady, NoFd
  <2>4. Cardinality(Counted(fd)') = Cardinality(Counted(fd))
    <3>1. h \in Handles \ Counted(fd)
          BY <2>3
    <3>2. Cardinality((Counted(fd) \ {g}) \cup {h}) = Cardinality(Counted(fd))
          BY <2>3, <3>1, Counting
    <3> QED
        BY <2>2, <3>2, Zenon
  <2> QED
      BY <1>1, <2>1, <2>3, <2>4 DEF IInv, CountInv
<1>9. MutexInv'
      BY <1>1, <1>3 DEF IInv, Types, MutexInv
<1>10. OpenInv' /\ NoDescriptorLeaks'
      BY <1>1, <1>2, <1>3, RegistryAssumption DEF IInv, Types, OpenInv, NoDescriptorLeaks, NoFd
<1> QED
    BY <1>4, <1>5, <1>6, <1>7, <1>8, <1>9, <1>10 DEF IInv

\* A counted handle that goes on and stays counted.
LEMMA StaysCounted ==
    ASSUME IInv, NEW h \in Handles, NEW label \in CountedPCs,
           pc[h] \in CountedPCs, hfd[h] # NoFd,
           label \in Steady \/ Unshared(h),
           Goto(h, label), \A g \in Handles : probe'[g] = 0,
           UNCHANGED <<slotFd, slotCount, hfd, src, opened, given>>
    PROVE  /\ HomeInv' /\ CopyInv' /\ AloneInv' /\ CountInv'
           /\ OpenInv' /\ NoDescriptorLeaks'
<1>1. pc' = [pc EXCEPT ![h] = label] /\ pc \in [Handles -> PCs]
      BY DEF Goto, IInv, Types
<1>2. src[h] = NoHandle
      BY DEF IInv, CopyInv, CountedPCs, Steady
<1>3. HomeInv' /\ OpenInv' /\ NoDescriptorLeaks'
      BY DEF IInv, HomeInv, OpenInv, NoDescriptorLeaks
<1>4. CopyInv'
      BY <1>1, <1>2 DEF IInv, CopyInv, CountedPCs, Steady, Unshared
<1>5. AloneInv'
      BY <1>1, <1>2 DEF IInv, AloneInv, Alone, Fresh, CountedPCs, Steady
<1>6. CountInv'
  <2>1. \A f \in Fds : Counted(f)' = Counted(f)
        BY <1>1 DEF Counted
  <2> QED
      BY <2>1 DEF IInv, CountInv
<1> QED
    BY <1>3, <1>4, <1>5, <1>6

\* reset() and release() begin.
LEMMA ReleaseKeeps ==
    ASSUME IInv, NEW h \in Handles, NEW closing \in BOOLEAN, StartRelease(h, closing)
    PROVE  IInv'
<1>1. \A g \in Handles : probe'[g] = 0
      BY DEF StartRelease, IInv, Types, HomeInv
<1>2. Types'
      BY RegistryAssumption DEF StartRelease, Goto, IInv, Types, PCs, Slots
<1>3. MutexInv'
      BY DEF StartRelease, Goto, IInv, Types, MutexInv
<1> QED
    BY <1>1, <1>2, <1>3, StaysCounted DEF StartRelease, IInv, CountedPCs, Steady

\* release finds the slot at once.
LEMMA FindKeeps ==
    ASSUME NoCollisions, IInv, NEW h \in Handles, Find(h) PROVE IInv'
<1>1. pc[h] = "find" /\ hfd[h] # NoFd
      BY DEF Find, IInv, CopyInv
<1>2. slotFd[At(h)] = hfd[h]
      BY <1>1, AtHome, CountedAtHome DEF CountedPCs
<1>3. Goto(h, "sub") /\ UNCHANGED <<slotFd, slotCount, hfd, probe, src, closes, mtx, opened, given, reused>>
      BY <1>2 DEF Find
<1>4. Unshared(h)
      BY <1>1, RegistryAssumption DEF Unshared, IInv, CopyInv, Types, Steady
<1>5. Types' /\ MutexInv'
      BY <1>3 DEF Goto, IInv, Types, MutexInv, PCs
<1>6. \A g \in Handles : probe'[g] = 0
      BY <1>3 DEF IInv, HomeInv
<1> QED
    BY <1>1, <1>3, <1>4, <1>5, <1>6, StaysCounted DEF IInv, CountedPCs

\* A session begins and ends.
LEMMA SessionKeeps ==
    ASSUME NoCollisions, IInv, NEW h \in Handles, Lock(h) \/ Acquire(h) \/ Unlock(h)
    PROVE  IInv'
<1>1. pc[h] \in Steady /\ hfd[h] # NoFd /\ hfd[h] \in Fds
      BY DEF Lock, Acquire, Unlock, IInv, CopyInv, Types, Steady
<1>2. UNCHANGED <<slotFd, slotCount, hfd, probe, src, closes, opened, given, reused>>
      BY DEF Lock, Acquire, Unlock
<1>3. \A g \in Handles : probe'[g] = 0
      BY <1>2 DEF IInv, HomeInv
<1>4. PICK label \in Steady : Goto(h, label)
      BY DEF Lock, Acquire, Unlock, Steady
<1>5. /\ HomeInv' /\ CopyInv' /\ AloneInv' /\ CountInv'
      /\ OpenInv' /\ NoDescriptorLeaks'
      BY <1>1, <1>2, <1>3, <1>4, StaysCounted DEF CountedPCs
<1>6. Types' /\ MutexInv'
  <2>1. CASE Lock(h)
    <3>1. /\ pc[h] = "idle" /\ pc' = [pc EXCEPT ![h] = "mutex"]
          /\ mtx' = [mtx EXCEPT ![h] = HomeSlot(hfd[h])]
      <4>1. PICK m \in Slots \cup {Fallback} :
               FindsMutex(h, m) /\ mtx' = [mtx EXCEPT ![h] = m]
            BY <2>1 DEF Lock
      <4>2. pc[h] = "idle" /\ pc' = [pc EXCEPT ![h] = "mutex"]
            BY <2>1 DEF Lock, Goto
      <4>3. m = HomeSlot(hfd[h])
            BY <1>1, <4>1, <4>2, MutexAtHome
      <4> QED
          BY <4>1, <4>2, <4>3
    <3> QED
        BY <1>1, <1>2, <3>1, Home DEF IInv, Types, MutexInv, PCs
  <2>2. CASE Acquire(h)
        BY <1>2, <2>2 DEF Acquire, Goto, IInv, Types, MutexInv, PCs
  <2>3. CASE Unlock(h)
        BY <1>2, <2>3 DEF Unlock, Goto, IInv, Types, MutexInv, PCs
  <2> QED
      BY <2>1, <2>2, <2>3
<1> QED
    BY <1>5, <1>6 DEF IInv

\* The read-only scan of retain.
LEMMA ScanKeeps ==
    ASSUME NoCollisions, IInv, NEW h \in Handles, Scan(h) PROVE IInv'
<1>1. pc[h] = "scan" /\ hfd[h] # NoFd
      BY DEF Scan, IInv, CopyInv
<1>2. PICK fd \in Fds : fd = hfd[h]
      BY <1>1 DEF IInv, Types
<1>3. At(h) = HomeSlot(fd) /\ slotFd[At(h)] \in {fd, NoFd} /\ fd # NoFd /\ probe[h] = 0
      BY <1>1, <1>2, AtHome DEF IInv, HomeInv
<1>4. IF src[h] = NoHandle THEN slotFd[HomeSlot(fd)] = NoFd ELSE slotFd[HomeSlot(fd)] = fd
  <2>1. CASE src[h] = NoHandle
        BY <1>1, <1>2, <2>1 DEF IInv, AloneInv, Fresh
  <2>2. CASE src[h] # NoHandle
    <3>1. src[h] \in Handles /\ hfd[src[h]] = fd /\ pc[src[h]] \in CountedPCs
          BY <1>2, <2>2 DEF IInv, Types, CopyInv, CountedPCs
    <3> QED
        BY <1>3, <2>2, <3>1, CountedAtHome
  <2> QED
      BY <2>1, <2>2
<1>5. /\ pc' = [pc EXCEPT ![h] = IF src[h] = NoHandle THEN "claim" ELSE "add"]
      /\ UNCHANGED <<src, hfd, slotFd, slotCount, closes, mtx, opened, given, reused>>
      /\ probe' \in [Handles -> Slots] /\ \A g \in Handles : probe'[g] = 0
  <2>1. CASE src[h] = NoHandle
        BY <1>2, <1>3, <1>4, <2>1, RegistryAssumption DEF Scan, Goto, IInv, Types, HomeInv, Slots
  <2>2. CASE src[h] # NoHandle
        BY <1>2, <1>3, <1>4, <2>2 DEF Scan, Goto, IInv, Types, HomeInv
  <2> QED
      BY <2>1, <2>2
<1>6. Types'
      BY <1>5 DEF IInv, Types, PCs
<1>7. HomeInv' /\ OpenInv' /\ NoDescriptorLeaks'
      BY <1>5 DEF IInv, HomeInv, OpenInv, NoDescriptorLeaks
<1>8. CopyInv'
      BY <1>1, <1>5 DEF IInv, Types, CopyInv, Steady
<1>9. AloneInv'
  <2>1. \A g \in Handles : Fresh(g)' <=> Fresh(g)
        BY <1>1, <1>5 DEF IInv, Types, Fresh
  <2> QED
      BY <1>1, <1>5, <2>1 DEF IInv, Types, AloneInv, Alone
<1>10. CountInv'
  <2>1. \A f \in Fds : Counted(f)' = Counted(f)
        BY <1>1, <1>5 DEF IInv, Types, Counted, CountedPCs, Steady
  <2> QED
      BY <1>5, <2>1 DEF IInv, CountInv
<1>11. MutexInv'
      BY <1>1, <1>5 DEF IInv, Types, MutexInv
<1> QED
    BY <1>6, <1>7, <1>8, <1>9, <1>10, <1>11 DEF IInv

\* A handle more is counted: the source's slot cannot have gone meanwhile.
LEMMA AddKeeps ==
    ASSUME NoCollisions, IInv, NEW h \in Handles, Add(h) PROVE IInv'
<1>1. pc[h] = "add" /\ hfd[h] # NoFd /\ src[h] # NoHandle
      BY DEF Add, IInv, CopyInv
<1>2. PICK fd \in Fds : fd = hfd[h]
      BY <1>1 DEF IInv, Types
<1>3. /\ src[h] \in Handles /\ hfd[src[h]] = fd /\ pc[src[h]] \in CountedPCs
      /\ src[h] \in Counted(fd)
      BY <1>1, <1>2 DEF IInv, Types, CopyInv, CountedPCs, Counted
<1>4. /\ slotFd[HomeSlot(fd)] = fd /\ slotCount[HomeSlot(fd)] = Cardinality(Counted(fd))
      /\ HomeSlot(fd) \in Slots
      BY <1>3, Home DEF IInv, CountInv
<1>5. /\ pc' = [pc EXCEPT ![h] = "idle"] /\ src' = [src EXCEPT ![h] = NoHandle]
      /\ slotCount' = [slotCount EXCEPT ![HomeSlot(fd)] = @ + 1]
      /\ UNCHANGED <<slotFd, hfd, probe, closes, mtx, opened, given, reused>>
      BY <1>1, <1>2, AtHome DEF Add, Retained, Goto
<1>6. Types'
      BY <1>4, <1>5 DEF IInv, Types, PCs
<1>7. HomeInv' /\ OpenInv' /\ NoDescriptorLeaks'
      BY <1>5 DEF IInv, HomeInv, OpenInv, NoDescriptorLeaks
<1>8. CopyInv'
      BY <1>1, <1>5 DEF IInv, Types, CopyInv, Steady
<1>9. AloneInv'
      BY <1>1, <1>5 DEF IInv, Types, AloneInv, Alone, Fresh
<1>10. CountInv'
  <2>1. \A f \in Fds \ {fd} : /\ Counted(f)' = Counted(f)
                              /\ slotCount'[HomeSlot(f)] = slotCount[HomeSlot(f)]
        BY <1>1, <1>2, <1>4, <1>5, Home DEF IInv, Types, Counted, NoCollisions
  <2>2. /\ Counted(fd)' = Counted(fd) \cup {h} /\ h \in Handles \ Counted(fd)
        /\ Counted(fd) \subseteq Handles
        BY <1>1, <1>2, <1>5 DEF IInv, Types, Counted, CountedPCs, Steady
  <2>3. slotCount'[HomeSlot(fd)] = Cardinality(Counted(fd)) + 1
        BY <1>4, <1>5 DEF IInv, Types
  <2>4. Cardinality(Counted(fd) \cup {h}) = Cardinality(Counted(fd)) + 1
        BY <2>2, Counting
  <2>5. slotCount'[HomeSlot(fd)] = Cardinality(Counted(fd)')
        BY <2>2, <2>3, <2>4, Zenon
  <2> QED
      BY <1>4, <1>5, <2>1, <2>5 DEF IInv, CountInv
<1>11. MutexInv'
      BY <1>1, <1>5 DEF IInv, Types, MutexInv
<1> QED
    BY <1>6, <1>7, <1>8, <1>9, <1>10, <1>11 DEF IInv

\* The home slots of different descriptors differ.
LEMMA OtherHome ==
    ASSUME NoCollisions, NEW f \in Fds, NEW g \in Fds, f # g
    PROVE  HomeSlot(f) # HomeSlot(g)
BY DEF NoCollisions

\* The slot of a new descriptor is free, and nobody else wants it.
LEMMA ClaimKeeps ==
    ASSUME NoCollisions, IInv, NEW h \in Handles, Claim(h) PROVE IInv'
<1>1. pc[h] = "claim" /\ hfd[h] # NoFd /\ src[h] = NoHandle
      BY DEF Claim, IInv, CopyInv
<1>2. PICK fd \in Fds : fd = hfd[h]
      BY <1>1 DEF IInv, Types
<1>3. /\ At(h) = HomeSlot(fd) /\ HomeSlot(fd) \in Slots
      /\ Alone(h) /\ slotFd[HomeSlot(fd)] = NoFd
      BY <1>1, <1>2, AtHome DEF IInv, AloneInv, Fresh
<1>4. /\ pc' = [pc EXCEPT ![h] = "store"] /\ slotFd' = [slotFd EXCEPT ![HomeSlot(fd)] = fd]
      /\ UNCHANGED <<slotCount, hfd, probe, src, closes, mtx, opened, given, reused>>
      BY <1>1, <1>2, <1>3 DEF Claim, Goto
<1>5. \A f \in Fds \ {fd} : slotFd'[HomeSlot(f)] = slotFd[HomeSlot(f)]
      BY <1>3, <1>4, OtherHome, Home DEF IInv, Types
<1>6. Types'
      BY <1>3, <1>4 DEF IInv, Types, PCs
<1>7. HomeInv' /\ OpenInv' /\ NoDescriptorLeaks'
      BY <1>2, <1>3, <1>4 DEF IInv, Types, HomeInv, OpenInv, NoDescriptorLeaks
<1>8. CopyInv'
      BY <1>1, <1>4 DEF IInv, Types, CopyInv, Steady
<1>9. AloneInv'
  <2>1. \A g \in Handles : g # h => (Fresh(g)' <=> Fresh(g)) /\ pc'[g] = pc[g] /\ hfd[g] # fd
        BY <1>2, <1>3, <1>4 DEF IInv, Types, Fresh, Alone
  <2>2. ~Fresh(h)' /\ pc'[h] = "store" /\ slotFd'[HomeSlot(fd)] = fd
        BY <1>3, <1>4 DEF IInv, Types, Fresh
  <2>3. \A g \in Handles : Alone(g)' = Alone(g)
        BY <1>4 DEF Alone
  <2>4. \A g \in Handles : pc[g] # "idle" => hfd[g] \in Fds
        BY DEF IInv, Types, CopyInv
  <2> QED
      BY <1>2, <1>3, <1>4, <1>5, <2>1, <2>2, <2>3, <2>4 DEF IInv, AloneInv, Fresh
<1>10. CountInv'
  <2>1. \A f \in Fds : Counted(f)' = Counted(f)
        BY <1>1, <1>4 DEF IInv, Types, Counted, CountedPCs, Steady
  <2>2. Counted(fd) = {}
        BY <1>1, <1>2, <1>3 DEF Counted, Alone, CountedPCs, Steady
  <2> QED
      BY <1>4, <1>5, <2>1, <2>2 DEF IInv, CountInv
<1>11. MutexInv'
      BY <1>1, <1>4 DEF IInv, Types, MutexInv
<1> QED
    BY <1>6, <1>7, <1>8, <1>9, <1>10, <1>11 DEF IInv

\* The first handle of a descriptor is counted.
LEMMA StoreKeeps ==
    ASSUME NoCollisions, IInv, NEW h \in Handles, Store(h) PROVE IInv'
<1>1. pc[h] = "store" /\ hfd[h] # NoFd /\ src[h] = NoHandle
      BY DEF Store, IInv, CopyInv
<1>2. PICK fd \in Fds : fd = hfd[h]
      BY <1>1 DEF IInv, Types
<1>3. /\ At(h) = HomeSlot(fd) /\ HomeSlot(fd) \in Slots
      /\ Alone(h) /\ slotFd[HomeSlot(fd)] = fd
      BY <1>1, <1>2, AtHome DEF IInv, AloneInv
<1>4. /\ pc' = [pc EXCEPT ![h] = "idle"] /\ src' = [src EXCEPT ![h] = NoHandle]
      /\ slotCount' = [slotCount EXCEPT ![HomeSlot(fd)] = 1]
      /\ UNCHANGED <<slotFd, hfd, probe, closes, mtx, opened, given, reused>>
      BY <1>3 DEF Store, Retained, Goto
<1>5. Types'
      BY <1>3, <1>4 DEF IInv, Types, PCs
<1>6. HomeInv' /\ OpenInv' /\ NoDescriptorLeaks'
      BY <1>4 DEF IInv, HomeInv, OpenInv, NoDescriptorLeaks
<1>7. CopyInv'
      BY <1>1, <1>4 DEF IInv, Types, CopyInv, Steady
<1>8. AloneInv'
      BY <1>1, <1>4 DEF IInv, Types, AloneInv, Alone, Fresh
<1>9. CountInv'
  <2>1. \A f \in Fds \ {fd} : /\ Counted(f)' = Counted(f)
                              /\ slotCount'[HomeSlot(f)] = slotCount[HomeSlot(f)]
        BY <1>1, <1>2, <1>3, <1>4, OtherHome, Home DEF IInv, Types, Counted
  <2>2. Counted(fd)' = {h}
        BY <1>2, <1>3, <1>4 DEF IInv, Types, Counted, CountedPCs, Steady, Alone
  <2>3. Cardinality({h}) = 1
        BY FS_Singleton
  <2>4. slotCount'[HomeSlot(fd)] = 1
        BY <1>3, <1>4 DEF IInv, Types
  <2>5. slotCount'[HomeSlot(fd)] = Cardinality(Counted(fd)')
        BY <2>2, <2>3, <2>4, Zenon
  <2> QED
      BY <1>3, <1>4, <2>1, <2>5 DEF IInv, CountInv
<1>10. MutexInv'
      BY <1>1, <1>4 DEF IInv, Types, MutexInv
<1> QED
    BY <1>5, <1>6, <1>7, <1>8, <1>9, <1>10 DEF IInv

\* The last counted handle of a descriptor is the last of all: a copy under
\* way would have a counted source.
LEMMA LastIsAlone ==
    ASSUME IInv, NEW h \in Handles, pc[h] = "sub", hfd[h] # NoFd,
           Counted(hfd[h]) = {h}
    PROVE  Alone(h)
<1> SUFFICES ASSUME NEW g \in Handles, hfd[g] = hfd[h], g # h PROVE FALSE
    BY DEF Alone
<1>1. pc[g] \in {"scan", "add", "claim", "store", "free", "close"}
      BY DEF IInv, Types, PCs, Counted, CountedPCs, Steady
<1>2. ~Alone(g)
      BY DEF Alone
<1>3. pc[g] \in {"scan", "add"} /\ src[g] # NoHandle
      BY <1>1, <1>2 DEF IInv, AloneInv, CopyInv, Fresh
<1>4. src[g] \in Handles /\ hfd[src[g]] = hfd[h] /\ pc[src[g]] \in Steady
      BY <1>3 DEF IInv, Types, CopyInv
<1>5. src[g] \in Counted(hfd[h])
      BY <1>4 DEF Counted, CountedPCs
<1> QED
    BY <1>4, <1>5 DEF Steady

\* A handle less is counted; the last goes on to free the slot.
LEMMA SubKeeps ==
    ASSUME NoCollisions, IInv, NEW h \in Handles, Sub(h) PROVE IInv'
<1>1. pc[h] = "sub" /\ hfd[h] # NoFd /\ src[h] = NoHandle
      BY DEF Sub, IInv, CopyInv
<1>2. PICK fd \in Fds : fd = hfd[h]
      BY <1>1 DEF IInv, Types
<1>3. /\ At(h) = HomeSlot(fd) /\ HomeSlot(fd) \in Slots
      /\ slotFd[HomeSlot(fd)] = fd
      /\ slotCount[HomeSlot(fd)] = Cardinality(Counted(fd))
      /\ h \in Counted(fd) /\ Counted(fd) \subseteq Handles
      BY <1>1, <1>2, AtHome, CountedAtHome DEF CountedPCs, Counted
<1>4. /\ slotCount' = [slotCount EXCEPT ![HomeSlot(fd)] = @ - 1]
      /\ UNCHANGED <<slotFd, probe, src, mtx, opened, reused>>
      BY <1>3 DEF Sub
<1>5. /\ Cardinality(Counted(fd)) \in Nat \ {0}
      /\ Cardinality(Counted(fd) \ {h}) = Cardinality(Counted(fd)) - 1
      /\ Cardinality(Counted(fd)) = 1 => Counted(fd) = {h}
      BY <1>3, Counting
<1>6. slotCount' \in [Slots -> Nat] /\ slotCount'[HomeSlot(fd)] = Cardinality(Counted(fd)) - 1
      BY <1>3, <1>4, <1>5 DEF IInv, Types
<1>7. \A g \in Handles : src[g] # h
      BY <1>1, RegistryAssumption DEF IInv, CopyInv, Types, Steady
<1>8. \A f \in Fds \ {fd} : slotCount'[HomeSlot(f)] = slotCount[HomeSlot(f)]
      BY <1>3, <1>4, OtherHome, Home DEF IInv, Types
<1>9. CASE slotCount[HomeSlot(fd)] = 1
  <2>1. pc' = [pc EXCEPT ![h] = "free"] /\ UNCHANGED <<hfd, closes, given>>
        BY <1>3, <1>9 DEF Sub, Goto
  <2>2. Counted(fd) = {h} /\ Alone(h)
        BY <1>1, <1>2, <1>3, <1>5, <1>9, LastIsAlone
  <2>3. Types'
        BY <1>4, <1>6, <2>1 DEF IInv, Types, PCs
  <2>4. HomeInv' /\ OpenInv' /\ NoDescriptorLeaks'
        BY <1>4, <2>1 DEF IInv, HomeInv, OpenInv, NoDescriptorLeaks
  <2>5. CopyInv'
        BY <1>1, <1>4, <1>7, <2>1 DEF IInv, Types, CopyInv, Steady
  <2>6. AloneInv'
        BY <1>1, <1>2, <1>3, <1>4, <2>1, <2>2 DEF IInv, Types, AloneInv, Alone, Fresh
  <2>7. CountInv'
    <3>1. \A f \in Fds \ {fd} : Counted(f)' = Counted(f)
          BY <1>2, <2>1 DEF IInv, Types, Counted
    <3>2. Counted(fd)' = {}
          BY <1>2, <2>1, <2>2 DEF IInv, Types, Counted, CountedPCs, Steady
    <3> QED
        BY <1>4, <1>8, <3>1, <3>2 DEF IInv, CountInv
  <2>8. MutexInv'
        BY <1>1, <1>4, <2>1 DEF IInv, Types, MutexInv
  <2> QED
      BY <2>3, <2>4, <2>5, <2>6, <2>7, <2>8 DEF IInv
<1>10. CASE slotCount[HomeSlot(fd)] # 1
  <2>1. /\ pc' = [pc EXCEPT ![h] = "idle"] /\ hfd' = [hfd EXCEPT ![h] = NoFd]
        /\ closes' = [closes EXCEPT ![h] = FALSE]
        /\ given' = IF closes[h] THEN given ELSE given \cup {hfd[h]}
        BY <1>3, <1>10 DEF Sub, Goto, Drop
  <2>2. PICK g \in Counted(fd) : g # h
    <3>1. Cardinality({h}) = 1
          BY FS_Singleton
    <3>2. Counted(fd) # {h}
          BY <1>3, <1>10, <3>1, Zenon
    <3> QED
        BY <1>3, <3>2
  <2>3. g \in Handles /\ hfd[g] = fd /\ hfd'[g] = fd
        BY <2>1, <2>2 DEF Counted, IInv, Types
  <2>4. Types'
        BY <1>2, <1>4, <1>6, <2>1 DEF IInv, Types, PCs
  <2>5. HomeInv'
        BY <1>2, <1>4, <2>1, <2>3 DEF IInv, Types, HomeInv
  <2>6. CopyInv'
        BY <1>1, <1>4, <1>7, <2>1 DEF IInv, Types, CopyInv, Steady
  <2>7. AloneInv'
    <3>1. ASSUME NEW k \in Handles, Fresh(k)' \/ pc'[k] \in {"close", "store", "free"}
          PROVE  /\ k # h /\ pc'[k] = pc[k] /\ hfd'[k] = hfd[k] /\ (Fresh(k)' <=> Fresh(k))
                 /\ Alone(k) /\ hfd[k] # NoFd
          BY <1>4, <2>1, <3>1 DEF IInv, Types, AloneInv, CopyInv, Fresh
    <3>2. ASSUME NEW k \in Handles, Fresh(k)' \/ pc'[k] \in {"close", "store", "free"}
          PROVE  Alone(k)'
          BY <2>1, <3>1, <3>2 DEF IInv, Types, Alone
    <3> QED
        BY <1>4, <3>1, <3>2 DEF IInv, AloneInv
  <2>8. CountInv'
    <3>1. \A f \in Fds \ {fd} : Counted(f)' = Counted(f)
          BY <1>2, <2>1, RegistryAssumption DEF IInv, Types, Counted, NoFd
    <3>2. Counted(fd)' = Counted(fd) \ {h}
          BY <1>2, <2>1, RegistryAssumption DEF IInv, Types, Counted, NoFd
    <3>3. slotCount'[HomeSlot(fd)] = Cardinality(Counted(fd)')
          BY <1>5, <1>6, <3>2, Zenon
    <3> QED
        BY <1>3, <1>4, <1>8, <3>1, <3>3 DEF IInv, CountInv
  <2>9. MutexInv'
        BY <1>1, <1>4, <2>1 DEF IInv, Types, MutexInv
  <2>10. OpenInv' /\ NoDescriptorLeaks'
    <3>1. given \subseteq given'
          BY <2>1
    <3> QED
        BY <1>2, <1>4, <2>1, <2>3, <3>1 DEF IInv, Types, OpenInv, NoDescriptorLeaks
  <2> QED
      BY <2>4, <2>5, <2>6, <2>7, <2>8, <2>9, <2>10 DEF IInv
<1> QED
    BY <1>9, <1>10

\* A descriptor's last handle lets go, when its slot is or becomes free.
LEMMA LastDrops ==
    ASSUME NoCollisions, IInv, NEW h \in Handles, NEW fd \in Fds, fd = hfd[h],
           pc[h] \in {"free", "close"}, Drop(h),
           slotFd' = [slotFd EXCEPT ![HomeSlot(fd)] = NoFd],
           UNCHANGED <<slotCount, probe, src, mtx>>
    PROVE  HomeInv' /\ CopyInv' /\ AloneInv' /\ CountInv' /\ MutexInv'
<1>1. pc' = [pc EXCEPT ![h] = "idle"] /\ hfd' = [hfd EXCEPT ![h] = NoFd]
      BY DEF Drop, Goto
<1>2. Alone(h) /\ HomeSlot(fd) \in Slots
      BY Home DEF IInv, AloneInv
<1>3. \A g \in Handles : g # h => hfd'[g] = hfd[g] /\ hfd[g] # fd /\ pc'[g] = pc[g]
      BY <1>1, <1>2 DEF IInv, Types, Alone
<1>4. hfd'[h] = NoFd /\ pc'[h] = "idle" /\ slotFd'[HomeSlot(fd)] = NoFd
      BY <1>1, <1>2 DEF IInv, Types
<1>5. \A i \in Slots : i # HomeSlot(fd) => slotFd'[i] = slotFd[i]
      BY DEF IInv, Types
<1>6. HomeInv'
      BY <1>3, <1>4, <1>5 DEF IInv, HomeInv
<1>7. CopyInv'
  <2>1. \A g \in Handles : src[g] # h
        BY RegistryAssumption DEF IInv, CopyInv, Steady
  <2>2. src[h] = NoHandle
        BY DEF IInv, CopyInv
  <2> QED
      BY <1>3, <1>4, <2>1, <2>2 DEF IInv, Types, CopyInv
<1>8. AloneInv'
  <2>1. ASSUME NEW k \in Handles, Fresh(k)' \/ pc'[k] \in {"close", "store", "free"}
        PROVE  /\ k # h /\ pc'[k] = pc[k] /\ hfd'[k] = hfd[k] /\ (Fresh(k)' <=> Fresh(k))
               /\ Alone(k) /\ hfd[k] \in Fds \ {fd}
        BY <1>3, <1>4, <2>1 DEF IInv, Types, AloneInv, CopyInv, Fresh
  <2>2. ASSUME NEW k \in Handles, Fresh(k)' \/ pc'[k] \in {"close", "store", "free"}
        PROVE  Alone(k)' /\ slotFd'[HomeSlot(hfd[k])] = slotFd[HomeSlot(hfd[k])]
    <3>1. k # h /\ hfd'[k] = hfd[k] /\ Alone(k) /\ hfd[k] \in Fds \ {fd}
          BY <2>1, <2>2
    <3>2. Alone(k)'
          BY <1>3, <1>4, <3>1, RegistryAssumption DEF Alone, NoFd
    <3>3. HomeSlot(hfd[k]) # HomeSlot(fd) /\ HomeSlot(hfd[k]) \in Slots
          BY <3>1, OtherHome, Home
    <3> QED
        BY <1>5, <3>2, <3>3
  <2> QED
      BY <2>1, <2>2 DEF IInv, AloneInv
<1>9. CountInv'
  <2>1. \A f \in Fds \ {fd} : /\ Counted(f)' = Counted(f)
                              /\ slotFd'[HomeSlot(f)] = slotFd[HomeSlot(f)]
    <3>1. \A f \in Fds \ {fd} : Counted(f)' = Counted(f)
          BY <1>3, <1>4, RegistryAssumption DEF Counted, NoFd
    <3>2. \A f \in Fds \ {fd} : slotFd'[HomeSlot(f)] = slotFd[HomeSlot(f)]
          BY <1>5, OtherHome, Home
    <3> QED
        BY <3>1, <3>2
  <2>2. Counted(fd)' = {}
        BY <1>3, <1>4, RegistryAssumption DEF Counted, NoFd
  <2> QED
      BY <2>1, <2>2 DEF IInv, CountInv
<1>10. MutexInv'
      BY <1>3, <1>4 DEF IInv, MutexInv
<1> QED
    BY <1>6, <1>7, <1>8, <1>9, <1>10

\* The slot is free before the descriptor is.
LEMMA FreeSlotKeeps ==
    ASSUME NoCollisions, IInv, NEW h \in Handles, FreeSlot(h) PROVE IInv'
<1>1. pc[h] = "free" /\ hfd[h] # NoFd /\ src[h] = NoHandle
      BY DEF FreeSlot, IInv, CopyInv
<1>2. PICK fd \in Fds : fd = hfd[h]
      BY <1>1 DEF IInv, Types
<1>3. At(h) = HomeSlot(fd) /\ HomeSlot(fd) \in Slots /\ Alone(h)
      BY <1>1, <1>2, AtHome DEF IInv, AloneInv
<1>4. /\ slotFd' = [slotFd EXCEPT ![HomeSlot(fd)] = NoFd]
      /\ UNCHANGED <<slotCount, probe, src, mtx, opened, reused>>
      BY <1>3 DEF FreeSlot
<1>5. CASE ~closes[h]
  <2>1. Drop(h) /\ given' = given \cup {fd}
        BY <1>2, <1>5 DEF FreeSlot
  <2>2. Types'
        BY <1>4, <2>1 DEF IInv, Types, PCs, Drop, Goto
  <2>3. OpenInv' /\ NoDescriptorLeaks'
        BY <1>2, <1>4, <2>1 DEF IInv, Types, OpenInv, NoDescriptorLeaks, Drop
  <2> QED
      BY <1>1, <1>2, <1>4, <2>1, <2>2, <2>3, LastDrops DEF IInv
<1>6. CASE closes[h]
  <2>1. pc' = [pc EXCEPT ![h] = "close"] /\ UNCHANGED <<hfd, closes, given>>
        BY <1>6 DEF FreeSlot, Goto
  <2>2. Types'
        BY <1>4, <2>1 DEF IInv, Types, PCs
  <2>3. OpenInv' /\ NoDescriptorLeaks'
        BY <1>4, <2>1 DEF IInv, OpenInv, NoDescriptorLeaks
  <2>4. HomeInv'
        BY <1>4, <2>1 DEF IInv, Types, HomeInv
  <2>5. CopyInv'
        BY <1>1, <1>4, <2>1, RegistryAssumption DEF IInv, Types, CopyInv, Steady
  <2>6. \A f \in Fds \ {fd} : slotFd'[HomeSlot(f)] = slotFd[HomeSlot(f)]
        BY <1>3, <1>4, OtherHome, Home DEF IInv, Types
  <2>7. AloneInv'
    <3>1. \A g \in Handles : g # h => (Fresh(g)' <=> Fresh(g)) /\ pc'[g] = pc[g] /\ hfd[g] # fd
          BY <1>2, <1>3, <1>4, <2>1 DEF IInv, Types, Fresh, Alone
    <3>2. ~Fresh(h)' /\ pc'[h] = "close" /\ slotFd'[HomeSlot(fd)] = NoFd
          BY <1>3, <1>4, <2>1 DEF IInv, Types, Fresh
    <3>3. \A g \in Handles : Alone(g)' = Alone(g)
          BY <2>1 DEF Alone
    <3>4. \A g \in Handles : pc[g] # "idle" => hfd[g] \in Fds
          BY DEF IInv, Types, CopyInv
    <3> QED
        BY <1>2, <1>3, <2>1, <2>6, <3>1, <3>2, <3>3, <3>4 DEF IInv, AloneInv, Fresh
  <2>8. CountInv'
    <3>1. \A f \in Fds : Counted(f)' = Counted(f)
          BY <1>1, <2>1 DEF IInv, Types, Counted, CountedPCs, Steady
    <3>2. Counted(fd) = {}
          BY <1>1, <1>2, <1>3 DEF Counted, Alone, CountedPCs, Steady
    <3> QED
        BY <1>4, <2>6, <3>1, <3>2 DEF IInv, CountInv
  <2>9. MutexInv'
        BY <1>1, <1>4, <2>1 DEF IInv, Types, MutexInv
  <2> QED
      BY <2>2, <2>3, <2>4, <2>5, <2>7, <2>8, <2>9 DEF IInv
<1> QED
    BY <1>5, <1>6

\* Only the last handle closes.
LEMMA CloseKeeps ==
    ASSUME NoCollisions, IInv, NEW h \in Handles, Close(h) PROVE IInv'
<1>1. pc[h] = "close" /\ hfd[h] # NoFd
      BY DEF Close, IInv, CopyInv
<1>2. PICK fd \in Fds : fd = hfd[h]
      BY <1>1 DEF IInv, Types
<1>3. HomeSlot(fd) \in Slots /\ Alone(h) /\ slotFd[HomeSlot(fd)] = NoFd
      BY <1>1, <1>2, Home DEF IInv, AloneInv
<1>4. /\ opened' = opened \ {fd} /\ given' = given \ {fd} /\ Drop(h)
      /\ UNCHANGED <<slotFd, slotCount, probe, src, mtx, reused>>
      BY <1>2 DEF Close
<1>5. slotFd' = [slotFd EXCEPT ![HomeSlot(fd)] = NoFd]
      BY <1>3, <1>4 DEF IInv, Types
<1>6. Types'
      BY <1>4 DEF IInv, Types, PCs, Drop, Goto
<1>7. OpenInv' /\ NoDescriptorLeaks'
      BY <1>2, <1>3, <1>4 DEF IInv, Types, OpenInv, NoDescriptorLeaks, Drop, Alone
<1> QED
    BY <1>1, <1>2, <1>4, <1>5, <1>6, <1>7, LastDrops DEF IInv

\* The caller closes a descriptor that no handle holds.
LEMMA CallerCloseKeeps ==
    ASSUME IInv, NEW fd \in Fds, CallerClose(fd) PROVE IInv'
<1> USE DEF CallerClose
<1>1. Types' /\ OpenInv' /\ NoDescriptorLeaks'
      BY DEF IInv, Types, OpenInv, NoDescriptorLeaks
<1>2. HomeInv' /\ CopyInv' /\ MutexInv'
      BY DEF IInv, HomeInv, CopyInv, MutexInv
<1>3. AloneInv' /\ CountInv'
      BY DEF IInv, AloneInv, CountInv, Alone, Fresh, Counted
<1> QED
    BY <1>1, <1>2, <1>3 DEF IInv

-----------------------------------------------------------------------------
(* Theorems *)

\* Every step keeps the invariant.
LEMMA NextIInv == ASSUME NoCollisions, IInv, [Next]_vars, MadeOnce' PROVE IInv'
<1>1. CASE UNCHANGED vars
  <2>1. Types' /\ OpenInv' /\ NoDescriptorLeaks'
        BY <1>1 DEF vars, IInv, Types, OpenInv, NoDescriptorLeaks
  <2>2. HomeInv' /\ CopyInv' /\ MutexInv'
        BY <1>1 DEF vars, IInv, HomeInv, CopyInv, MutexInv
  <2>3. AloneInv' /\ CountInv'
        BY <1>1 DEF vars, IInv, AloneInv, CountInv, Alone, Fresh, Counted
  <2> QED
      BY <2>1, <2>2, <2>3 DEF IInv
<1>2. ASSUME NEW h \in Handles, HandleStep(h) PROVE IInv'
  <2>1. CASE Reset(h) \/ Release(h)
        BY <2>1, ReleaseKeeps DEF Reset, Release
  <2> QED
      BY <1>2, <2>1, ConstructKeeps, CopyKeeps, MoveKeeps, ScanKeeps, AddKeeps, ClaimKeeps,
         StoreKeeps, FindKeeps, SubKeeps, FreeSlotKeeps, CloseKeeps, SessionKeeps
      DEF HandleStep
<1> QED
    BY <1>1, <1>2, CallerCloseKeeps DEF Next

\* Types, and that only an idle handle is empty, whatever numbers handles are
\* made from.
TypeBase ==
    /\ slotFd \in [Slots -> Fds \cup {NoFd}]
    /\ slotCount \in [Slots -> Int]
    /\ hfd \in [Handles -> Fds \cup {NoFd}]
    /\ pc \in [Handles -> PCs]
    /\ probe \in [Handles -> Slots]
    /\ src \in [Handles -> Handles \cup {NoHandle}]
    /\ closes \in [Handles -> BOOLEAN]
    /\ mtx \in [Handles -> Slots \cup {Fallback}]
    /\ opened \subseteq Fds
    /\ given \subseteq Fds
    /\ reused \in Nat
    /\ \A h \in Handles : pc[h] # "idle" => hfd[h] \in Fds

\* A probing loop stays inside the table.
LEMMA ProbeTypes ==
    ASSUME TypeBase, NEW h \in Handles
    PROVE  /\ [probe EXCEPT ![h] = 0] \in [Handles -> Slots]
           /\ probe[h] + 1 < MaxSlots => [probe EXCEPT ![h] = @ + 1] \in [Handles -> Slots]
BY RegistryAssumption DEF TypeBase, Slots

\* Counting keeps integers integers.
LEMMA CountTypes ==
    ASSUME TypeBase, NEW i
    PROVE  /\ [slotCount EXCEPT ![i] = @ + 1] \in [Slots -> Int]
           /\ [slotCount EXCEPT ![i] = @ - 1] \in [Slots -> Int]
           /\ [slotCount EXCEPT ![i] = 1] \in [Slots -> Int]
<1>1. slotCount \in [Slots -> Int]
      BY DEF TypeBase
<1>2. i \in Slots => slotCount[i] \in Int
      BY <1>1
<1>3. ASSUME NEW n, i \in Slots => n \in Int
      PROVE  [slotCount EXCEPT ![i] = n] \in [Slots -> Int]
      BY ONLY <1>1, <1>3, Zenon
<1>4. i \in Slots => slotCount[i] + 1 \in Int /\ slotCount[i] - 1 \in Int /\ 1 \in Int
      BY <1>2
<1> QED
    BY ONLY <1>3, <1>4, Zenon

\* The flag of a running release stays a Boolean.
LEMMA ClosesTypes ==
    ASSUME TypeBase, NEW h \in Handles, NEW b \in BOOLEAN
    PROVE  [closes EXCEPT ![h] = b] \in [Handles -> BOOLEAN]
BY Zenon DEF TypeBase

LEMMA TypeBaseStep == ASSUME TypeBase, [Next]_vars PROVE TypeBase'
<1> USE DEF Goto, PCs
<1>1. ASSUME NEW h \in Handles, Construct(h) PROVE TypeBase'
      BY <1>1, ProbeTypes DEF Construct, StartRetain, TypeBase
<1>2. ASSUME NEW h \in Handles, NEW g \in Handles, Copy(h, g) \/ Move(h, g) PROVE TypeBase'
  <2>1. CASE Copy(h, g)
        BY <2>1, ProbeTypes DEF Copy, StartRetain, TypeBase
  <2>2. CASE Move(h, g)
        BY <2>2 DEF Move, TypeBase
  <2> QED
      BY <1>2, <2>1, <2>2
<1>3. ASSUME NEW h \in Handles, Scan(h) PROVE TypeBase'
      BY <1>3, ProbeTypes DEF Scan, Probe, TypeBase
<1>4. ASSUME NEW h \in Handles, Add(h) \/ Store(h) PROVE TypeBase'
      BY <1>4, CountTypes DEF Add, Store, Retained, TypeBase
<1>5. ASSUME NEW h \in Handles, Claim(h) PROVE TypeBase'
      BY <1>5, ProbeTypes DEF Claim, Probe, Retained, TypeBase
<1>6. ASSUME NEW h \in Handles, Reset(h) \/ Release(h) PROVE TypeBase'
  <2>1. closes' \in [Handles -> BOOLEAN]
        BY <1>6, ClosesTypes, Zenon DEF Reset, Release, StartRelease
  <2> QED
      BY <1>6, <2>1, ProbeTypes DEF Reset, Release, StartRelease, TypeBase
<1>7. ASSUME NEW h \in Handles, Find(h) PROVE TypeBase'
  <2>1. CASE slotFd[At(h)] = hfd[h]
        BY <1>7, <2>1 DEF Find, TypeBase
  <2>2. CASE slotFd[At(h)] # hfd[h]
    <3>1. Probe(h, Drop(h) /\ UNCHANGED src) /\ given' \in {given, given \cup {hfd[h]}}
          BY <1>7, <2>2 DEF Find
    <3>2. given' \subseteq Fds
          BY <1>7, <3>1 DEF Find, TypeBase
    <3>3. closes' \in [Handles -> BOOLEAN]
          BY <3>1, ClosesTypes, Zenon DEF Probe, Drop, TypeBase
    <3> QED
        BY <1>7, <2>2, <3>1, <3>2, <3>3, ProbeTypes DEF Find, Probe, Drop, TypeBase
  <2> QED
      BY <2>1, <2>2
<1>8. ASSUME NEW h \in Handles, Sub(h) PROVE TypeBase'
  <2>1. closes' \in [Handles -> BOOLEAN]
        BY <1>8, ClosesTypes, Zenon DEF Sub, Drop, TypeBase
  <2>2. slotCount' \in [Slots -> Int]
        BY <1>8, CountTypes, Zenon DEF Sub
  <2> QED
      BY <1>8, <2>1, <2>2 DEF Sub, Drop, TypeBase
<1>9. ASSUME NEW h \in Handles, FreeSlot(h) \/ Close(h) PROVE TypeBase'
  <2>1. closes' \in [Handles -> BOOLEAN]
        BY <1>9, ClosesTypes, Zenon DEF FreeSlot, Close, Drop, TypeBase
  <2> QED
      BY <1>9, <2>1 DEF FreeSlot, Close, Drop, TypeBase
<1>10. ASSUME NEW h \in Handles, Lock(h) \/ Acquire(h) \/ Unlock(h) PROVE TypeBase'
      BY <1>10 DEF Lock, Acquire, Unlock, TypeBase
<1>11. ASSUME NEW fd \in Fds, CallerClose(fd) PROVE TypeBase'
      BY <1>11 DEF CallerClose, TypeBase
<1>12. CASE UNCHANGED vars
      BY <1>12 DEF vars, TypeBase
<1> QED
    BY <1>1, <1>2, <1>3, <1>4, <1>5, <1>6, <1>7, <1>8, <1>9, <1>10, <1>11, <1>12
    DEF Next, HandleStep

\* A handle made from a number in use is counted for ever.
LEMMA OnceReused == ASSUME TypeBase, [Next]_vars, MadeOnce' PROVE MadeOnce
<1>1. ASSUME NEW h \in Handles, Construct(h) PROVE MadeOnce
      BY <1>1 DEF Construct, MadeOnce, TypeBase
<1>2. ASSUME NEW h \in Handles, HandleStep(h), ~Construct(h) PROVE UNCHANGED reused
      BY <1>2 DEF HandleStep, Copy, Move, Scan, Add, Claim, Store, Reset, Release,
         StartRelease, Find, Sub, FreeSlot, Close, Lock, Acquire, Unlock
<1>3. ASSUME NEW fd \in Fds, CallerClose(fd) PROVE UNCHANGED reused
      BY <1>3 DEF CallerClose
<1> QED
    BY <1>1, <1>2, <1>3 DEF Next, vars, MadeOnce

\* The inductive invariant: types, and IInv until a number is used twice.
MadeOnceInv == TypeBase /\ (MadeOnce => IInv)

LEMMA AlwaysInv == NoCollisions => (Spec => []MadeOnceInv)
<1> SUFFICES ASSUME NoCollisions PROVE Spec => []MadeOnceInv
    OBVIOUS
<1>1. Init => TypeBase
      BY RegistryAssumption DEF Init, TypeBase, PCs, Slots, NoFd, Fallback
<1>2. MadeOnceInv /\ [Next]_vars => MadeOnceInv'
      BY TypeBaseStep, OnceReused, NextIInv DEF MadeOnceInv
<1>3. Init => MadeOnceInv
      BY <1>1, InitIInv DEF MadeOnceInv
<1> QED
    BY <1>2, <1>3, PTL DEF Spec

\* As long as no two descriptors share a home slot, the tables, loops and
\* counters stay in range, and no count of a slot drops below zero before a
\* handle is made from a number that another holds.
THEOREM TypeCorrect == NoCollisions => (Spec => []TypeOK)
<1>1. MadeOnceInv => TypeOK
      BY DEF MadeOnceInv, IInv, Types, TypeBase, TypeOK, MadeOnce
<1> QED
    BY <1>1, AlwaysInv, PTL

\* As long as no two descriptors share a home slot and no handle is made from a
\* number that another holds, retain and release of any number of threads,
\* interleaved at every atomic operation, never close a descriptor under a
\* handle that holds it.
THEOREM NoUseAfterClose == NoCollisions => (Spec => []HeldIsOpen)
<1>1. MadeOnceInv => HeldIsOpen
      BY DEF MadeOnceInv, IInv, OpenInv, HeldIsOpen
<1> QED
    BY <1>1, AlwaysInv, PTL

\* Under the same two conditions a descriptor that no handle and no caller has
\* is closed.
THEOREM NothingLeaks == NoCollisions => (Spec => [](MadeOnce => NoDescriptorLeaks))
<1>1. MadeOnceInv => (MadeOnce => NoDescriptorLeaks)
      BY DEF MadeOnceInv, IInv
<1> QED
    BY <1>1, AlwaysInv, PTL

\* Under the same two conditions lock() gives handles of one descriptor one
\* mutex, and so at most one of them has a session.
THEOREM OneSessionAtATime == NoCollisions => (Spec => []SessionsExclusive)
<1>1. MadeOnceInv => SessionsExclusive
      BY DEF MadeOnceInv, IInv, MutexInv, SessionsExclusive
<1> QED
    BY <1>1, AlwaysInv, PTL

=============================================================================
