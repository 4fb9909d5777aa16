-------------------------- MODULE AdvChardevProofs --------------------------
(***************************************************************************)
(* The indices of the ring agree for every capacity and every request.      *)
(***************************************************************************)
EXTENDS AdvChardev, TLAPS

\* The index modulo the capacity, for an index within two laps.
Wrapped(x) == IF x < BUFFER_SIZE THEN x ELSE x - BUFFER_SIZE

\* One lap around the ring is the most an index ever moves.
LEMMA OneLap ==
    ASSUME NEW x \in 0..(2 * BUFFER_SIZE - 1)
    PROVE  /\ x % BUFFER_SIZE \in Index
           /\ x % BUFFER_SIZE = Wrapped(x)
<1> USE DeviceAssumption DEF Index, Wrapped
<1>1. x < BUFFER_SIZE => x % BUFFER_SIZE = x
      OBVIOUS
<1>2. x >= BUFFER_SIZE => x % BUFFER_SIZE = x - BUFFER_SIZE
      OBVIOUS
<1> QED
    BY <1>1, <1>2

\* A full lap ends where it began.
LEMMA FullLap ==
    ASSUME NEW x \in Index PROVE (x + BUFFER_SIZE) % BUFFER_SIZE = x
<1>1. x + BUFFER_SIZE \in 0..(2 * BUFFER_SIZE - 1)
      BY DeviceAssumption DEF Index
<1> QED
    BY <1>1, OneLap, DeviceAssumption DEF Index, Wrapped

\* Requests are sequences of bytes.
LEMMA DataIsSequence == \A data \in Data : data \in Seq(Bytes)
BY DEF Data

\* Copying a sequence of bytes into the ring gives a ring of bytes.
LEMMA CopyInType ==
    ASSUME TypeOK, NEW data \in Seq(Bytes \cup {0})
    PROVE  CopyIn(data) \in [Index -> Bytes \cup {0}]
<1>1. ASSUME NEW i \in Index
      PROVE  (i + BUFFER_SIZE - head) % BUFFER_SIZE \in Nat
  <2>1. i + BUFFER_SIZE - head \in 0..(2 * BUFFER_SIZE - 1)
        BY DeviceAssumption DEF TypeOK, Index
  <2> QED
      BY <2>1, OneLap DEF Index
<1> QED
    BY <1>1, DeviceAssumption DEF CopyIn, TypeOK

\* The inductive invariant.
IInv == TypeOK /\ RingInv

\* The unloaded module satisfies the invariant.
LEMMA InitIInv == Init => IInv
<1> SUFFICES ASSUME Init PROVE IInv
    OBVIOUS
<1>1. Zeroed \in [Index -> Bytes \cup {0}] /\ 0 \in Index /\ 0 = (0 + 0) % BUFFER_SIZE
      BY OneLap, DeviceAssumption DEF Zeroed, Index
<1>2. TypeOK
      BY <1>1, DeviceAssumption DEF Init, TypeOK
<1>3. RingInv
      BY <1>1 DEF Init, RingInv
<1> QED
    BY <1>2, <1>3 DEF IInv

\* A write that succeeds keeps the indices in agreement, overflow included.
LEMMA WriteKeeps ==
    ASSUME IInv, NEW data \in Data, dev_write(data) PROVE IInv'
<1> DEFINE n == Least(Len(data), BUFFER_SIZE)
<1> USE DeviceAssumption DEF IInv, TypeOK
<1>1. data \in Seq(Bytes) /\ n \in 0..BUFFER_SIZE /\ n <= Len(data)
      BY DataIsSequence DEF Least
<1>2. SubSeq(data, 1, n) \in Seq(Bytes \cup {0})
      BY <1>1
<1>3. buffer' \in [Index -> Bytes \cup {0}]
      BY <1>2, CopyInType DEF dev_write
<1>4. head + n \in 0..(2 * BUFFER_SIZE - 1) /\ head' = (head + n) % BUFFER_SIZE
      BY <1>1, SMTT(30) DEF dev_write, Index
<1>5. head' \in Index
      BY <1>4, OneLap
<1>6. /\ size' = Least(size + n, BUFFER_SIZE)
      /\ tail' = IF size + n > BUFFER_SIZE THEN head' ELSE tail
      BY DEF dev_write, Overflow
<1>a. held' = held /\ clobbered' = clobbered /\ err' = "ok"
      BY DEF dev_write
<1> HIDE DEF n
<1>7. TypeOK'
  <2>1. size' \in 0..BUFFER_SIZE /\ tail' \in Index
        BY <1>1, <1>5, <1>6 DEF Least
  <2> QED
      BY <1>3, <1>5, <1>a, <2>1
<1>8. CASE size + n > BUFFER_SIZE
  <2>1. size' = BUFFER_SIZE /\ tail' = head'
        BY <1>1, <1>6, <1>8 DEF Least
  <2> QED
      BY <1>5, <1>7, <2>1, FullLap DEF RingInv
<1>9. CASE size + n <= BUFFER_SIZE
  <2>1. size' = size + n /\ tail' = tail
        BY <1>1, <1>6, <1>9 DEF Least
  <2>2. /\ tail + size \in 0..(2 * BUFFER_SIZE - 1)
        /\ tail + size + n \in 0..(2 * BUFFER_SIZE - 1)
        BY <1>1, <1>9 DEF Index
  <2>3. head = Wrapped(tail + size)
        BY <2>2, OneLap, Zenon DEF RingInv
  <2>4. /\ (tail + size + n) % BUFFER_SIZE = Wrapped(tail + size + n)
        /\ head' = Wrapped(head + n)
        BY <1>4, <2>2, OneLap, Zenon
  <2>5. Wrapped(tail + size + n) = Wrapped(head + n)
        BY <1>1, <1>9, <2>3 DEF Index, Wrapped
  <2>6. tail' + size' = tail + size + n
        BY <1>1, <2>1 DEF Index
  <2>7. RingInv'
        BY <2>4, <2>5, <2>6, Zenon DEF RingInv
  <2> QED
      BY <1>7, <2>7
<1> QED
    BY <1>1, <1>8, <1>9

\* A read that succeeds moves the tail towards the head and no further.
LEMMA ReadKeeps ==
    ASSUME IInv, NEW len \in 0..MaxLen, dev_read(len) PROVE IInv'
<1> DEFINE n == Least(len, size)
<1> USE DeviceAssumption DEF IInv, TypeOK
<1>1. n \in 0..size
      BY DEF Least
<1>2. /\ tail' = (tail + n) % BUFFER_SIZE /\ size' = size - n
      /\ head' = head /\ buffer' = buffer /\ held' = held
      /\ clobbered' = clobbered /\ err' = "ok"
      BY DEF dev_read, Advance
<1> HIDE DEF n
<1>3. tail + n \in 0..(2 * BUFFER_SIZE - 1) /\ tail + size \in 0..(2 * BUFFER_SIZE - 1)
      BY <1>1 DEF Index
<1>4. tail' \in Index
      BY <1>2, <1>3, OneLap
<1>5. TypeOK'
      BY <1>1, <1>2, <1>4
<1>6. tail' + size' \in 0..(2 * BUFFER_SIZE - 1)
      BY <1>1, <1>2, <1>4 DEF Index
<1>7. head = Wrapped(tail + size)
      BY <1>3, OneLap, Zenon DEF RingInv
<1>8. tail' = Wrapped(tail + n)
      BY <1>2, <1>3, OneLap, Zenon
<1>9. (tail' + size') % BUFFER_SIZE = Wrapped(tail' + size')
      BY <1>6, OneLap, Zenon
<1>10. Wrapped(tail' + size') = Wrapped(tail + size)
      BY <1>1, <1>2, <1>8 DEF Index, Wrapped
<1>11. RingInv'
      BY <1>2, <1>7, <1>9, <1>10, Zenon DEF RingInv
<1> QED
    BY <1>5, <1>11

\* A write that fails changes only the bytes of the ring.
LEMMA FailedWriteKeeps ==
    ASSUME IInv, NEW data \in Data, dev_write_faults(data) PROVE IInv'
<1> DEFINE n == Least(Len(data), BUFFER_SIZE)
           first == Least(n, BUFFER_SIZE - head)
           part(k) == IF k < first THEN first ELSE n
<1> USE DeviceAssumption DEF IInv, TypeOK
<1>1. PICK k \in 0..(n - 1) :
        /\ buffer' = CopyIn([j \in 1..part(k) |-> IF j <= k THEN data[j] ELSE 0])
        /\ clobbered' = (clobbered \/ part(k) > BUFFER_SIZE - size)
      BY DEF dev_write_faults
<1>2. data \in Seq(Bytes) /\ n \in 0..BUFFER_SIZE /\ n <= Len(data)
      BY DataIsSequence DEF Least
<1>3. part(k) \in Nat
      BY <1>2 DEF Least, Index
<1>4. [j \in 1..part(k) |-> IF j <= k THEN data[j] ELSE 0] \in Seq(Bytes \cup {0})
      BY <1>2, <1>3
<1>5. buffer' \in [Index -> Bytes \cup {0}]
      BY <1>1, <1>4, CopyInType
<1>6. clobbered' \in BOOLEAN
      BY <1>1
<1> QED
    BY <1>5, <1>6 DEF dev_write_faults, RingInv

\* Every operation keeps the invariant.
LEMMA NextIInv == IInv /\ [Next]_vars => IInv'
<1> SUFFICES ASSUME IInv, [Next]_vars PROVE IInv'
    OBVIOUS
<1> USE DeviceAssumption DEF IInv, TypeOK
<1>1. Zeroed \in [Index -> Bytes \cup {0}] /\ 0 \in Index /\ 0 = (0 + 0) % BUFFER_SIZE
      BY OneLap DEF Zeroed, Index
<1>2. CASE adv_init \/ Reset
  <2>1. /\ buffer' = Zeroed /\ head' = 0 /\ tail' = 0 /\ size' = 0
        /\ clobbered' = FALSE /\ err' = "ok" /\ held' \subseteq Resources
        BY <1>2 DEF adv_init, Reset, Emptied
  <2>2. RingInv'
        BY <1>1, <2>1 DEF RingInv
  <2>3. TypeOK'
    <3>1. clobbered' \in BOOLEAN
          BY <2>1
    <3> QED
        BY <1>1, <2>1, <3>1
  <2> QED
      BY <2>2, <2>3
<1>3. CASE adv_init_fails
  <2>1. held' \subseteq Resources
        BY <1>3 DEF adv_init_fails, Acquired, Resources
  <2> QED
      BY <1>3, <2>1 DEF adv_init_fails, ring, RingInv
<1>4. CASE adv_exit \/ device_set_llseek_rejects \/ UNCHANGED vars
      BY <1>4 DEF adv_exit, device_set_llseek_rejects, vars, ring, RingInv
<1>5. ASSUME NEW len \in 0..MaxLen, dev_read_wrapped(len) \/ dev_read_faults(len)
      PROVE  IInv'
      BY <1>5 DEF dev_read_wrapped, dev_read_faults, ring, RingInv
<1> QED
    BY <1>2, <1>3, <1>4, <1>5, ReadKeeps, WriteKeeps, FailedWriteKeeps
       DEF Next, Read, Write

\* The fields of the device stay in their types.
THEOREM TypeCorrect == Spec => []TypeOK
<1>1. IInv => TypeOK
      BY DEF IInv
<1> QED
    BY <1>1, InitIInv, NextIInv, PTL DEF Spec

\* head, tail and size agree for every capacity, whatever is read and written
\* and wherever a copy fails.
THEOREM IndicesAgree == Spec => []RingInv
<1>1. IInv => RingInv
      BY DEF IInv
<1> QED
    BY <1>1, InitIInv, NextIInv, PTL DEF Spec

-----------------------------------------------------------------------------
(* What a reader gets *)

\* As many bytes are owed as the device counts.
FifoLength == fifo \in Seq(Bytes) /\ Len(fifo) = size

\* The invariant with the contents of the ring.
RingContent == IInv /\ FifoLength /\ FifoContent

\* The place of the i-th byte from the one that is k bytes after p.
LEMMA Position ==
    ASSUME NEW p \in Index, NEW k \in 0..BUFFER_SIZE, NEW i \in 1..BUFFER_SIZE,
           k + i <= BUFFER_SIZE
    PROVE  /\ (((p + k) % BUFFER_SIZE) + i - 1) % BUFFER_SIZE = Wrapped(p + k + i - 1)
           /\ Wrapped(p + k + i - 1) \in Index
<1> USE DeviceAssumption
<1> DEFINE q == (p + k) % BUFFER_SIZE
<1>1. p + k \in 0..(2 * BUFFER_SIZE - 1) /\ p + k + i - 1 \in 0..(2 * BUFFER_SIZE - 1)
      BY DEF Index
<1>2. q = Wrapped(p + k) /\ q \in Index
      BY <1>1, OneLap, Zenon
<1>3. q + i - 1 \in 0..(2 * BUFFER_SIZE - 1)
      BY <1>2 DEF Index
<1>4. (q + i - 1) % BUFFER_SIZE = Wrapped(q + i - 1)
      BY <1>3, OneLap, Zenon
<1>5. Wrapped(q + i - 1) = Wrapped(p + k + i - 1)
      BY <1>1, <1>2 DEF Wrapped, Index
<1>6. Wrapped(p + k + i - 1) \in Index
      BY <1>1 DEF Wrapped, Index
<1> QED
    BY <1>4, <1>5, <1>6

\* The same for the i-th byte from p itself.
LEMMA IndexPosition ==
    ASSUME NEW p \in Index, NEW i \in 1..BUFFER_SIZE
    PROVE  /\ (p + i - 1) % BUFFER_SIZE = Wrapped(p + i - 1)
           /\ Wrapped(p + i - 1) \in Index
<1>1. p + i - 1 \in 0..(2 * BUFFER_SIZE - 1)
      BY DeviceAssumption DEF Index
<1> QED
    BY <1>1, OneLap, DeviceAssumption DEF Wrapped, Index

\* The bytes a reader is owed, one by one.
LEMMA OwedBytes ==
    ASSUME RingContent, ~clobbered, NEW i \in 1..size
    PROVE  fifo[i] = buffer[Wrapped(tail + i - 1)]
<1>1. fifo = Slice(tail, size) /\ i \in 1..BUFFER_SIZE
      BY DeviceAssumption DEF RingContent, FifoContent, IInv, TypeOK
<1>2. Slice(tail, size)[i] = buffer[(tail + i - 1) % BUFFER_SIZE]
      BY DEF Slice
<1> QED
    BY <1>1, <1>2, IndexPosition DEF RingContent, IInv, TypeOK

\* The ring holds what is owed when it does so byte by byte.
LEMMA ByteByByte ==
    ASSUME TypeOK', FifoLength',
           \A i \in 1..size' : fifo'[i] = buffer'[(tail' + i - 1) % BUFFER_SIZE]
    PROVE  FifoContent'
<1>1. Slice(tail, size)' = [i \in 1..size' |-> buffer'[(tail' + i - 1) % BUFFER_SIZE]]
      BY DEF Slice
<1>2. fifo' = [i \in 1..size' |-> fifo'[i]]
      BY DEF FifoLength
<1> QED
    BY <1>1, <1>2 DEF FifoContent

\* A read hands out the oldest bytes and leaves the others.
LEMMA ReadContent ==
    ASSUME RingContent, NEW len \in 0..MaxLen, dev_read(len)
    PROVE  /\ FifoLength' /\ FifoContent'
           /\ ~clobbered => out' \o fifo' = fifo
<1> DEFINE n == Least(len, size)
<1> USE DeviceAssumption
<1>1. /\ tail' = (tail + n) % BUFFER_SIZE /\ size' = size - n
      /\ fifo' = SubSeq(fifo, n + 1, Len(fifo)) /\ out' = Slice(tail, n)
      /\ buffer' = buffer /\ clobbered' = clobbered
      BY DEF dev_read, Advance
<1>2. n \in 0..size
      BY DEF Least, RingContent, IInv, TypeOK
<1>3. TypeOK /\ TypeOK' /\ size \in 0..BUFFER_SIZE /\ tail \in Index
      BY ReadKeeps DEF RingContent, IInv, TypeOK
<1>4. fifo \in Seq(Bytes) /\ Len(fifo) = size
      BY DEF RingContent, FifoLength
<1> HIDE DEF n
<1>5. FifoLength'
      BY <1>1, <1>2, <1>3, <1>4 DEF FifoLength
<1>6. ASSUME ~clobbered PROVE FifoContent'
  <2>1. ASSUME NEW i \in 1..size'
        PROVE  fifo'[i] = buffer'[(tail' + i - 1) % BUFFER_SIZE]
    <3>1. fifo'[i] = fifo[n + i] /\ n + i \in 1..size
          BY <1>1, <1>2, <1>3, <1>4
    <3>2. fifo[n + i] = buffer[Wrapped(tail + (n + i) - 1)]
          BY <1>6, <3>1, OwedBytes
    <3>3. (tail' + i - 1) % BUFFER_SIZE = Wrapped(tail + n + i - 1)
      <4>1. n \in 0..BUFFER_SIZE /\ i \in 1..BUFFER_SIZE /\ n + i <= BUFFER_SIZE
            BY <1>1, <1>2, <1>3
      <4> QED
          BY <1>1, <1>3, <4>1, Position
    <3>4. tail + (n + i) - 1 = tail + n + i - 1
          BY <1>1, <1>2, <1>3 DEF Index
    <3> QED
        BY <1>1, <3>1, <3>2, <3>3, <3>4
  <2> QED
      BY <1>3, <1>5, <2>1, ByteByByte
<1>7. ASSUME ~clobbered PROVE out' \o fifo' = fifo
  <2>1. out' = [i \in 1..n |-> fifo[i]]
    <3>1. ASSUME NEW i \in 1..n PROVE buffer[(tail + i - 1) % BUFFER_SIZE] = fifo[i]
      <4>1. i \in 1..size /\ i \in 1..BUFFER_SIZE
            BY <1>2, <1>3
      <4> QED
          BY <1>3, <1>7, <4>1, OwedBytes, IndexPosition
    <3> QED
        BY <1>1, <3>1 DEF Slice
  <2>2. out' \in Seq(Bytes) /\ Len(out') = n
        BY <1>2, <1>3, <1>4, <2>1
  <2>3. fifo' \in Seq(Bytes) /\ Len(fifo') = size - n
        BY <1>1, <1>5 DEF FifoLength
  <2>4. out' \o fifo' \in Seq(Bytes) /\ Len(out' \o fifo') = size
        BY <1>2, <1>3, <2>2, <2>3
  <2>5. ASSUME NEW i \in 1..size PROVE (out' \o fifo')[i] = fifo[i]
        BY <1>1, <1>2, <1>3, <1>4, <2>1, <2>2, <2>3
  <2> QED
      BY <1>4, <2>4, <2>5
<1>8. FifoContent'
      BY <1>1, <1>6 DEF FifoContent
<1> QED
    BY <1>5, <1>7, <1>8

\* Where CopyIn puts the bytes: the j-th one at distance j - 1 from the head.
LEMMA CopiedByte ==
    ASSUME TypeOK, NEW data \in Seq(Bytes \cup {0}), NEW i \in Index
    PROVE  LET j == Wrapped(i + BUFFER_SIZE - head) + 1
           IN  /\ j \in 1..BUFFER_SIZE
               /\ j <= Len(data) => CopyIn(data)[i] = data[j]
               /\ j > Len(data) => CopyIn(data)[i] = buffer[i]
<1> DEFINE j == Wrapped(i + BUFFER_SIZE - head) + 1
<1> USE DeviceAssumption
<1>1. i + BUFFER_SIZE - head \in 0..(2 * BUFFER_SIZE - 1)
      BY DEF TypeOK, Index
<1>2. /\ (i + BUFFER_SIZE - head) % BUFFER_SIZE = Wrapped(i + BUFFER_SIZE - head)
      /\ Wrapped(i + BUFFER_SIZE - head) \in Index
      BY <1>1, OneLap, Zenon
<1>3. j \in 1..BUFFER_SIZE
      BY <1>2 DEF Index
<1>4. CopyIn(data)[i] = IF j <= Len(data) THEN data[j] ELSE buffer[i]
      BY <1>2 DEF CopyIn
<1> HIDE DEF j
<1>5. /\ j <= Len(data) => CopyIn(data)[i] = data[j]
      /\ j > Len(data) => CopyIn(data)[i] = buffer[i]
      BY <1>3, <1>4
<1> QED
    BY <1>3, <1>5 DEF j

\* The head is size bytes after the tail.
LEMMA HeadFromTail == ASSUME IInv PROVE head = Wrapped(tail + size)
<1>1. tail + size \in 0..(2 * BUFFER_SIZE - 1)
      BY DeviceAssumption DEF IInv, TypeOK, Index
<1> QED
    BY <1>1, OneLap, Zenon DEF IInv, RingInv

\* The elements of a concatenation past its first part.
LEMMA SecondPart ==
    ASSUME NEW S, NEW a \in Seq(S), NEW b \in Seq(S),
           NEW x \in (Len(a) + 1)..(Len(a) + Len(b))
    PROVE  (a \o b)[x] = b[x - Len(a)]
OBVIOUS

\* A write appends to what is owed; an overflow drops as many of the oldest
\* bytes as it overwrites.
LEMMA WriteContent ==
    ASSUME RingContent, NEW data \in Data, dev_write(data)
    PROVE  FifoLength' /\ FifoContent'
<1> DEFINE n == Least(Len(data), BUFFER_SIZE)
           cut == SubSeq(data, 1, n)
           s == fifo \o cut
           drop == Len(s) - Least(Len(s), BUFFER_SIZE)
<1> USE DeviceAssumption
<1>1. data \in Seq(Bytes) /\ n \in 0..BUFFER_SIZE /\ n <= Len(data)
      BY DataIsSequence DEF Least
<1>2. cut \in Seq(Bytes) /\ Len(cut) = n
      BY <1>1
<1>3. /\ IInv /\ TypeOK /\ TypeOK' /\ size \in 0..BUFFER_SIZE
      /\ tail \in Index /\ head \in Index /\ tail' \in Index
      BY WriteKeeps DEF RingContent, IInv, TypeOK
<1>4. fifo \in Seq(Bytes) /\ Len(fifo) = size
      BY DEF RingContent, FifoLength
<1>5. /\ buffer' = CopyIn(cut) /\ clobbered' = clobbered
      /\ head' = (head + n) % BUFFER_SIZE
      /\ size' = Least(size + n, BUFFER_SIZE)
      /\ tail' = IF size + n > BUFFER_SIZE THEN (head + n) % BUFFER_SIZE ELSE tail
      /\ fifo' = Newest(fifo \o cut)
      BY DEF dev_write, Overflow
<1> HIDE DEF n, cut
<1>6. s \in Seq(Bytes) /\ Len(s) = size + n
      BY <1>1, <1>2, <1>3, <1>4
<1>7. fifo' = SubSeq(s, drop + 1, Len(s))
  <2>1. Newest(s) = SubSeq(s, drop + 1, Len(s))
        BY Zenon DEF Newest
  <2> QED
      BY <1>5, <2>1, Zenon
<1> DEFINE m == Least(size + n, BUFFER_SIZE)
<1> HIDE DEF s
<1>8. drop \in 0..size /\ m = size + n - drop /\ m \in 0..BUFFER_SIZE
      BY <1>1, <1>3, <1>6 DEF Least
<1> HIDE DEF drop
<1>9. /\ fifo' \in Seq(Bytes) /\ Len(fifo') = m
      /\ \A i \in 1..m : fifo'[i] = s[drop + i]
  <2> HIDE DEF m
  <2>1. drop + 1 \in 1..(Len(s) + 1) /\ m = Len(s) - drop
        BY <1>1, <1>3, <1>6, <1>8
  <2> QED
      BY <1>3, <1>6, <1>7, <1>8, <2>1, SMTT(30)
<1>10. FifoLength'
      BY <1>5, <1>9 DEF FifoLength
<1>11. head = Wrapped(tail + size)
      BY <1>3, HeadFromTail
<1>12. tail' = Wrapped(tail + drop)
  <2>1. head + n \in 0..(2 * BUFFER_SIZE - 1)
        BY <1>1, <1>3 DEF Index
  <2>2. (head + n) % BUFFER_SIZE = Wrapped(head + n)
        BY <2>1, OneLap, Zenon
  <2> QED
      BY <1>1, <1>3, <1>5, <1>8, <1>11, <2>2 DEF Least, Wrapped, Index
<1>13. ASSUME ~clobbered, NEW i \in 1..m
       PROVE  fifo'[i] = buffer'[(tail' + i - 1) % BUFFER_SIZE]
  <2> DEFINE pos == Wrapped(tail' + i - 1)
             j == Wrapped(pos + BUFFER_SIZE - head) + 1
  <2>1. (tail' + i - 1) % BUFFER_SIZE = pos /\ pos \in Index
    <3>1. i \in 1..BUFFER_SIZE
          BY <1>8
    <3> QED
        BY <1>3, <3>1, IndexPosition, Zenon
  <2>2. cut \in Seq(Bytes \cup {0})
        BY <1>2
  <2>3. /\ j <= n => buffer'[pos] = cut[j]
        /\ j > n => buffer'[pos] = buffer[pos]
        BY <1>2, <1>3, <1>5, <2>1, <2>2, CopiedByte
  <2>4. CASE drop + i <= size
    <3>1. fifo'[i] = fifo[drop + i] /\ drop + i \in 1..size
          BY <1>2, <1>3, <1>4, <1>8, <1>9, <2>4 DEF s
    <3>2. fifo[drop + i] = buffer[Wrapped(tail + (drop + i) - 1)]
          BY <1>13, <3>1, OwedBytes
    <3>3. pos = Wrapped(tail + (drop + i) - 1) /\ j > n
          BY <1>1, <1>3, <1>8, <1>11, <1>12, <2>4 DEF Least, Wrapped, Index
    <3> QED
        BY <2>1, <2>3, <3>1, <3>2, <3>3
  <2>5. CASE drop + i > size
    <3>1. drop + i - size \in 1..n /\ drop + i \in (size + 1)..(size + n)
          BY <1>1, <1>3, <1>8, <2>5
    <3>2. s[drop + i] = cut[drop + i - size]
      <4>1. drop + i \in (Len(fifo) + 1)..(Len(fifo) + Len(cut))
            BY <1>2, <1>4, <3>1
      <4>2. (fifo \o cut)[drop + i] = cut[(drop + i) - Len(fifo)]
            BY <1>2, <1>4, <4>1, SecondPart, Zenon
      <4>3. (drop + i) - Len(fifo) = drop + i - size
            BY <1>3, <1>4, <1>8
      <4> QED
          BY <4>2, <4>3, Zenon DEF s
    <3>3. j = drop + i - size
          BY <1>1, <1>3, <1>8, <1>11, <1>12, <2>5, <3>1 DEF Least, Wrapped, Index
    <3>4. j <= n
          BY <1>1, <3>1, <3>3
    <3> QED
        BY <1>9, <2>1, <2>3, <3>2, <3>3, <3>4
  <2> QED
      BY <1>3, <1>8, <2>4, <2>5
<1>14. FifoContent'
      BY <1>3, <1>5, <1>10, <1>13, ByteByByte DEF FifoContent
<1> QED
    BY <1>10, <1>14

\* A write that fails before it reaches unread bytes leaves them alone.
LEMMA FailedWriteContent ==
    ASSUME RingContent, NEW data \in Data, dev_write_faults(data)
    PROVE  FifoLength' /\ FifoContent'
<1> DEFINE n == Least(Len(data), BUFFER_SIZE)
           first == Least(n, BUFFER_SIZE - head)
           part(k) == IF k < first THEN first ELSE n
           bytes(k) == [j \in 1..part(k) |-> IF j <= k THEN data[j] ELSE 0]
<1> USE DeviceAssumption
<1>1. PICK k \in 0..(n - 1) :
        /\ buffer' = CopyIn(bytes(k))
        /\ clobbered' = (clobbered \/ part(k) > BUFFER_SIZE - size)
      BY DEF dev_write_faults
<1>2. /\ IInv /\ TypeOK /\ TypeOK' /\ size \in 0..BUFFER_SIZE
      /\ tail \in Index /\ head \in Index
      BY FailedWriteKeeps DEF RingContent, IInv, TypeOK
<1>3. data \in Seq(Bytes) /\ n \in 0..BUFFER_SIZE /\ n <= Len(data)
      BY DataIsSequence DEF Least
<1>4. part(k) \in 0..BUFFER_SIZE
      BY <1>2, <1>3 DEF Least, Index
<1>5. bytes(k) \in Seq(Bytes \cup {0}) /\ Len(bytes(k)) = part(k)
      BY <1>3, <1>4
<1>6. UNCHANGED <<head, tail, size, fifo>>
      BY DEF dev_write_faults
<1>7. FifoLength'
      BY <1>6 DEF RingContent, FifoLength
<1> HIDE DEF n, part, bytes
<1>8. ASSUME ~clobbered, part(k) <= BUFFER_SIZE - size, NEW i \in 1..size
      PROVE  fifo'[i] = buffer'[(tail' + i - 1) % BUFFER_SIZE]
  <2> DEFINE pos == Wrapped(tail + i - 1)
             j == Wrapped(pos + BUFFER_SIZE - head) + 1
  <2>1. (tail' + i - 1) % BUFFER_SIZE = pos /\ pos \in Index
        BY <1>2, <1>6, IndexPosition
  <2>2. head = Wrapped(tail + size)
        BY <1>2, HeadFromTail
  <2>3. j > part(k)
        BY <1>2, <1>4, <1>8, <2>2 DEF Wrapped, Index
  <2>4. buffer'[pos] = buffer[pos]
        BY <1>1, <1>2, <1>5, <2>1, <2>3, CopiedByte
  <2> QED
      BY <1>6, <1>8, <2>1, <2>4, OwedBytes
<1>9. CASE clobbered \/ part(k) > BUFFER_SIZE - size
      BY <1>1, <1>7, <1>9 DEF FifoContent
<1>10. CASE ~clobbered /\ part(k) <= BUFFER_SIZE - size
      BY <1>2, <1>6, <1>7, <1>8, <1>10, ByteByByte
<1> QED
    BY <1>2, <1>4, <1>7, <1>9, <1>10

\* A fresh or emptied ring owes nothing.
LEMMA EmptiedContent ==
    ASSUME fifo' = <<>>, size' = 0, TypeOK' PROVE FifoLength' /\ FifoContent'
<1>1. FifoLength'
      BY DEF FifoLength
<1> QED
    BY <1>1, ByteByByte

\* The unloaded module owes nothing.
LEMMA InitContent == Init => RingContent
<1> SUFFICES ASSUME Init PROVE FifoLength /\ FifoContent
    BY InitIInv DEF RingContent
<1>1. fifo = <<>> /\ size = 0
      BY DEF Init
<1>2. Slice(tail, 0) = <<>>
      BY DEF Slice
<1> QED
    BY <1>1, <1>2 DEF FifoLength, FifoContent

\* Every operation keeps the ring equal to what is owed.
LEMMA NextContent == RingContent /\ [Next]_vars => RingContent'
<1> SUFFICES ASSUME RingContent, [Next]_vars PROVE FifoLength' /\ FifoContent'
    BY NextIInv DEF RingContent
<1>1. TypeOK'
      BY NextIInv DEF RingContent, IInv
<1>2. CASE adv_init \/ Reset
      BY <1>1, <1>2, EmptiedContent DEF adv_init, Reset, Emptied
<1>3. ASSUME UNCHANGED ring PROVE FifoLength' /\ FifoContent'
  <2>1. Slice(tail, size)' = Slice(tail, size)
        BY <1>3 DEF ring, Slice
  <2> QED
      BY <1>3, <2>1 DEF ring, RingContent, FifoLength, FifoContent
<1>4. CASE adv_init_fails \/ adv_exit \/ device_set_llseek_rejects \/ UNCHANGED vars
      BY <1>3, <1>4 DEF adv_init_fails, adv_exit, device_set_llseek_rejects, vars, ring
<1>5. ASSUME NEW len \in 0..MaxLen, dev_read_wrapped(len) \/ dev_read_faults(len)
      PROVE  FifoLength' /\ FifoContent'
      BY <1>3, <1>5 DEF dev_read_wrapped, dev_read_faults, ring
<1> QED
    BY <1>2, <1>4, <1>5, ReadContent, WriteContent, FailedWriteContent
       DEF Next, Read, Write

\* What is unread is what a reader is owed, for every capacity, request and
\* fault, until a write that faults has overwritten unread bytes.
THEOREM RingHoldsWhatIsOwed == Spec => []FifoContent
<1>1. RingContent => FifoContent
      BY DEF RingContent
<1> QED
    BY <1>1, InitContent, NextContent, PTL DEF Spec

\* A step that hands bytes to a reader hands out the oldest ones.
LEMMA StepReadsOldest ==
    RingContent /\ [Next]_vars =>
        [~clobbered /\ out' # <<>> => out' \o fifo' = fifo]_vars
<1> SUFFICES ASSUME RingContent, Next, ~clobbered, out' # <<>>
             PROVE  out' \o fifo' = fifo
    OBVIOUS
<1>1. PICK len \in 0..MaxLen : dev_read(len)
      BY DEF Next, adv_init, adv_init_fails, adv_exit, Read, dev_read_wrapped,
         dev_read_faults, Write, dev_write, dev_write_faults, Reset,
         device_set_llseek_rejects
<1> QED
    BY <1>1, ReadContent

\* A read that succeeds, which in dev_read is one that does not cross the end of
\* the ring, returns the oldest unread bytes and consumes exactly those.
THEOREM ReadsInOrder == Spec => ReadsOldest
BY InitContent, NextContent, StepReadsOldest, PTL DEF Spec, ReadsOldest

\* Whichever step of adv_init fails, its error path gives everything back.
THEOREM FailedInitReleasesAll == Spec => []InitLeaksNothing
<1>1. Init => InitLeaksNothing
      BY DEF Init, InitLeaksNothing
<1>2. InitLeaksNothing /\ [Next]_vars => InitLeaksNothing'
  <2> SUFFICES ASSUME InitLeaksNothing, [Next]_vars PROVE InitLeaksNothing'
      OBVIOUS
  <2>1. ASSUME NEW step \in Resources \ {"buffer"} PROVE Acquired(step) \ Undone(step) = {}
    <3>1. CASE step = "region"
          BY <3>1 DEF Acquired, Undone
    <3>2. CASE step = "class"
          BY <3>2 DEF Acquired, Undone
    <3>3. CASE step = "dev"
          BY <3>3 DEF Acquired, Undone
    <3>4. CASE step = "cdev"
          BY <3>4 DEF Acquired, Undone
    <3>5. CASE step = "node"
          BY <3>5 DEF Acquired, Undone
    <3> QED
        BY <3>1, <3>2, <3>3, <3>4, <3>5 DEF Resources
  <2>2. CASE adv_init_fails
        BY <2>1, <2>2 DEF adv_init_fails, InitLeaksNothing
  <2>3. CASE UNCHANGED vars
        BY <2>3 DEF vars, InitLeaksNothing
  <2>4. CASE adv_init \/ adv_exit \/ Read \/ Write \/ Reset \/ device_set_llseek_rejects
    <3>1. err' # "ENODEV"
          BY <2>4 DEF adv_init, adv_exit, Read, dev_read, dev_read_wrapped,
             dev_read_faults, Write, dev_write, dev_write_faults, Reset,
             device_set_llseek_rejects
    <3> QED
        BY <3>1 DEF InitLeaksNothing
  <2> QED
      BY <2>2, <2>3, <2>4 DEF Next
<1> QED
    BY <1>1, <1>2, PTL DEF Spec

=============================================================================
