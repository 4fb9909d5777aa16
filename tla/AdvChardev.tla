----------------------------- MODULE AdvChardev -----------------------------
(***************************************************************************)
(* The ring-buffer character device adv_chardev.c: module load and unload,  *)
(* read, write, ioctl and llseek.  buf_mutex makes each file operation one  *)
(* action.  A copy to or from user space may fault at any byte; size_t      *)
(* arithmetic wraps.                                                        *)
(***************************************************************************)
EXTENDS Integers, Sequences, FiniteSets

CONSTANTS
    BUFFER_SIZE,    \* capacity of the ring
    Bytes,          \* the byte values user programs write
    MaxLen          \* the longest request; above BUFFER_SIZE so that it is cut

ASSUME DeviceAssumption ==
    /\ BUFFER_SIZE \in Nat \ {0}
    /\ MaxLen \in Nat
    /\ Bytes \subseteq Nat \ {0}

VARIABLES
    held,       \* kernel resources the module holds
    buffer,     \* advanced_dev.buffer
    head,       \* advanced_dev.head: where the next byte is written
    tail,       \* advanced_dev.tail: where the next byte is read
    size,       \* advanced_dev.size: unread bytes
    fifo,       \* history: the bytes a reader is owed, oldest first
    clobbered,  \* history: a failed write has overwritten unread bytes
    out,        \* the bytes the last read handed to its caller
    err         \* the error of the last operation, or "ok" ("fault" marks an
                \* EFAULT caused by the caller's memory)

vars == <<held, buffer, head, tail, size, fifo, clobbered, out, err>>

Index == 0..(BUFFER_SIZE - 1)
Zeroed == [i \in Index |-> 0]
Resources == {"region", "class", "dev", "buffer", "cdev", "node"}
Loaded == held = Resources

TypeOK ==
    /\ held \subseteq Resources
    /\ buffer \in [Index -> Bytes \cup {0}]
    /\ head \in Index
    /\ tail \in Index
    /\ size \in 0..BUFFER_SIZE
    /\ clobbered \in BOOLEAN
    /\ err \in {"ok", "fault", "EFAULT", "ESPIPE", "ENODEV"}

\* The module is not loaded.
Init ==
    /\ held = {}
    /\ buffer = Zeroed
    /\ head = 0
    /\ tail = 0
    /\ size = 0
    /\ fifo = <<>>
    /\ clobbered = FALSE
    /\ out = <<>>
    /\ err = "ok"

\* Both ways to empty the ring, and a fresh allocation.
Emptied ==
    /\ buffer' = Zeroed
    /\ head' = 0
    /\ tail' = 0
    /\ size' = 0
    /\ fifo' = <<>>
    /\ clobbered' = FALSE

ring == <<buffer, head, tail, size, fifo, clobbered>>

-----------------------------------------------------------------------------
(* adv_init and adv_exit *)

\* What adv_init has acquired when the given step fails, and what the error
\* path of that step gives back.  The allocation of the buffer is not checked
\* and is taken to succeed.
Acquired(step) ==
    CASE step = "region" -> {}
      [] step = "class"  -> {"region"}
      [] step = "dev"    -> {"region", "class"}
      [] step = "cdev"   -> {"region", "class", "dev", "buffer"}
      [] step = "node"   -> {"region", "class", "dev", "buffer", "cdev"}

\* Mutant of Undone: the last error path forgets cdev_del.
Undone_NoCdevDel(step) ==
    CASE step = "region" -> {}
      [] step = "class"  -> {"region"}
      [] step = "dev"    -> {"class", "region"}
      [] step = "cdev"   -> {"buffer", "dev", "class", "region"}
      [] step = "node"   -> {"buffer", "dev", "class", "region"}

\* The calls on each error path.
Undone(step) ==
    CASE step = "region" -> {}
      [] step = "class"  -> {"region"}
      [] step = "dev"    -> {"class", "region"}
      [] step = "cdev"   -> {"buffer", "dev", "class", "region"}
      [] step = "node"   -> {"cdev", "buffer", "dev", "class", "region"}

adv_init_fails ==
    /\ held = {}
    /\ \E step \in Resources \ {"buffer"} : held' = Acquired(step) \ Undone(step)
    /\ err' = "ENODEV"
    /\ out' = <<>>
    /\ UNCHANGED ring

adv_init ==
    /\ held = {}
    /\ held' = Resources
    /\ Emptied
    /\ err' = "ok"
    /\ out' = <<>>

adv_exit ==
    /\ Loaded
    /\ held' = {}
    /\ err' = "ok"
    /\ out' = <<>>
    /\ UNCHANGED ring

-----------------------------------------------------------------------------
(* dev_read *)

Least(a, b) == IF a < b THEN a ELSE b

\* The n bytes of the ring from position p on.
Slice(p, n) == [i \in 1..n |-> buffer[(p + i - 1) % BUFFER_SIZE]]

Wraps(p, n) == p + n > BUFFER_SIZE

\* Mutant of Advance: a short read forgets the rest.
Advance_All(n) ==
    /\ tail' = (tail + n) % BUFFER_SIZE
    /\ size' = 0
    /\ fifo' = SubSeq(fifo, n + 1, Len(fifo))

\* The n oldest bytes are consumed.
Advance(n) ==
    /\ tail' = (tail + n) % BUFFER_SIZE
    /\ size' = size - n
    /\ fifo' = SubSeq(fifo, n + 1, Len(fifo))

\* Mutant of dev_read: the copy starts at the head.
dev_read_FromHead(len) ==
    LET n == Least(len, size)
    IN  /\ Loaded
        /\ ~Wraps(tail, n)
        /\ out' = Slice(head, n)
        /\ Advance(n)
        /\ err' = "ok"
        /\ UNCHANGED <<held, buffer, head, clobbered>>

\* Without wrap-around: one copy_to_user.  An empty ring reads as end of file.
dev_read(len) ==
    LET n == Least(len, size)
    IN  /\ Loaded
        /\ ~Wraps(tail, n)
        /\ out' = Slice(tail, n)
        /\ Advance(n)
        /\ err' = "ok"
        /\ UNCHANGED <<held, buffer, head, clobbered>>

\* With wrap-around: second_part is -first_part, a size_t close to 2^64, and
\* the second copy_to_user refuses it.  Nothing is consumed.
dev_read_wrapped(len) ==
    LET n == Least(len, size)
    IN  /\ Loaded
        /\ Wraps(tail, n)
        /\ out' = <<>>
        /\ err' = "EFAULT"
        /\ UNCHANGED <<held, ring>>

\* The caller's memory cannot be written: nothing is consumed.
dev_read_faults(len) ==
    /\ Loaded
    /\ Least(len, size) > 0
    /\ out' = <<>>
    /\ err' = "fault"
    /\ UNCHANGED <<held, ring>>

-----------------------------------------------------------------------------
(* dev_write *)

\* The ring after data has been copied in at the head, the part that does not
\* fit before the end continuing at index 0.
CopyIn(data) ==
    [i \in Index |->
        LET j == ((i + BUFFER_SIZE - head) % BUFFER_SIZE) + 1
        IN  IF j <= Len(data) THEN data[j] ELSE buffer[i]]

\* Mutant of Overflow: the tail stays where it was.
Overflow_TailStays(n) ==
    /\ size' = Least(size + n, BUFFER_SIZE)
    /\ tail' = tail

\* An overflow drops the oldest bytes.
Overflow(n) ==
    /\ size' = Least(size + n, BUFFER_SIZE)
    /\ tail' = IF size + n > BUFFER_SIZE THEN (head + n) % BUFFER_SIZE ELSE tail

\* The newest BUFFER_SIZE elements of a sequence.
Newest(s) ==
    LET drop == Len(s) - Least(Len(s), BUFFER_SIZE)
    IN  SubSeq(s, drop + 1, Len(s))

\* The whole copy succeeds; a request is cut to BUFFER_SIZE bytes.
dev_write(data) ==
    LET n   == Least(Len(data), BUFFER_SIZE)
        cut == SubSeq(data, 1, n)
    IN  /\ Loaded
        /\ buffer' = CopyIn(cut)
        /\ head' = (head + n) % BUFFER_SIZE
        /\ Overflow(n)
        /\ fifo' = Newest(fifo \o cut)
        /\ err' = "ok"
        /\ out' = <<>>
        /\ UNCHANGED <<held, clobbered>>

\* copy_from_user faults after k bytes and zeroes the rest of the part it was
\* copying; the indices stay.
dev_write_faults(data) ==
    LET n     == Least(Len(data), BUFFER_SIZE)
        first == Least(n, BUFFER_SIZE - head)
    IN  /\ Loaded
        /\ n > 0
        /\ \E k \in 0..(n - 1) :
            LET end == IF k < first THEN first ELSE n
            IN  /\ buffer' = CopyIn([j \in 1..end |-> IF j <= k THEN data[j] ELSE 0])
                /\ clobbered' = (clobbered \/ end > BUFFER_SIZE - size)
        /\ err' = "fault"
        /\ out' = <<>>
        /\ UNCHANGED <<held, head, tail, size, fifo>>

-----------------------------------------------------------------------------
(* dev_ioctl and device_set_llseek *)

\* IOCTL_RESET_BUFFER, and llseek to the beginning.
Reset ==
    /\ Loaded
    /\ Emptied
    /\ err' = "ok"
    /\ out' = <<>>
    /\ UNCHANGED held

\* llseek to anywhere else.
device_set_llseek_rejects ==
    /\ Loaded
    /\ err' = "ESPIPE"
    /\ out' = <<>>
    /\ UNCHANGED <<held, ring>>

-----------------------------------------------------------------------------
Data == UNION {[1..n -> Bytes] : n \in 0..MaxLen}

Read == \E len \in 0..MaxLen : dev_read(len) \/ dev_read_wrapped(len) \/ dev_read_faults(len)

Write == \E data \in Data : dev_write(data) \/ dev_write_faults(data)

Next ==
    \/ adv_init
    \/ adv_init_fails
    \/ adv_exit
    \/ Read
    \/ Write
    \/ Reset
    \/ device_set_llseek_rejects

Spec == Init /\ [][Next]_vars

-----------------------------------------------------------------------------
(* Properties *)

\* The three fields of advanced_dev agree, through wrap-around, overflow,
\* failed copies and resets.
RingInv == head = (tail + size) % BUFFER_SIZE

\* The unread part of the ring is what a reader is owed: the newest
\* BUFFER_SIZE bytes that were written and not read, oldest first, unless a
\* write that failed half-way has overwritten some of them.
FifoContent == ~clobbered => Slice(tail, size) = fifo

\* A read that succeeds returns the oldest bytes and consumes exactly those.
ReadsOldest ==
    [][~clobbered /\ out' # <<>> => out' \o fifo' = fifo]_vars

\* An adv_init that fails gives everything back.
InitLeaksNothing == err = "ENODEV" => held = {}

\* "Handle ring buffer wrap-around scenario": a read fails with EFAULT only
\* because of its caller's memory.
WrappedReadServed == err # "EFAULT"

=============================================================================
