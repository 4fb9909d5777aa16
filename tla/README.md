# Verification of knowledge-acquisition

TLA+ models, TLC runs and TLAPS proofs for the concurrent and stateful parts of
this repository. Paths are relative to the repository root (`src/` in
`PROJECT.json`, which also maps every definition to the lines it models).

Run a model with `tlc -config X.cfg M`, check proofs with `tlapm MProofs.tla`.

## 1. Inventory

### RoCommLink (`document/laboratory/cpp/RoCommLink`)

A UDP link between stations: packets are routed, commands are acknowledged and
sent again until they are.

| Part | State | Operations | Interacts with |
|------|-------|-----------|----------------|
| `TaskQueue` | heap of timed tasks, `_is_shutdown`, worker threads, one mutex and condition variable | `push`, `push_delayed`, `shutdown`, `worker_loop` | receive threads push; `RoCommLink::stop` shuts down |
| `CommandTracker` | map sequence number -> transaction (promise, last_sent, retries) | `track`, `resolve`, `check_timeouts` | user threads, workers and the timeout thread, under one mutex |
| `RoCommLink` | transports, routing table, parsers, timeout thread | `start`, `stop`, `send_packet`, `send_command_blocking`, `process_raw_bytes`, `determine_routing_target` | everything above and below |
| `RoCommLinkDispatcher` | callbacks per message id, a shared mutex | `subscribe`, `dispatch` | called by workers |
| `RoCommLinkParser`, `PacketSerializer` | state, header and payload buffers, checksum | `parse_byte`, `serialize` | one parser per connection, used by workers without a lock |
| `UdpTransport` | socket, receive thread, `_is_running` | `connect`, `disconnect`, `send`, `receive_loop` | pushes datagrams to the pool |

Hard: lock boundaries around the condition variable, notifications sent after
the unlock, deadlines, shutdown racing pushes; lost, duplicated and reordered
datagrams against retries, the caller's own 3 s wait, and `stop()` at any
moment; a byte-wise parser that several workers may enter. Correct means: no
task lost or run twice, shutdown drains and returns, a command reported as
accepted was run, every promise is set by exactly one party, every call
returns; every intact frame is handled once and as it was sent.

### Linux IPC library (`linux/common`)

| Part | State | Operations |
|------|-------|-----------|
| `StaticFileDescriptionRegistry` | fixed open-addressing table of atomic (fd, count) pairs, a mutex per slot | `retain`, `release`, `get_count`, `get_mutex` |
| `UniqueFileDescriptor`, `SharedFileDescriptor`, `SharedFdSwitchGuard` | the fd a handle owns | construct, copy, move, reset, release, lock, switch |
| `IPCSender`, `IPCReceiver`, `PacketDispatcher` | checksum cache | `send`, `receive`, `dispatch` |
| `PipeServer`, `ClientSession` | sessions by client id, heartbeats, `_server_running` | `accept_client` (a thread of its own), `dispatch_events`, `execute_housekeeping_phase` |
| `PipeClient` | sequence number, current pipe, monitor thread | `request_and_switch_pipe`, destructor, `push_data`, `push_heartbeat`, `check_feedback` |

Hard: reference counting without a lock; blocking `open()` on FIFOs that both
sides open one after the other; one FIFO pair shared by all clients; a client
that dies half-way; a session used by one thread and erased by another; two
threads that receive through one member. Correct means: a descriptor is open as
long as a handle holds it and closed after the last; a request ends and its
answer reaches the client that asked; a packet is read from, and answered to,
the client it is taken for.

### Kernel modules and laboratories

`adv_chardev.c` is a ring buffer behind `read`, `write`, `ioctl` and `llseek`:
indices modulo the capacity, overflow that drops the oldest bytes, user copies
that fault, and an initialisation that must undo itself.

| Part | State | Operations | Correct means |
|------|-------|-----------|---------------|
| Order book (`Solution/HFT`) | node pool with a free list, doubly linked price levels, map of ids | `limit_order`, `cancel_order` | price-time priority; no node leaked or used after it was recycled |
| LRU cache (`FriendlyCache`) | recency list and hash map over two fixed pools | `get`, `put` | the least recently used key goes; a pool never runs out half-way |
| Robot arm (`Robot2DOF`) | `flag_impl`, `thread_done`, a thread per G-code program | key presses, frames, `ExecuteGCodeStep` | one program per request; threads joined before they are replaced |
| QOI (`Solution/Compress`) | colour tables, run length, previous pixel on both sides | compress, decompress | lossless |
| Huffman (`Solution/Compress`) | temporary nodes, flat tree, bit stream | construct, `find_path`, decompress | lossless, and no prefix code is shorter |

The sysfs module and the `english_apps` review queue are sequential programs
with little state. The rest is floating-point mathematics, games, trials of
third-party libraries, vendored code, scripts and notes.

## 2. Modules

| Module | Models | Run modules | Proofs |
|--------|--------|-------------|--------|
| `TaskQueue` | the worker pool | `MCTaskQueue` | `TaskQueueProofs` |
| `CommandService` | abstract: what `send_command_blocking` promises | (through `Implements`) | |
| `CommandLink` | `send_command_blocking`, `CommandTracker`, timeout thread, network, peer, `stop` | `MCCommandLink` | `CommandLinkProofs` |
| `AdvChardev` | the character device | `MCAdvChardev` | `AdvChardevProofs` |
| `SfdRegistry` | `SharedFileDescriptor` and the registry | `MCSfdRegistry` | `SfdRegistryProofs` |
| `PipeHandshake` | acceptor thread and clients on the request FIFOs | `MCPipeHandshake` | `PipeHandshakeProofs` |
| `ReceivePath` | read callback, `process_raw_bytes`, parser, serializer, routing, forwarding | `MCReceivePath` | `ReceivePathProofs` |
| `PipeSessions` | acceptor and polling thread on registry, descriptors and `_shared_fd` | `MCComponents` | `ThreadsProofs` |
| `PriceTimeBook` | abstract: price-time priority | (through `BookPriceTimePriority`) | |
| `OrderBook` | pool, levels, map and matching loops | `MCComponents` | |
| `LeastRecentlyUsed` | abstract: what a cache keeps | (through `CacheKeepsMostRecent`) | |
| `LRUCache` | recency list, hash map and their two pools | `MCComponents` | `AlgorithmProofs` |
| `QoiCodec` | compressor and decoder in step | `MCComponents` | `AlgorithmProofs` |
| `Huffman` | tree, flattening, packing, decoding | `MCComponents` | |
| `RobotControl` | window thread and program thread | `MCComponents` | `ThreadsProofs` |

`MCComponents` puts six components that share no state into one state space: a
variable `subject` chooses, in the initial state, the only one that moves. It
extends `PipeSessions`, `RobotControl`, `LRUCache` and `QoiCodec`, so that the run
checks the very definitions their theorems state, and instantiates the other two.

Each module also holds the mutants that show its properties can fail: an
operator `X_Something` defined before `X`, a plausible mistake in `X`.

**TaskQueue.** One action per locked section of `worker_loop`, `push`,
`push_delayed` and `shutdown`, and one per notification, because the code
notifies after it has unlocked. `wpc` is where a worker is (`look` at the heap,
`sleep` until `wakeAt`, `run` a callback, `exited`); `Wait` is the wait without
a deadline and `WaitUntil` the timed one; `Tops` is what the priority queue may
have on top, so ties are broken either way. `Spurious` is the condition
variable's. `accepted`, `refused` and `finished` are histories.

**CommandLink.** What the tracker does under its mutex is one action. `Track`
is the insertion, and the failure of a call whose number is in use; `Send`,
`SendFails`, `Return` and `GiveUp` are the rest of `send_command_blocking`. Time
is counted in the 50 ms sleeps of the timeout thread, which makes one pass
(`CheckTimeouts`) between two of them. `net` only grows: a datagram is delivered
never, once or often, in any order. `Disconnect` and `PoolDown` are the two
parts of `stop()` that other threads can observe. The peer runs the handlers
before it sends the ACK, as `process_raw_bytes` does; it keeps no record of what
it ran. Packets are abstracted to the call or the sequence number they carry.

**AdvChardev.** System calls and module load and unload, in any order, each one
atomic because the device holds its mutex throughout. A read or write may fault
at any byte (`dev_read_faults`, `dev_write_faults`); `dev_read_wrapped` is the
branch for a read that crosses the end of the ring. `fifo` is the reference:
the unread bytes in the order they were written. `clobbered` records a write
that faulted after it had overwritten unread bytes, which the code allows.

**SfdRegistry.** A thread per handle and an action per atomic operation:
`Scan`, `Add`, `Claim` and `Store` are `retain`; `Find`, `Sub` and `FreeSlot`
are `release`; `Close` is the close that follows a count of zero. `Lock`,
`Acquire` and `Unlock` are a session. A handle that is being copied is not
destroyed meanwhile, and two threads do not use one handle, as C++ requires.
The constructor takes any number, one that another handle holds too (the case of
two claims of one number, line 82 of `sfd_static_registry.h`); `reused` counts
those, up to `MaxReuse`, and `MadeOnce` says that there has been none.

**PipeHandshake.** One action per blocking call of `accept_client` and of
`request_and_switch_pipe`, in the mode with feedback. `open()` of a FIFO blocks
until somebody has opened the other end; once it has met its counterpart
(`met`), it returns even if the counterpart has gone again. Who holds an end of
the request FIFOs follows from where each process is; a FIFO that nobody holds
loses its contents; a write without a reader kills the writer (`SIGPIPE` is
handled nowhere). A request begins whenever its client likes: nothing in
`pipe_client.cpp` waits for the acceptor to be back from the last one, and the
tests only sleep 20 ms. `Quiet` is the state in which no request is under way in
a client or in the acceptor; `overlaps` counts the requests that began in another,
and `Alone` says that there has been none. `Leave` is the return after REMOVED or
REJECTED, apart from the answer, so that a request may begin in between. `owner`,
`lapsed` and `overlaps` are histories. The polling thread appears only as `Expire`;
`PipeSessions` has the rest of it.

**ReceivePath.** A worker takes a datagram from the pool, looks its parser up
under the shared lock (`Lookup`), creates it under the exclusive one (`Create`),
and then parses one byte per step without a lock (`Parse`). One step per byte is
exact while no two workers are in one parser, which `PayloadIndexInBounds` states
too; when two are, their calls can interleave within a byte as well, so the run
without `Paced` shows some of what goes wrong and not all of it. `parse_byte` is a
function from parser to parser, one operator per state of the code's switch, and
`Status` is the result of the same call. Bytes are bytes here, and fields
are assembled and taken apart as the code does it, because the properties are
about what comes out at the other end; the checksum is the code's 16-bit sum.
`effects` is what was done with a connection's bytes: dispatched, resolved or
sent. The early filter is the gateway's, from
`tests/functional/test4_routing.h`, the only one the repository registers.
`Expected` is the reference: what each packet deserves, without bytes.

**PipeSessions.** The two threads of `PipeServer`. A descriptor number is free
again when no session and no proxy holds it (`Closed`), and `open()` hands out
the lowest free one, so that numbers are re-used as early as possible. `Switch`
and `Restore` are `SharedFdSwitchGuard` around `receive_packet`. When a client
sends, what it asks for, and when a heartbeat is overdue are left open, so the
clock is not needed.

**OrderBook.** Nodes are indices into the pool, 0 is `nullptr`. `PickLevel`,
`Match` and `LeaveLevel` are rounds of the two loops, `Book` is the second
phase; the branches for `BUY` and `SELL` are the same with the side exchanged
and are one definition. The abstract `PriceTimeBook` has a sequence of orders
per side and price; the mapping walks the linked list (`Chain`).

**LRUCache.** A pool is the sequence of its free blocks in the order in which
they will be handed out. `Emplace` is the part of `put` that can throw; if it
did, list and map would stay as they were between the two statements. The
abstract `LeastRecentlyUsed` has a sequence of pairs.

**QoiCodec.** `Repeat` and `Feed` are one pixel in the compressor's loop,
`Decode` is one round of the decoder's. The decoder runs as soon as there are
bytes: it reads only what was written, so this is the same as running it on the
finished file, and shows the two tables in step. The 14 header bytes are
skipped by the decoder and left out.

**Huffman.** One step per merge, per flattened node, per packed character and per
decoded bit. `find_path` gives the code word as a number and a length, `PutBit` sets
its bits in `compressed_bytes` from the high bit of each byte, `Advance` moves the
writer and the reader from bit to bit and from byte to byte, and `read_bit` takes
the bit out of the byte again. `compressed_bytes` has `MaxBytes` bytes.

**RobotControl.** A step per load and store of `flag_impl` and `thread_done`, except
that the window's thread tests `flag_impl` for 2, moves and clears it in one step
(`Manual`).
`asked`, `unasked` and `terminated` are histories; positions are left out.

## 3. Runs

| Run | Instance | Distinct states | Shows |
|-----|----------|----------------:|-------|
| `taskqueue` | 2 workers, 2 producers, 2 closers, 2 tasks, delays 1 and 2, time to 3 | 384 000 | `RunOnce`, `ShutdownDrains`, `WorkConserving` (a due task is never left while every worker sleeps and no notification is on its way), `SleepersInTime` (a sleeper's copied deadline is not late for any task that is still to come due, once no `notify_all` is on its way), `AcceptedRuns`, `ShutdownReturns` |
| `commandlink_safety` | 2 calls with their own numbers, shortened timing | 1 010 000 | `PromiseHasOneSetter`; `Implements` (refinement of `CommandService`) |
| `commandlink_timing` | 2 calls with one number, shortened timing, fair | 347 000 | `TimeoutOnlyAfterStop`, `CallReturns`, `TransactionEnds` |
| `advchardev` | capacity 3, two byte values, requests to 4 bytes | 5 400 | `RingInv`, `FifoContent`, `ReadsOldest`, `InitLeaksNothing` |
| `advchardev_wrapped_read` | the same | violation | `WrappedReadServed` fails |
| `sfd_registry` | 2 slots, descriptors 0 and 1, 3 handles, one made from a number in use | 174 000 | `HeldIsOpen`, `NoDescriptorLeaks`, `SessionsExclusive` |
| `sfd_registry_collision` | 2 slots, descriptors 2 and 4 (same home slot) | violation | `HeldIsOpen` fails |
| `pipe_handshake` | 3 clients, two with one id, one overlap of requests, one death | 767 000 | see below |
| `pipe_handshake_concurrent` | 2 clients, requests overlap | violation | `SwitchOnlyIfAccepted` fails |
| `receive_path` | 2 connections, one filtered, 2 workers, 2 datagrams each of 8 kinds | 1 340 000 | `HandledAsSent`, `PayloadIndexInBounds` |
| `receive_path_shared_parser` | 1 connection, 2 workers, 2 commands back to back | violation | `HandledAsSent` fails |
| `components` | six subjects, below | 175 000 | see below |

`pipe_handshake` lets one request begin while another is under way and one client
die. However they do, a client stays on the request FIFOs for ever only if the
acceptor has ended, or waits for ever in `open()` at `pipe_server.cpp` line 137
(`HangsOnlyBehindTheAcceptor`). As long as no requests have overlapped (`Alone`),
clients switch only when accepted (`AloneSwitchesIfAccepted`), deaths included; a
client that has joined is registered (`JoinedIsRegistered`); no client writes to a
closed FIFO, and the acceptor only if somebody has died (`NobodyKilledWriting`);
nothing stays in the FIFOs for the next request (`NothingLeftBehind`), unless a
client dies while a rejected one keeps the FIFOs open, as line 131 of
`pipe_client.cpp` leaves them; and while nobody has died accept_client always
returns (`ServesTheLiving`).

### What the violations are

- **A read across the end of the ring always fails**
  (`advchardev_wrapped_read`): `second_part` is computed as `-first_part`, a huge
  unsigned length, so the second copy faults; nothing is consumed, and the
  reader cannot get past that point with a request of that size.
- **Colliding descriptors are closed under their handles**
  (`sfd_registry_collision`): `retain` stops at the first free slot, although the
  descriptor may be registered behind it; its count is then split over two slots.
- **Answers go to the wrong client** (`pipe_handshake_concurrent`): all clients
  read one downstream FIFO and recognise an answer by its text and by a sequence
  number that is 0 for every new client.
- **Two workers share a parser** (`receive_path_shared_parser`): the lock covers
  the look-up and not the parsing, and the pool has two workers by default; of
  two commands that arrive back to back neither may be run.

Other behaviours are in the models and are no property of a run:

- A client that dies between OPENED and its open of the private FIFO leaves the
  only acceptor in `open()` for good (`pipe_server.cpp` line 137), and one that
  dies between its request and the answer kills the server (`SIGPIPE`).
  `ServesTheLiving` is therefore stated while nobody has died. The next request
  hangs behind that `open()`, which `HangsOnlyBehindTheAcceptor` excepts.
- A client may begin its request while the acceptor is still finishing the last
  one (`pipe_server.cpp` lines 137 to 158), even if that one's client has long
  returned. It then opens both FIFOs on ends that the acceptor closes when
  `accept_client` returns, and its write raises `SIGPIPE`. No client can see where
  the acceptor is. `NobodyKilledWriting` is therefore stated for `Alone`.
- Two handles made from one number at the same time
  (`sfd_static_registry.h` lines 76 to 86): one finds the slot claimed and adds to a
  count that the other then sets to 1, so that the first of the two to be released
  closes the number under the other. And a handle made from a number in use is not
  counted until its `retain` gets there; the release of the last other handle before
  that closes the number under it.
  `HeldIsOpen` and `SessionsExclusive` are stated for `MadeOnce`; nothing leaks
  (`NoDescriptorLeaks`) in either case.
- A REMOVE of an id that is not registered is treated as a registration, and
  leaves a session that only the heartbeat timeout ends; and REMOVE names an
  id, so a client refused as a duplicate removes the session of the accepted one
  when it is destroyed (the exception in `JoinedIsRegistered`).
- The acceptor holds the switch guard across a blocking read, so that the polling
  thread waits for as long as an opened request FIFO stays silent.
- After the first byte behind a foreign header the parser scans the rest of the
  frame for a start byte: a payload with 0x5A or 0xAA in it costs the next frame.
- An acknowledgement carries the address of the command, and is routed by it.
- A key pressed between `flag_impl.load()` and `flag_impl.store(0)` at the end of
  a program is lost.

### What `components` shows

- *Pipe server* (`PipeSound`): whatever the acceptor adds and removes, and
  however numbers are re-used, each thread receives from the descriptor it put
  in place (`ReceivesFromItsOwn`), and from look-up to answer the polling
  thread's proxies are the FIFOs of the client it serves
  (`ServesWhomItLookedUp`).
- *Order book* (`BookSound`, `BookPriceTimePriority`): free list and levels partition the pool, levels are doubly
  linked with the right volume, the map finds exactly the resting orders, the
  book is never crossed between calls, and all of it together refines
  price-time priority, the full pool included.
- *LRU cache* (`CacheSound`, `CacheKeepsMostRecent`): the pools never run out inside `put`, blocks and map entries
  agree, and the cache refines least recently used.
- *QOI* (`QoiLossless`): the decoder draws what the compressor was given, through every opcode,
  full runs and wrap-around; the tables agree although they are updated on
  different paths.
- *Huffman* (`TextLossless`): the text comes back, and no prefix code is shorter (`TextOptimal`
  compares with all code lengths that satisfy Kraft's inequality).
- *Robot*: although `thread_done` is set before `flag_impl` is cleared, and a
  frame in between does start a thread, no program runs twice for one request
  (`RobotRunsOnlyWhenAsked`): the join comes first, and the new thread finds 0.
  No joinable thread is ever replaced or destroyed (`RobotThreadsSound`).

The type invariants of `TaskQueue` and `AdvChardev` and, for numbers that
collide, `PromiseHasOneSetter` are theorems (section 4) and are not run again.

### Bounds, and why they are enough

- *TaskQueue*: two workers are needed for one to take what another was notified
  for; two tasks with different delays can overtake each other; `MaxTime` 3
  lets the longer delay begin after time has passed. `MaxTime` caps the clock
  and the deadlines; at the cap every deadline has been reached.
- *CommandLink*: two calls are enough for two promises to be confused; the runs
  shorten the periods, in the proportion the assumption of the module demands;
  the code's own 50 ms, 500 ms and 3 s are covered by `NoTimeoutWhileUp`. `WaitLimit` and `max_retries` bound all counters.
- *AdvChardev*: capacity 3 and requests of up to 4 bytes reach every relation
  of head, tail, size and request, full and overfull included; two byte values
  show any exchange of positions. Requests longer than the ring are cut.
- *SfdRegistry*: three handles are needed for a copy, a release and a new
  construction of the same number at once; two slots are the smallest table
  with a probing chain. `MaxReuse` 1 lets two threads claim one number; the run of
  the collision has 0, so that the collision alone is to blame.
- *PipeHandshake*: a duplicate needs two clients and an id, and the third client
  meets what they left behind. Each client makes at most one request to open
  and one to remove. The sequence number is 0 or not, which is all the code
  distinguishes; `Push` stops at 1. `MaxOverlaps` 1 lets any request begin at any
  point of another, in its client or in the acceptor, and `MaxDeaths` 1 lets any
  client die at any point of its own.
- *ReceivePath*: the datagrams are commands, acknowledgements, other messages,
  frames for other systems with and without a route, altered frames and noise;
  two per connection let any one be followed by any other. `Paced` says that a
  peer sends when its last datagram has been processed, as one that waits for
  its acknowledgement does; without it the violation is reached.
- *PipeSessions*: two clients and five descriptors are all that can be open at
  once: two sessions, the request, one being joined, and one proxy.
- *OrderBook*: three nodes fill with one order too many; two prices and two
  quantities give partial and complete fills over a level boundary. Ids are
  symmetric, and an id that rests is not used again, as the code's comment says.
- *LRUCache*: four keys for three places. *QoiCodec*: nine pixels between which
  every opcode, both ends of its ranges, wrap-around and a table collision occur,
  three changes of pixel, and runs past 62. *Huffman*: all texts of up to four of
  three characters, and five characters with all frequencies from 1, 2, 4, whose
  code words cross the ends of bytes; `MaxBytes` 6 is what the longest of them fills.
  *RobotControl*: four key presses, an unknown command at the end.

### Fairness

- `TaskQueue`: weak fairness of each thread's steps (the scheduler runs ready
  threads, a mutex is eventually obtained), of callbacks returning and of time.
  Pushing and closing are not fair, and `Spurious` is not, so that the
  notifications alone must do the work.
- `CommandLink`: a call that has begun, a worker that has an ACK, the timeout
  thread, and a stop that has begun go on. The network and the peer owe nothing.
- `PipeHandshake`: the acceptor and each client inside a request go on when
  their blocking call can return. Requests, deaths and timeouts are not fair.

Deadlock checking is off for the modules whose systems really end: the pool
after shutdown, the link after stop, the server after its stopping id or with
everybody in a blocking call (there the liveness properties say what must not
block), a receive path without further datagrams, and the finished compressors
and the closed window of `MCComponents`. The device and the registry never stop, and are checked.

## 4. Proofs

All theorems hold for every value of the constants that satisfies the named
assumption of the module. The long inductive invariants, those of the registry, of
the handshake and of the receive path, were checked by TLC on the runs' instances
before they were proved. Where a proof needs induction over data, it is made
without the library's induction theorems: the set of the counterexamples, if it is
not empty, has a least number (`LeastNumber`), and that one is refuted.

**TaskQueueProofs** (`PoolAssumption`: the sets are disjoint, workers and clients
finite). `AcceptedTasksRunOnce` (`Spec => []RunOnce`) and `ShutdownDrainsPool`
(`Spec => []ShutdownDrains`), with type correctness. `RunOnce` alone is not
inductive: that a finishing worker moves its own task needs `HoldsTask`.
`ShutdownDrains` needs that a worker leaves only a closed and empty pool, which
stays so (`ExitedPoolEmpty`), and that the joining closer returns after all
workers (`JoinedAfterExit`). `NoStaleDeadline` (`Spec => []SleepersInTime`): unless
a `notify_all` is on its way, no worker sleeps past a deadline that is still to
come, although it sleeps on a copy. `PoolIsWorkConserving`
(`Spec => []WorkConserving`) is about lost wake-ups: `notify_one` for every task, and
a timed wait until the earliest deadline, are enough. Its inductive form `CInv` has
`SleepersInTime` and `DueCovered` (the tasks that are due are at most the workers that are about to
look and the notifications under way); the proof counts, so it needs that the
sets are finite.

**CommandLinkProofs** (`LinkAssumption`, whose one demand on the code's numbers
is that the caller's wait exceeds four retry periods, each seen one tick late).
`TypeCorrect` and `EveryPromiseHasOneSetter` hold for any assignment of sequence
numbers, collisions included. `NoTimeoutWhileUp` says the caller's wait never
ends first while the link is up: `WaitInv` bounds the time a call has waited by
the rounds of its transaction, and `TimerInv` says no transaction is overdue
between passes. `LinkImplementsService` shows that with distinct sequence numbers
the link refines `CommandService`: `AckInv` (an ACK on the network or in the pool
means the command was run) and `OutcomeInv` relate the detailed state to the
abstract one, and `StepRefines` maps each step to a step or a stutter. The
distinctness is necessary: an ACK of an earlier use of a number cannot be told
from one of the present use.

**AdvChardevProofs** (`DeviceAssumption`). `IndicesAgree`: head is `size` bytes
after tail, modulo any capacity, whatever is read, written, reset or faults. The
arithmetic of one lap around the ring is in the lemmas `OneLap` and `FullLap`.
`RingHoldsWhatIsOwed` (`FifoContent`) says that the ring holds the unread bytes in
order for every capacity, and `ReadsInOrder` (`ReadsOldest`) that a read which succeeds
returns the oldest of them. Only reads that do not cross the end of the ring succeed
(`advchardev_wrapped_read`); writes do cross it: `RingContent` adds to the indices that the
reference `fifo` has `size` bytes and is the slice of the ring from tail, and the
lemmas about `Slice` follow a write across the end of the ring, onto unread bytes
and longer than the ring. `FailedInitReleasesAll` is `InitLeaksNothing`.

**SfdRegistryProofs** (`RegistryAssumption`). `NoUseAfterClose` (`HeldIsOpen`),
`NothingLeaks`, `OneSessionAtATime` and type correctness, for any number of
handles, under `NoCollisions`: no two descriptors have the same home slot. All
descriptors below the 256 slots that `SharedFileDescriptor` gives the table satisfy
it, and it is necessary: the run `sfd_registry_collision` violates `HeldIsOpen`
without it. All but the types are about behaviours up to the first handle made from
a number that another holds (`MadeOnce`), which is necessary too (section 3); the
inductive invariant is `MadeOnceInv`: the types, and as long as `MadeOnce` the
following. A slot in
use is its descriptor's home (`HomeInv`); its count is the number of handles that
have passed `Add` and not `Sub` (`CountInv`); the source of a copy stays counted
until the copy is (`CopyInv`); a handle between a slot's count of zero and the
close, or between the open and the claim of a slot, is the only one with its
descriptor (`AloneInv`). The last two exclude the revival of a slot whose count has
reached zero.

**PipeHandshakeProofs** (`HandshakeAssumption`). `TypeCorrect` holds however requests
overlap. `NobodySwitchesUnasked`, `FifosLeftClean`, `NoSigpipe` and
`JoinedHaveSessions` hold for any clients and ids, any `MaxOverlaps` and `MaxDeaths`,
up to the first request that begins while another is under way in its client or in
the acceptor (`Alone`). The code does not guarantee that there is none, and what
happens then is in section 3: the run `pipe_handshake_concurrent` violates the first,
and the third fails for a client that comes before `accept_client` has returned.
Clients may die anywhere. The inductive invariant is `AloneInv`: the types, and as
long as `Alone` what follows. It says where the acceptor can be for each stage of the one that asks
(`StageInv`); that the upstream FIFO holds one request at most and whose it is
(`UpInv`); that OPENED is the last answer downstream, while the acceptor waits at
the private FIFOs of its requester (`OpenedInv`); and, as long as nobody has died,
that an answer has its reader (`Fresh`). With deaths, old answers REMOVED and
REJECTED may lie in the FIFO, and only `OpenedInv` separates them from OPENED.

**ReceivePathProofs** (`ReceiveAssumption`: datagrams are sequences of bytes).
`TypeCorrect`, and `PayloadInBounds`: whatever bytes arrive, with any number of
workers and connections, if peers wait (`Paced`) no two workers are in one parser, and
a parser that reads payload writes below the length of its buffer. `OneAtATime` gives
the first part: of each connection one datagram is queued or with a worker at most.
It is also why `Parse` may be one step per byte. `ReadInv` says what `_bytes_read`
means in each state of `parse_byte`: in the state that reads payload it is below the
kept length, which is the buffer's. It holds for parsers in the middle of a datagram
too (`PoolInv`, `ParsersInv`). Without `Paced` two unlocked calls of `parse_byte` may
both pass the test of the index and write behind the buffer, so nothing is claimed.

`FramesHandledAsSent` proves `HandledAsSent` for any number of connections, workers
and datagrams, any payload below 256 bytes and any routing table, under two hypotheses
about the traffic, `Paced` and `WellFormed`. Both are necessary. Without `Paced` the
run `receive_path_shared_parser` violates it. `WellFormed` says what the parser cannot
do without: noise holds no start byte, since the parser would take it for a frame; a
frame that is forwarded holds none behind its first payload byte, where the parser is
scanning again; and no frame for another system is altered on its way, since those
are forwarded without a look at the checksum. `MCReceivePath` evaluates `WellFormed` on
the traffic of its paced run, so that the hypotheses are met there.
The invariant `HInv` says that of each connection one datagram is under way at most
(`OneAtATime`), that it is the last that arrived, that the parser is where its first `k`
bytes have brought it (`At`, with `HeaderAt`, `ForwardAt` and `LocalAt` for the parts of a
frame and `Raw` for `_raw_frame_buffer`), and that its effects are due from byte `DueAt`
on; the parser of any other connection waits for a start byte (`AtRest`). The lemmas
`RecordedIs` to `ForwardIs` give one byte in each state of the code's switch, `ByteStep`
joins them. `FramedIs` and `WireCarries` are the serializer: every field is at its
place, and the two checksums agree exactly when nothing was altered.

**ThreadsProofs** has two programs of two threads each. `PipeSessions`
(`SessionsAssumption`: finitely many clients, and more
descriptor numbers than can be open at once). `PipesNeverMixed` (`PipeSound`).
`Files` says what each number in a session, in the acceptor and in the polling
thread refers to, and that a session's number is nobody else's; that `open()` finds a
free number is a counting argument (`FreeDescriptor`). `GuardInv` ties `_shared_fd` to
the one thread inside the switch guard, and `NothingLeaks` says an open number has
a handle. `RobotControl` (`RobotAssumption`): `OneRunPerRequest` and
`ThreadsJoined`, from `AskedInv` (if `flag_impl` asks for a run when a program's thread
is about to test it, somebody asked) and `ThreadInv` (where the window's thread can be
for each stage of the program's). These two assumptions are hypotheses of the
theorems, and `MCComponents` evaluates them on its instance.

**AlgorithmProofs** has the LRU cache (`CacheAssumption`: the capacity is a positive
number) and the QOI codec (`QoiAssumption`: pixels are four bytes).
`CacheNeverThrows` (`CacheSound`): for every capacity, the free blocks and those in
use partition each pool (`ListOK`, `MapPoolOK`), the map has the keys of the list and
points at their blocks (`ItemOK`, `MapOK`); so `put` evicts exactly when both pools are
empty, and neither throws between the two insertions. From the same invariant
`CacheIsLeastRecentlyUsed` shows that the cache refines `LeastRecentlyUsed`: each branch
of `get` and `put` maps to a step of it on the items of the list.
`QoiGivesBackTheImage` (`QoiLossless`): for all images, whatever the pixels. `QInv` says
what the stream can hold between two steps: nothing (`Settled`), a run of 62
(`FullRun`), a run and the code of the new pixel (`Fed`) or the end marker (`Ended`).
When it is used up, previous pixel and colour table of both sides agree
(`Agree`); the decoder puts a pixel into its table on every opcode and the compressor
only on a change, so the invariant adds that the decoder's last pixel is in its table.

Only model-checked: the liveness properties (they need fairness and ENABLED,
which the prover does not treat); `BookSound` and `BookPriceTimePriority`, where the
levels are reached by following links through the pool, and a proof would have to
carry the list that each level stands for through every relinking;
`TextLossless` and `TextOptimal`, which are about what the construction of a whole
Huffman tree returns. No module uses a RECURSIVE operator.

## 5. Not modelled

- In RoCommLink: `subscribe` and the dispatcher's lock, `add_transport` and
  `add_routing_rule` (all called before `start`), and the socket's life cycle.
- In the pipe library: the client's feedback thread, a session's message
  counters, the use of the session pointer after the lock is released
  (`pipe_server.cpp` line 177; what a write through it does is undefined), and
  the senders' checksum cache, which no receiver looks at. `PipeHandshake` takes
  the switch guard around `receive_packet` to be free.
- Read in the code, and outside the models' instances: a failed
  `UdpTransport::connect` keeps the closed descriptor in `_sockfd`; a handler that
  subscribes from inside `dispatch` asks for a lock its own thread shares;
  `moveLinearSmooth` does not look at the flag that stops a program; an order
  whose id is already resting, images of one or two channels, and texts of a
  single character or with the character 0. Of the Huffman compressor's limits (a flat
  tree of 128 nodes, code words of 32 bits, 65000 bytes) only the last is in the model,
  as `MaxBytes`; no instance comes near the other two.
- Failure of memory allocation, of thread creation and of `mkfifo`.
- Descriptor policies, the universal socket and the logger's formatting: system
  calls or text without state of their own.
- Machine learning, mathematics and the robot's kinematics: floating point,
  which TLC cannot evaluate.
- Games, third-party trials, vendored code, terminal programs, scripts, notes.

Most of the repository's lines are of these kinds: `exprtk.hpp`, a vendored
expression library, is 46 251 of the 63 439 lines of code, so a map of lines
cannot cover a large share of the whole. What is mapped is the code with state
and concurrency of its own.

## 6. Plan

The runs are kept to a dozen, so a new component joins `MCComponents` or takes
the place of a question that a proof has answered.

1. Proofs: `PoolPartitioned` of `OrderBook`, then the whole of `BookSound`, with the
   order of each level as a ghost sequence in the invariant.
2. `PipeClientMonitor`: the detached feedback thread, the descriptor it has
   moved out of the object, and the destructor.
3. `UdpLifecycle`: connect, failed connect, disconnect and the descriptor closed
   twice.
4. The review queue of `english_apps`, run-length coding, the sysfs module.
