---------------------------- MODULE ReceivePath ----------------------------
(***************************************************************************)
(* The receive path of RoCommLink: datagrams queued in the worker pool,     *)
(* process_raw_bytes with its parser per connection, the routing table, and *)
(* what becomes of every frame (dispatched, acknowledged, resolved or       *)
(* forwarded).                                                              *)
(*                                                                         *)
(* Workers run process_raw_bytes at the same time; the lookup of the parser *)
(* takes _parsers_mutex, the parsing itself takes no lock and is one action *)
(* per byte, which is exact as long as no two workers share a parser.       *)
(* Tasks leave the pool in the order in which they were pushed.             *)
(***************************************************************************)
EXTENDS Integers, Sequences, FiniteSets, SequencesExt

CONSTANTS
    Workers,        \* the threads of the pool
    Conns,          \* the interface ids that have a transport
    Messages,       \* the datagrams peers may send: a packet and what is wrong
    Filtered,       \* connections whose parser has the gateway's early filter
    Self,           \* the system id that filter keeps
    Routes,         \* _routing_table: <<system, component>> to interface
    Paced,          \* a peer sends only when its last datagram was processed
    MaxArrivals     \* bound: the datagrams of one connection

SOT == {90, 170}                    \* 0x5A, 0xAA
MSG_ID_COMMAND_ACK == 255
MSG_ID_USER_COMMAND == 1
DEFAULT_BROADCAST_INTERFACE == 0
ACCEPTED == 0

Hi(n) == (n \div 256) % 256
Lo(n) == n % 256

-----------------------------------------------------------------------------
(* Serializer *)

\* ByteUtilities::calculate_checksum, a uint16_t sum.
checksum(bytes) == FoldLeft(LAMBDA a, b : (a + b) % 65536, 0, bytes)

\* PacketSerializer::serialize
serialize(p) ==
    LET frame == <<p.magic, p.version, p.sys, p.comp, Hi(p.msg), Lo(p.msg),
                   Hi(p.seq), Lo(p.seq), Hi(Len(p.payload)), Lo(Len(p.payload))>>
                 \o p.payload
    IN  frame \o <<Hi(checksum(frame)), Lo(checksum(frame))>>

\* What a datagram holds: a frame, one whose last byte was altered on the way,
\* or bytes that no station sends.
Wire == [m \in Messages |->
    LET frame == serialize(m.pkt)
    IN  CASE m.fault = "none" -> frame
          [] m.fault = "checksum" ->
                [frame EXCEPT ![Len(frame)] = Lo(frame[Len(frame)] + 1)]
          [] m.fault = "noise" -> m.pkt.payload]

-----------------------------------------------------------------------------
(* Parser *)

NoPacket == [magic |-> 90, version |-> 1, sys |-> 0, comp |-> 0, msg |-> 0,
             seq |-> 0, plen |-> 0, payload |-> <<>>, sum |-> 0]

\* A new RoCommLinkParser: state, _bytes_read, _payload_length,
\* _current_packet and _raw_frame_buffer.
NewParser == [state |-> "Start", read |-> 0, len |-> 0, pkt |-> NoPacket,
              raw |-> <<>>]

\* execute_early_filter with the callback of the gateway: a frame for another
\* system is forwarded.
Foreign(c, pkt) == c \in Filtered /\ pkt.sys # Self

\* Mutant of Field: the low byte is shifted too.
Field_BothHigh(p, b, first, old) == IF p.read = first THEN b * 256 ELSE old + b * 256

\* The 16-bit fields arrive high byte first: the first byte is assigned, the
\* second one is or-ed into it.
Field(p, b, first, old) == IF p.read = first THEN b * 256 ELSE old + b

StartByte(p, b) ==
    IF b \in SOT
    THEN [p EXCEPT !.state = "System", !.read = 0, !.raw = <<b>>,
                   !.pkt = [NoPacket EXCEPT !.magic = b]]
    ELSE p

SystemByte(p, b) ==
    IF p.read = 0 THEN [p EXCEPT !.pkt.version = b, !.read = 1]
                  ELSE [p EXCEPT !.pkt.sys = b, !.state = "MsgHigh"]

ComponentByte(p, b) == [p EXCEPT !.pkt.comp = b, !.state = "MsgLow"]

MessageByte(p, b) ==
    LET q == [p EXCEPT !.pkt.msg = Field(p, b, 1, @)]
    IN  IF p.read = 1 THEN [q EXCEPT !.read = 2]
                      ELSE [q EXCEPT !.state = "Length", !.read = 0]

\* The header is complete: the length is kept in eight bits.
HeaderDone(c, p) ==
    LET n == Lo(p.pkt.plen)
        q == [p EXCEPT !.len = n, !.read = 0]
    IN  CASE n = 0 -> [q EXCEPT !.state = "Checksum"]
          [] n > 0 /\ Foreign(c, p.pkt) -> [q EXCEPT !.state = "Forward"]
          [] OTHER -> [q EXCEPT !.state = "Payload",
                                !.pkt.payload = [i \in 1..n |-> 0]]

\* Sequence number, then payload length.
LengthByte(c, p, b) ==
    CASE p.read \in {0, 1} ->
            [p EXCEPT !.pkt.seq = Field(p, b, 0, @), !.read = p.read + 1]
      [] p.read = 2 -> [p EXCEPT !.pkt.plen = b * 256, !.read = 3]
      [] OTHER -> HeaderDone(c, [p EXCEPT !.pkt.plen = @ + b])

\* Mutant of PayloadByte: > for >=, one byte past the end.
PayloadByte_Past(p, b) ==
    LET q == [p EXCEPT !.pkt.payload = [@ EXCEPT ![p.read + 1] = b]]
    IN  IF p.read + 1 > p.len THEN [q EXCEPT !.read = 0, !.state = "Checksum"]
                              ELSE [q EXCEPT !.read = p.read + 1]

PayloadByte(p, b) ==
    LET q == [p EXCEPT !.pkt.payload = [@ EXCEPT ![p.read + 1] = b]]
    IN  IF p.read + 1 >= p.len THEN [q EXCEPT !.read = 0, !.state = "Checksum"]
                               ELSE [q EXCEPT !.read = p.read + 1]

\* The early filter is asked again at the first byte of the checksum.
ChecksumByte(c, p, b) ==
    LET q == [p EXCEPT !.pkt.sum = Field(p, b, 0, @)]
    IN  IF p.read = 0
        THEN [q EXCEPT !.read = 1,
                       !.state = IF Foreign(c, p.pkt) THEN "Forward" ELSE @]
        ELSE [q EXCEPT !.state = "Start"]

\* Every state but the first, the last two and ForwardActive records the byte.
Recorded(p, b) ==
    IF p.state \in {"System", "MsgHigh", "MsgLow", "Length", "Payload"}
    THEN [p EXCEPT !.raw = Append(@, b)] ELSE p

\* Mutant of parse_byte: forwarding does not end with the byte.
parse_byte_StaysForward(c, p, b) ==
    LET r == Recorded(p, b)
    IN  CASE p.state = "Start" -> StartByte(p, b)
          [] p.state = "System" -> SystemByte(r, b)
          [] p.state = "MsgHigh" -> ComponentByte(r, b)
          [] p.state = "MsgLow" -> MessageByte(r, b)
          [] p.state = "Length" -> LengthByte(c, r, b)
          [] p.state = "Payload" -> PayloadByte(r, b)
          [] p.state = "Checksum" -> ChecksumByte(c, p, b)
          [] p.state = "Forward" -> p

\* parse_byte: the parser after one byte.
parse_byte(c, p, b) ==
    LET r == Recorded(p, b)
    IN  CASE p.state = "Start" -> StartByte(p, b)
          [] p.state = "System" -> SystemByte(r, b)
          [] p.state = "MsgHigh" -> ComponentByte(r, b)
          [] p.state = "MsgLow" -> MessageByte(r, b)
          [] p.state = "Length" -> LengthByte(c, r, b)
          [] p.state = "Payload" -> PayloadByte(r, b)
          [] p.state = "Checksum" -> ChecksumByte(c, p, b)
          [] p.state = "Forward" -> [p EXCEPT !.state = "Start"]

\* ParseResult::status of the same call, from the parser before and after it.
Status(p, q) ==
    CASE p.state = "Forward" -> "StreamForwardByte"
      [] p.state = "Checksum" /\ p.read # 0 /\ checksum(p.raw) = q.pkt.sum ->
            "Complete"
      [] OTHER -> "Processing"

-----------------------------------------------------------------------------
(* Routing and handling of a frame *)

\* An exact rule, a rule for the whole system (component 0), or the default.
determine_routing_target(sys, comp) ==
    CASE <<sys, comp>> \in DOMAIN Routes -> Routes[<<sys, comp>>]
      [] <<sys, comp>> \notin DOMAIN Routes /\ <<sys, 0>> \in DOMAIN Routes ->
            Routes[<<sys, 0>>]
      [] OTHER -> DEFAULT_BROADCAST_INTERFACE

\* send on the transport of an interface, if there is one.
SendVia(i, event) == IF i \in Conns THEN <<event>> ELSE <<>>

\* resolve(target_sequence, result): both are host-order fields of the payload.
Acked(pkt) ==
    IF Len(pkt.payload) >= 5
    THEN <<[do |-> "resolve", seq |-> pkt.payload[3] + 256 * pkt.payload[4],
            result |-> pkt.payload[5]]>>
    ELSE <<>>

\* The CommandAckPayload of the packet that acknowledges a command.
AckFor(pkt) ==
    [magic |-> 90, version |-> 1, sys |-> pkt.sys, comp |-> pkt.comp,
     msg |-> MSG_ID_COMMAND_ACK, seq |-> pkt.seq,
     payload |-> <<Lo(pkt.msg), Hi(pkt.msg), Lo(pkt.seq), Hi(pkt.seq), ACCEPTED>>]

Dispatched(pkt) ==
    <<[do |-> "dispatch", msg |-> pkt.msg, seq |-> pkt.seq, payload |-> pkt.payload]>>

\* A complete packet: an ACK, a command (dispatched, then acknowledged over the
\* route of its own address), or anything else.
Handled(pkt) ==
    CASE pkt.msg = MSG_ID_COMMAND_ACK -> Acked(pkt)
      [] pkt.msg = MSG_ID_USER_COMMAND ->
            Dispatched(pkt) \o SendVia(determine_routing_target(pkt.sys, pkt.comp),
                                  [do |-> "send", bytes |-> serialize(AckFor(pkt)),
                                   via |-> determine_routing_target(pkt.sys, pkt.comp)])
      [] OTHER -> Dispatched(pkt)

\* The whole datagram is sent on, not the one byte.
Forwarded(pkt, bytes) ==
    SendVia(determine_routing_target(pkt.sys, pkt.comp),
            [do |-> "send", bytes |-> bytes,
             via |-> determine_routing_target(pkt.sys, pkt.comp)])

-----------------------------------------------------------------------------
VARIABLES
    queue,      \* the pool: datagrams that wait for a worker
    pc,         \* where each worker is in process_raw_bytes
    job,        \* the datagram a worker processes and its next byte
    parsers,    \* _parsers: connection to parser
    arrived,    \* history: the datagrams of each connection, in order
    effects     \* history: what was done with each connection's bytes

vars == <<queue, pc, job, parsers, arrived, effects>>

Byte == {n \in Nat : n < 256}
Word == {n \in Nat : n < 65536}

\* Datagrams are bytes; only connections of the service have a filter.
ASSUME ReceiveAssumption ==
    /\ Filtered \subseteq Conns
    /\ \A m \in Messages : Wire[m] \in Seq(Byte)
    /\ MaxArrivals \in Nat

NoJob == [conn |-> DEFAULT_BROADCAST_INTERFACE, bytes |-> <<>>, next |-> 1]

Packets == [magic : Byte, version : Byte, sys : Byte, comp : Byte,
            msg : Word, seq : Word, plen : Word, payload : Seq(Byte), sum : Word]

Parsers == [state : {"Start", "System", "MsgHigh", "MsgLow", "Length",
                     "Payload", "Checksum", "Forward"},
            read : Byte, len : Byte, pkt : Packets, raw : Seq(Byte)]

TypeOK ==
    /\ queue \in Seq([conn : Conns, bytes : Seq(Byte), next : {1}])
    /\ pc \in [Workers -> {"idle", "lookup", "create", "parse"}]
    /\ \A w \in Workers :
        /\ job[w].conn \in Conns \cup {DEFAULT_BROADCAST_INTERFACE}
        /\ job[w].bytes \in Seq(Byte)
        /\ pc[w] # "idle" => job[w].next \in 1..Len(job[w].bytes)
    /\ DOMAIN parsers \subseteq Conns
    /\ \A c \in DOMAIN parsers : parsers[c] \in Parsers
    /\ \A c \in Conns : Len(arrived[c]) <= MaxArrivals

\* The gateway creates the parsers it gives a filter to before it starts.
Init ==
    /\ queue = <<>>
    /\ pc = [w \in Workers |-> "idle"]
    /\ job = [w \in Workers |-> NoJob]
    /\ parsers = [c \in Filtered |-> NewParser]
    /\ arrived = [c \in Conns |-> <<>>]
    /\ effects = [c \in Conns |-> <<>>]

\* A datagram of connection c is queued, or a worker is at it.
Pending(c) ==
    \/ \E i \in 1..Len(queue) : queue[i].conn = c
    \/ \E w \in Workers : pc[w] # "idle" /\ job[w].conn = c

\* The read callback of start(): the receive thread pushes the datagram.
Arrive(c) ==
    /\ Len(arrived[c]) < MaxArrivals
    /\ Paced => ~Pending(c)
    /\ \E m \in Messages :
        /\ Wire[m] # <<>>
        /\ queue' = Append(queue, [conn |-> c, bytes |-> Wire[m], next |-> 1])
        /\ arrived' = [arrived EXCEPT ![c] = Append(@, m)]
    /\ UNCHANGED <<pc, job, parsers, effects>>

\* A worker starts process_raw_bytes.
Take(w) ==
    /\ pc[w] = "idle"
    /\ queue # <<>>
    /\ job' = [job EXCEPT ![w] = Head(queue)]
    /\ queue' = Tail(queue)
    /\ pc' = [pc EXCEPT ![w] = "lookup"]
    /\ UNCHANGED <<parsers, arrived, effects>>

\* Under the shared lock.
Lookup(w) ==
    /\ pc[w] = "lookup"
    /\ pc' = [pc EXCEPT ![w] =
                IF job[w].conn \in DOMAIN parsers THEN "parse" ELSE "create"]
    /\ UNCHANGED <<queue, job, parsers, arrived, effects>>

\* Under the exclusive lock: the map is searched again.
Create(w) ==
    /\ pc[w] = "create"
    /\ parsers' = [c \in DOMAIN parsers \cup {job[w].conn} |->
                    IF c \in DOMAIN parsers THEN parsers[c] ELSE NewParser]
    /\ pc' = [pc EXCEPT ![w] = "parse"]
    /\ UNCHANGED <<queue, job, arrived, effects>>

\* One round of the loop over the bytes, without a lock.  It is one step because
\* nobody else is in this parser when peers wait (PayloadIndexInBounds says so).
\* When they do not, parse_byte races with itself; whole bytes that alternate
\* are then only some of what can happen, and enough to lose a frame.
Parse(w) ==
    LET c == job[w].conn
        b == job[w].bytes[job[w].next]
        p == parsers[c]
        q == parse_byte(c, p, b)
    IN  /\ pc[w] = "parse"
        /\ parsers' = [parsers EXCEPT ![c] = q]
        /\ effects' = [effects EXCEPT ![c] = @ \o
                CASE Status(p, q) = "Complete" -> Handled(q.pkt)
                  [] Status(p, q) = "StreamForwardByte" ->
                        Forwarded(q.pkt, job[w].bytes)
                  [] OTHER -> <<>>]
        /\ IF job[w].next = Len(job[w].bytes)
           THEN /\ pc' = [pc EXCEPT ![w] = "idle"]
                /\ job' = [job EXCEPT ![w] = NoJob]
           ELSE /\ job' = [job EXCEPT ![w].next = @ + 1]
                /\ UNCHANGED pc
        /\ UNCHANGED <<queue, arrived>>

Next ==
    \/ \E c \in Conns : Arrive(c)
    \/ \E w \in Workers : Take(w) \/ Lookup(w) \/ Create(w) \/ Parse(w)

Spec == Init /\ [][Next]_vars

-----------------------------------------------------------------------------
(* Properties *)

\* What has to happen to a datagram, packet by packet and without bytes.
Expected == [c \in Conns |-> [m \in Messages |->
    CASE m.fault # "none" -> <<>>
      [] m.fault = "none" /\ Foreign(c, m.pkt) -> Forwarded(m.pkt, serialize(m.pkt))
      [] OTHER -> Handled(m.pkt)]]

\* A packet as stations build it, with a length that eight bits hold.
Sendable(k) ==
    /\ k.magic \in SOT
    /\ k.version \in Byte /\ k.sys \in Byte /\ k.comp \in Byte
    /\ k.msg \in Word /\ k.seq \in Word
    /\ k.payload \in Seq(Byte) /\ Len(k.payload) < 256

\* Traffic in which every start byte that the parser may see begins a frame:
\* none in noise, none in what follows the first payload byte of a frame that
\* is forwarded, and no altered frame for another system.
WellFormed ==
    \A m \in Messages :
        /\ m.fault \in {"none", "checksum", "noise"}
        /\ m.fault = "noise" => \A i \in 1..Len(Wire[m]) : Wire[m][i] \notin SOT
        /\ m.fault # "noise" => Sendable(m.pkt)
        /\ \A c \in Conns : m.fault # "noise" /\ Foreign(c, m.pkt) =>
            /\ m.fault = "none"
            /\ m.pkt.payload # <<>> =>
                    \A i \in 12..Len(Wire[m]) : Wire[m][i] \notin SOT

\* Each connection's frames are handled in order, each exactly once and as it
\* was sent: local ones are dispatched (and commands acknowledged), foreign
\* ones forwarded whole; altered frames and noise have no effect.
HandledAsSent ==
    \A c \in Conns :
        LET all == FlattenSeq([i \in 1..Len(arrived[c]) |-> Expected[c][arrived[c][i]]])
        IN  /\ IsPrefix(effects[c], all)
            /\ ~Pending(c) => effects[c] = all

\* Worker w runs parse_byte for connection c.
AtParser(w, c) == pc[w] = "parse" /\ job[w].conn = c

\* parse_byte takes no lock: a payload is not written past its end because only
\* one worker at a time is in a parser, and its index is below the length that
\* the payload was resized to, whatever bytes arrive.
PayloadIndexInBounds ==
    \A c \in DOMAIN parsers :
        /\ \A v, w \in Workers : AtParser(v, c) /\ AtParser(w, c) => v = w
        /\ parsers[c].state = "Payload" =>
            parsers[c].read < Len(parsers[c].pkt.payload)

=============================================================================
