-------------------------- MODULE ReceivePathProofs --------------------------
(***************************************************************************)
(* ReceivePath for all datagrams and any number of connections and workers. *)
(* Peers wait (Paced) until their last datagram is processed: then no two    *)
(* workers are ever in one parser, so a call of parse_byte, which takes no   *)
(* lock, is the one step that Parse makes of it.                             *)
(***************************************************************************)
EXTENDS ReceivePath, SequenceTheorems, WellFoundedInduction, TLAPS

\* A 16-bit field of which only the first byte has arrived.
HighByte == {n \in Word : n <= 65280}

\* What _bytes_read (r) means in each state (s) of the parser, for the packet k
\* and the payload length n.
ReadOK(s, r, k, n) ==
    /\ s = "System" => r \in {0, 1}
    /\ s = "MsgHigh" => r = 1
    /\ s = "MsgLow" => r = 1 \/ (r = 2 /\ k.msg \in HighByte)
    /\ s = "Length" => /\ r \in {0, 1, 2, 3}
                       /\ r = 1 => k.seq \in HighByte
                       /\ r = 3 => k.plen \in HighByte
    /\ s = "Payload" => Len(k.payload) = n /\ r < n
    /\ s = "Checksum" => r = 0 \/ (r = 1 /\ k.sum \in HighByte)

ReadInv(p) == ReadOK(p.state, p.read, p.pkt, p.len)

\* A datagram that waits has a first byte, and belongs to a connection.
Datagrams == [conn : Conns, bytes : Seq(Byte) \ {<<>>}, next : {1}]

Jobs == [conn : Conns \cup {DEFAULT_BROADCAST_INTERFACE}, bytes : Seq(Byte), next : Nat]

\* The strengthening that makes the properties inductive.
PoolInv ==
    /\ queue \in Seq(Datagrams)
    /\ pc \in [Workers -> {"idle", "lookup", "create", "parse"}]
    /\ job \in [Workers -> Jobs]
    /\ \A w \in Workers : pc[w] # "idle" =>
            job[w].conn \in Conns /\ job[w].next \in 1..Len(job[w].bytes)

ParsersInv ==
    /\ DOMAIN parsers \subseteq Conns
    /\ parsers \in [DOMAIN parsers -> Parsers]
    /\ \A c \in DOMAIN parsers : ReadInv(parsers[c])

ArrivedInv ==
    /\ arrived \in [Conns -> Seq(Messages)]
    /\ \A c \in Conns : Len(arrived[c]) <= MaxArrivals

IInv == PoolInv /\ ParsersInv /\ ArrivedInv

-----------------------------------------------------------------------------
(* Parser *)

\* The second byte completes a 16-bit field.
LEMMA SecondByte ==
    ASSUME NEW old \in HighByte, NEW b \in Byte
    PROVE  old + b \in Word
BY DEF HighByte, Byte, Word

LEMMA FirstByte ==
    ASSUME NEW b \in Byte
    PROVE  b * 256 \in HighByte /\ b * 256 \in Word
BY DEF HighByte, Byte, Word

\* Recording the byte changes nothing else.
LEMMA RecordedKeeps ==
    ASSUME NEW p \in Parsers, ReadInv(p), NEW b \in Byte
    PROVE  /\ Recorded(p, b) \in Parsers /\ ReadInv(Recorded(p, b))
           /\ Recorded(p, b).state = p.state
<1>1. Append(p.raw, b) \in Seq(Byte)
      BY DEF Parsers
<1> QED
    BY <1>1 DEF Recorded, Parsers, ReadInv, ReadOK

LEMMA StartByteKeeps ==
    ASSUME NEW p \in Parsers, ReadInv(p), p.state = "Start", NEW b \in Byte
    PROVE  StartByte(p, b) \in Parsers /\ ReadInv(StartByte(p, b))
<1>1. NoPacket \in Packets
      BY DEF NoPacket, Packets, Byte, Word
<1>2. [NoPacket EXCEPT !.magic = b] \in Packets
      BY <1>1 DEF Packets
<1>3. 0 \in Byte /\ <<b>> \in Seq(Byte)
      BY DEF Byte
<1> QED
    BY <1>2, <1>3 DEF StartByte, Parsers, ReadInv, ReadOK

States == {"Start", "System", "MsgHigh", "MsgLow", "Length", "Payload", "Checksum", "Forward"}

\* A parser with another packet, _bytes_read and state.
Updated(p, k, r, s) == [p EXCEPT !.pkt = k, !.read = r, !.state = s]

LEMMA UpdatedKeeps ==
    ASSUME NEW p \in Parsers, NEW k \in Packets, NEW r \in Byte, NEW s \in States,
           ReadOK(s, r, k, p.len)
    PROVE  Updated(p, k, r, s) \in Parsers /\ ReadInv(Updated(p, k, r, s))
<1>1. /\ Updated(p, k, r, s) \in Parsers
      /\ Updated(p, k, r, s).pkt = k /\ Updated(p, k, r, s).read = r
      /\ Updated(p, k, r, s).state = s /\ Updated(p, k, r, s).len = p.len
      BY DEF Updated, Parsers, States
<1> QED
    BY <1>1, Zenon DEF ReadInv

LEMMA PacketType ==
    ASSUME NEW k \in Packets, NEW b \in Byte, NEW v \in Word
    PROVE  /\ [k EXCEPT !.version = b] \in Packets
           /\ [k EXCEPT !.sys = b] \in Packets
           /\ [k EXCEPT !.comp = b] \in Packets
           /\ [k EXCEPT !.msg = v] \in Packets /\ [k EXCEPT !.msg = v].msg = v
           /\ [k EXCEPT !.seq = v] \in Packets /\ [k EXCEPT !.seq = v].seq = v
           /\ [k EXCEPT !.plen = v] \in Packets /\ [k EXCEPT !.plen = v].plen = v
           /\ [k EXCEPT !.sum = v] \in Packets /\ [k EXCEPT !.sum = v].sum = v
BY DEF Packets

\* The fields before the sequence number.
LEMMA HeaderByteKeeps ==
    ASSUME NEW p \in Parsers, ReadInv(p), NEW b \in Byte
    PROVE  /\ p.state = "System" => SystemByte(p, b) \in Parsers /\ ReadInv(SystemByte(p, b))
           /\ p.state = "MsgHigh" =>
                ComponentByte(p, b) \in Parsers /\ ReadInv(ComponentByte(p, b))
           /\ p.state = "MsgLow" => MessageByte(p, b) \in Parsers /\ ReadInv(MessageByte(p, b))
<1>0. 0 \in Byte /\ 1 \in Byte /\ 2 \in Byte /\ p.pkt \in Packets /\ p.read \in Byte
      BY DEF Byte, Parsers
<1>1. ASSUME p.state = "System"
      PROVE  SystemByte(p, b) \in Parsers /\ ReadInv(SystemByte(p, b))
      BY <1>0, <1>1 DEF SystemByte, Parsers, Packets, ReadInv, ReadOK
<1>2. ASSUME p.state = "MsgHigh"
      PROVE  ComponentByte(p, b) \in Parsers /\ ReadInv(ComponentByte(p, b))
      BY <1>2 DEF ComponentByte, Parsers, Packets, ReadInv, ReadOK
<1>3. ASSUME p.state = "MsgLow"
      PROVE  MessageByte(p, b) \in Parsers /\ ReadInv(MessageByte(p, b))
  <2>1. CASE p.read = 1
    <3> DEFINE v == b * 256
               k == [p.pkt EXCEPT !.msg = v]
    <3>1. v \in HighByte /\ v \in Word
          BY FirstByte
    <3>2. MessageByte(p, b) = Updated(p, k, 2, "MsgLow")
          BY <1>3, <2>1, ZenonT(30) DEF MessageByte, Field, Updated, Parsers
    <3> HIDE DEF v
    <3>3. k \in Packets /\ k.msg = v
          BY <1>0, <3>1, PacketType
    <3> HIDE DEF k
    <3>4. ReadOK("MsgLow", 2, k, p.len) /\ "MsgLow" \in States
          BY <3>1, <3>3 DEF ReadOK, States
    <3> QED
        BY <1>0, <3>2, <3>3, <3>4, UpdatedKeeps, Zenon
  <2>2. CASE p.read # 1
    <3> DEFINE v == p.pkt.msg + b
               k == [p.pkt EXCEPT !.msg = v]
    <3>1. v \in Word
          BY <1>3, <2>2, SecondByte DEF ReadInv, ReadOK
    <3>2. MessageByte(p, b) = Updated(p, k, 0, "Length")
          BY <1>3, <2>2 DEF MessageByte, Field, Updated, Parsers
    <3> HIDE DEF v
    <3>3. k \in Packets
          BY <1>0, <3>1, PacketType
    <3> HIDE DEF k
    <3>4. ReadOK("Length", 0, k, p.len) /\ "Length" \in States
          BY DEF ReadOK, States
    <3> QED
        BY <1>0, <3>2, <3>3, <3>4, UpdatedKeeps, Zenon
  <2> QED
      BY <2>1, <2>2
<1> QED
    BY <1>1, <1>2, <1>3

\* The header is complete: the payload gets as many bytes as will be read.
LEMMA HeaderDoneKeeps ==
    ASSUME NEW p \in Parsers, NEW c
    PROVE  HeaderDone(c, p) \in Parsers /\ ReadInv(HeaderDone(c, p))
<1> DEFINE n == Lo(p.pkt.plen)
           zeros == [i \in 1..n |-> 0]
<1>1. n \in Byte /\ 0 \in Byte /\ p.pkt \in Packets /\ n \in Nat
      BY DEF Parsers, Packets, Lo, Byte, Word
<1> HIDE DEF n
<1>2. zeros \in Seq(Byte) /\ Len(zeros) = n
      BY <1>1
<1> HIDE DEF zeros
<1>3. CASE n = 0
  <2>1. HeaderDone(c, p) = [p EXCEPT !.len = n, !.read = 0, !.state = "Checksum"]
        BY <1>3 DEF HeaderDone, n
  <2> QED
      BY <1>1, <2>1 DEF Parsers, ReadInv, ReadOK
<1>4. CASE n > 0 /\ Foreign(c, p.pkt)
  <2>1. HeaderDone(c, p) = [p EXCEPT !.len = n, !.read = 0, !.state = "Forward"]
        BY <1>1, <1>4 DEF HeaderDone, n
  <2> QED
      BY <1>1, <2>1 DEF Parsers, ReadInv, ReadOK
<1>5. CASE n > 0 /\ ~Foreign(c, p.pkt)
  <2> DEFINE k == [p.pkt EXCEPT !.payload = zeros]
  <2>1. HeaderDone(c, p) = [p EXCEPT !.len = n, !.read = 0, !.state = "Payload", !.pkt = k]
        BY <1>1, <1>5 DEF HeaderDone, n, zeros, Parsers
  <2>2. k \in Packets /\ k.payload = zeros
        BY <1>1, <1>2 DEF Packets
  <2> HIDE DEF k
  <2> QED
      BY <1>1, <1>2, <1>5, <2>1, <2>2 DEF Parsers, ReadInv, ReadOK
<1> QED
    BY <1>1, <1>3, <1>4, <1>5

\* Sequence number and payload length.
LEMMA LengthByteKeeps ==
    ASSUME NEW p \in Parsers, ReadInv(p), p.state = "Length", NEW b \in Byte, NEW c
    PROVE  LengthByte(c, p, b) \in Parsers /\ ReadInv(LengthByte(c, p, b))
<1>0. /\ 1 \in Byte /\ 2 \in Byte /\ 3 \in Byte /\ p.pkt \in Packets
      /\ p.read \in {0, 1, 2, 3} /\ "Length" \in States
      BY DEF Byte, Parsers, ReadInv, ReadOK, States
<1>1. b * 256 \in HighByte /\ b * 256 \in Word
      BY FirstByte
<1>2. CASE p.read = 0
  <2> DEFINE v == b * 256
             k == [p.pkt EXCEPT !.seq = v]
  <2>1. v \in HighByte /\ v \in Word
        BY <1>1
  <2>2. LengthByte(c, p, b) = [p EXCEPT !.pkt.seq = v, !.read = 1]
        BY <1>2 DEF LengthByte, Field
  <2> HIDE DEF v
  <2>3. LengthByte(c, p, b) = Updated(p, k, 1, "Length")
        BY <2>2 DEF Updated, Parsers
  <2>4. k \in Packets /\ k.seq = v
        BY <1>0, <2>1, PacketType
  <2> HIDE DEF k
  <2>5. ReadOK("Length", 1, k, p.len)
        BY <2>1, <2>4 DEF ReadOK
  <2> QED
      BY <1>0, <2>3, <2>4, <2>5, UpdatedKeeps, Zenon
<1>3. CASE p.read = 1
  <2> DEFINE v == p.pkt.seq + b
             k == [p.pkt EXCEPT !.seq = v]
  <2>1. v \in Word
        BY <1>3, SecondByte DEF ReadInv, ReadOK
  <2>2. LengthByte(c, p, b) = [p EXCEPT !.pkt.seq = v, !.read = 2]
        BY <1>3 DEF LengthByte, Field
  <2> HIDE DEF v
  <2>3. LengthByte(c, p, b) = Updated(p, k, 2, "Length")
        BY <2>2 DEF Updated, Parsers
  <2>4. k \in Packets /\ k.seq = v
        BY <1>0, <2>1, PacketType
  <2> HIDE DEF k
  <2>5. ReadOK("Length", 2, k, p.len)
        BY <2>1, <2>4 DEF ReadOK
  <2> QED
      BY <1>0, <2>3, <2>4, <2>5, UpdatedKeeps, Zenon
<1>4. CASE p.read = 2
  <2> DEFINE v == b * 256
             k == [p.pkt EXCEPT !.plen = v]
  <2>1. v \in HighByte /\ v \in Word
        BY <1>1
  <2>2. LengthByte(c, p, b) = [p EXCEPT !.pkt.plen = v, !.read = 3]
        BY <1>4 DEF LengthByte, Field
  <2> HIDE DEF v
  <2>3. LengthByte(c, p, b) = Updated(p, k, 3, "Length")
        BY <2>2 DEF Updated, Parsers
  <2>4. k \in Packets /\ k.plen = v
        BY <1>0, <2>1, PacketType
  <2> HIDE DEF k
  <2>5. ReadOK("Length", 3, k, p.len)
        BY <2>1, <2>4 DEF ReadOK
  <2> QED
      BY <1>0, <2>3, <2>4, <2>5, UpdatedKeeps, Zenon
<1>5. CASE p.read = 3
  <2> DEFINE v == p.pkt.plen + b
             q == [p EXCEPT !.pkt.plen = v]
  <2>1. LengthByte(c, p, b) = HeaderDone(c, q)
        BY <1>5 DEF LengthByte
  <2>2. v \in Word
        BY <1>5, SecondByte DEF ReadInv, ReadOK
  <2> HIDE DEF v
  <2>3. q \in Parsers
        BY <2>2 DEF Parsers, Packets
  <2> HIDE DEF q
  <2> QED
      BY <2>1, <2>3, HeaderDoneKeeps
<1> QED
    BY <1>0, <1>2, <1>3, <1>4, <1>5

\* A byte of the payload goes into its place, and the last one ends the state.
LEMMA PayloadByteKeeps ==
    ASSUME NEW p \in Parsers, ReadInv(p), p.state = "Payload", NEW b \in Byte
    PROVE  PayloadByte(p, b) \in Parsers /\ ReadInv(PayloadByte(p, b))
<1>1. /\ p.pkt \in Packets /\ p.pkt.payload \in Seq(Byte) /\ p.read \in Nat /\ p.len \in Nat
      /\ Len(p.pkt.payload) = p.len /\ p.read < p.len /\ p.len < 256
      BY DEF Parsers, Packets, ReadInv, ReadOK, Byte
<1> DEFINE all == [p.pkt.payload EXCEPT ![p.read + 1] = b]
           k == [p.pkt EXCEPT !.payload = all]
<1>2. all \in Seq(Byte) /\ Len(all) = p.len
      BY <1>1, ExceptSeq
<1>3. PayloadByte(p, b) = IF p.read + 1 >= p.len THEN Updated(p, k, 0, "Checksum")
                                                 ELSE Updated(p, k, p.read + 1, "Payload")
      BY DEF PayloadByte, Updated, Parsers
<1> HIDE DEF all
<1>4. k \in Packets /\ k.payload = all
      BY <1>1, <1>2 DEF Packets
<1> HIDE DEF k
<1>5. ReadOK("Checksum", 0, k, p.len) /\ 0 \in Byte /\ "Checksum" \in States
      BY DEF ReadOK, Byte, States
<1>6. ASSUME ~ (p.read + 1 >= p.len)
      PROVE  ReadOK("Payload", p.read + 1, k, p.len) /\ p.read + 1 \in Byte
      BY <1>1, <1>2, <1>4, <1>6 DEF ReadOK, Byte
<1>7. "Payload" \in States
      BY DEF States
<1> QED
    BY <1>3, <1>4, <1>5, <1>6, <1>7, UpdatedKeeps, Zenon

LEMMA ChecksumByteKeeps ==
    ASSUME NEW p \in Parsers, ReadInv(p), p.state = "Checksum", NEW b \in Byte, NEW c
    PROVE  ChecksumByte(c, p, b) \in Parsers /\ ReadInv(ChecksumByte(c, p, b))
<1>0. /\ 1 \in Byte /\ p.pkt \in Packets /\ p.read \in Byte
      /\ {"Start", "Checksum", "Forward"} \subseteq States
      BY DEF Byte, Parsers, States
<1>1. CASE p.read = 0
  <2> DEFINE v == b * 256
             k == [p.pkt EXCEPT !.sum = v]
             s == IF Foreign(c, p.pkt) THEN "Forward" ELSE "Checksum"
  <2>1. v \in HighByte /\ v \in Word
        BY FirstByte
  <2>2. ChecksumByte(c, p, b) = [p EXCEPT !.pkt.sum = v, !.read = 1, !.state = s]
        BY <1>1 DEF ChecksumByte, Field, Parsers
  <2> HIDE DEF v
  <2>3. s \in {"Checksum", "Forward"}
        OBVIOUS
  <2> HIDE DEF s
  <2>4. ChecksumByte(c, p, b) = Updated(p, k, 1, s)
        BY <2>2 DEF Updated, Parsers
  <2>5. k \in Packets /\ k.sum = v
        BY <1>0, <2>1, PacketType
  <2> HIDE DEF k
  <2>6. ReadOK(s, 1, k, p.len)
        BY <2>1, <2>3, <2>5 DEF ReadOK
  <2>7. s \in States
        BY <1>0, <2>3
  <2> QED
      BY <1>0, <2>4, <2>5, <2>6, <2>7, UpdatedKeeps, Zenon
<1>2. CASE p.read # 0
  <2> DEFINE v == p.pkt.sum + b
             k == [p.pkt EXCEPT !.sum = v]
  <2>1. v \in Word
        BY <1>2, SecondByte DEF ReadInv, ReadOK
  <2>2. ChecksumByte(c, p, b) = [p EXCEPT !.pkt.sum = v, !.state = "Start"]
        BY <1>2 DEF ChecksumByte, Field
  <2> HIDE DEF v
  <2>3. ChecksumByte(c, p, b) = Updated(p, k, p.read, "Start")
        BY <2>2 DEF Updated, Parsers
  <2>4. k \in Packets
        BY <1>0, <2>1, PacketType
  <2> HIDE DEF k
  <2>5. ReadOK("Start", p.read, k, p.len) /\ "Start" \in States
        BY <1>0 DEF ReadOK
  <2> QED
      BY <1>0, <2>3, <2>4, <2>5, UpdatedKeeps, Zenon
<1> QED
    BY <1>1, <1>2

\* parse_byte keeps the parser sound, whatever the byte.
LEMMA ParseByteKeeps ==
    ASSUME NEW p \in Parsers, ReadInv(p), NEW b \in Byte, NEW c
    PROVE  parse_byte(c, p, b) \in Parsers /\ ReadInv(parse_byte(c, p, b))
<1> DEFINE r == Recorded(p, b)
<1>1. r \in Parsers /\ ReadInv(r) /\ r.state = p.state
      BY RecordedKeeps
<1> HIDE DEF r
<1>2. CASE p.state = "Start"
      BY <1>2, StartByteKeeps DEF parse_byte
<1>3. CASE p.state = "System"
  <2>1. parse_byte(c, p, b) = SystemByte(r, b)
        BY <1>3 DEF parse_byte, r
  <2> QED
      BY <1>1, <1>3, <2>1, HeaderByteKeeps
<1>4. CASE p.state = "MsgHigh"
  <2>1. parse_byte(c, p, b) = ComponentByte(r, b)
        BY <1>4 DEF parse_byte, r
  <2> QED
      BY <1>1, <1>4, <2>1, HeaderByteKeeps
<1>5. CASE p.state = "MsgLow"
  <2>1. parse_byte(c, p, b) = MessageByte(r, b)
        BY <1>5 DEF parse_byte, r
  <2> QED
      BY <1>1, <1>5, <2>1, HeaderByteKeeps
<1>6. CASE p.state = "Length"
  <2>1. parse_byte(c, p, b) = LengthByte(c, r, b)
        BY <1>6 DEF parse_byte, r
  <2> QED
      BY <1>1, <1>6, <2>1, LengthByteKeeps
<1>7. CASE p.state = "Payload"
  <2>1. parse_byte(c, p, b) = PayloadByte(r, b)
        BY <1>7 DEF parse_byte, r
  <2> QED
      BY <1>1, <1>7, <2>1, PayloadByteKeeps
<1>8. CASE p.state = "Checksum"
      BY <1>8, ChecksumByteKeeps DEF parse_byte
<1>9. CASE p.state = "Forward"
      BY <1>9 DEF parse_byte, Parsers, ReadInv, ReadOK
<1> QED
    BY <1>2, <1>3, <1>4, <1>5, <1>6, <1>7, <1>8, <1>9 DEF Parsers

-----------------------------------------------------------------------------
(* The pool and the workers *)

LEMMA NewParserSound == NewParser \in Parsers /\ ReadInv(NewParser)
<1>1. NoPacket \in Packets /\ 0 \in Byte /\ <<>> \in Seq(Byte)
      BY DEF NoPacket, Packets, Byte, Word
<1> QED
    BY <1>1 DEF NewParser, Parsers, ReadInv, ReadOK

LEMMA InitIInv == ASSUME Init PROVE IInv
<1>1. PoolInv
      BY DEF Init, PoolInv, Jobs, NoJob
<1>2. ParsersInv
      BY NewParserSound, ReceiveAssumption DEF Init, ParsersInv
<1>3. ArrivedInv
      BY ReceiveAssumption DEF Init, ArrivedInv
<1> QED
    BY <1>1, <1>2, <1>3 DEF IInv

\* A datagram arrives.
LEMMA ArriveKeeps ==
    ASSUME IInv, NEW c \in Conns, Arrive(c) PROVE IInv'
<1>1. PICK m \in Messages :
        /\ Wire[m] # <<>>
        /\ queue' = Append(queue, [conn |-> c, bytes |-> Wire[m], next |-> 1])
        /\ arrived' = [arrived EXCEPT ![c] = Append(@, m)]
      BY DEF Arrive
<1>2. UNCHANGED <<pc, job, parsers>> /\ Len(arrived[c]) < MaxArrivals
      BY DEF Arrive
<1>3. [conn |-> c, bytes |-> Wire[m], next |-> 1] \in Datagrams
      BY <1>1, ReceiveAssumption DEF Datagrams
<1>4. PoolInv'
      BY <1>1, <1>2, <1>3, AppendProperties DEF IInv, PoolInv
<1>5. ParsersInv'
      BY <1>2 DEF IInv, ParsersInv
<1>6. ArrivedInv'
      BY <1>1, <1>2, ReceiveAssumption DEF IInv, ArrivedInv
<1> QED
    BY <1>4, <1>5, <1>6 DEF IInv

\* A worker takes the first datagram, and looks for its parser.
LEMMA TakeKeeps ==
    ASSUME IInv, NEW w \in Workers, Take(w) PROVE IInv'
<1>1. Head(queue) \in Datagrams /\ Tail(queue) \in Seq(Datagrams)
      BY HeadTailProperties DEF Take, IInv, PoolInv
<1>2. PICK d \in Datagrams : d = Head(queue)
      BY <1>1
<1>3. d \in Jobs /\ d.conn \in Conns /\ d.next \in 1..Len(d.bytes)
  <2>1. d.bytes \in Seq(Byte) /\ d.bytes # <<>>
        BY DEF Datagrams
  <2>2. Len(d.bytes) \in Nat /\ Len(d.bytes) # 0
        BY <2>1
  <2> QED
      BY <2>2 DEF Datagrams, Jobs
<1>4. PoolInv'
      BY <1>1, <1>2, <1>3 DEF Take, IInv, PoolInv
<1>5. ParsersInv' /\ ArrivedInv'
      BY DEF Take, IInv, ParsersInv, ArrivedInv
<1> QED
    BY <1>4, <1>5 DEF IInv

LEMMA LookupKeeps ==
    ASSUME IInv, NEW w \in Workers, Lookup(w) \/ Create(w) PROVE IInv'
<1>1. PoolInv'
      BY DEF Lookup, Create, IInv, PoolInv
<1>2. ArrivedInv'
      BY DEF Lookup, Create, IInv, ArrivedInv
<1>3. CASE Lookup(w)
      BY <1>1, <1>2, <1>3 DEF Lookup, IInv, ParsersInv
<1>4. CASE Create(w)
  <2>1. job[w].conn \in Conns
        BY <1>4 DEF Create, IInv, PoolInv
  <2>2. ParsersInv'
        BY <1>4, <2>1, NewParserSound DEF Create, IInv, ParsersInv
  <2> QED
      BY <1>1, <1>2, <2>2 DEF IInv
<1> QED
    BY <1>3, <1>4

\* One byte goes into the parser.
LEMMA ParseKeeps ==
    ASSUME IInv, NEW w \in Workers, Parse(w) PROVE IInv'
<1> DEFINE c == job[w].conn
           b == job[w].bytes[job[w].next]
           q == parse_byte(c, parsers[c], b)
<1>1. /\ pc[w] = "parse" /\ parsers' = [parsers EXCEPT ![c] = q]
      /\ UNCHANGED <<queue, arrived>>
      /\ IF job[w].next = Len(job[w].bytes)
         THEN /\ pc' = [pc EXCEPT ![w] = "idle"]
              /\ job' = [job EXCEPT ![w] = NoJob]
         ELSE /\ job' = [job EXCEPT ![w].next = @ + 1]
              /\ UNCHANGED pc
      BY DEF Parse
<1>2. job[w] \in Jobs /\ job[w].next \in 1..Len(job[w].bytes)
      BY <1>1 DEF IInv, PoolInv
<1>3. b \in Byte
      BY <1>2 DEF Jobs
<1> HIDE DEF b
<1>4. c \in DOMAIN parsers => q \in Parsers /\ ReadInv(q)
      BY <1>3, ParseByteKeeps DEF IInv, ParsersInv
<1> HIDE DEF c, q
<1>5. ParsersInv'
      BY <1>1, <1>4 DEF IInv, ParsersInv
<1>6. PoolInv'
  <2>1. CASE job[w].next = Len(job[w].bytes)
    <3>1. NoJob \in Jobs
          BY DEF NoJob, Jobs
    <3> QED
        BY <1>1, <2>1, <3>1 DEF IInv, PoolInv
  <2>2. CASE job[w].next # Len(job[w].bytes)
    <3> DEFINE j == [job[w] EXCEPT !.next = @ + 1]
    <3>1. /\ j \in Jobs /\ j.conn = job[w].conn /\ j.bytes = job[w].bytes
          /\ j.next \in 1..Len(j.bytes)
          BY <1>2, <2>2 DEF Jobs
    <3>2. job' = [job EXCEPT ![w] = j] /\ UNCHANGED pc
          BY <1>1, <2>2
    <3> HIDE DEF j
    <3> QED
        BY <1>1, <3>1, <3>2 DEF IInv, PoolInv
  <2> QED
      BY <2>1, <2>2
<1>7. ArrivedInv'
      BY <1>1 DEF IInv, ArrivedInv
<1> QED
    BY <1>5, <1>6, <1>7 DEF IInv

-----------------------------------------------------------------------------
(* Theorems *)

LEMMA NextIInv == ASSUME IInv, [Next]_vars PROVE IInv'
<1>1. CASE UNCHANGED vars
      BY <1>1 DEF vars, IInv, PoolInv, ParsersInv, ArrivedInv
<1> QED
    BY <1>1, ArriveKeeps, TakeKeeps, LookupKeeps, ParseKeeps DEF Next

\* Of each connection at most one datagram is under way.
OneAtATime ==
    /\ \A i, j \in 1..Len(queue) : queue[i].conn = queue[j].conn => i = j
    /\ \A i \in 1..Len(queue), v \in Workers :
            pc[v] # "idle" => job[v].conn # queue[i].conn
    /\ \A u, v \in Workers :
            pc[u] # "idle" /\ pc[v] # "idle" /\ job[u].conn = job[v].conn => u = v

\* A datagram of a connection that has none under way.
LEMMA ArriveAlone ==
    ASSUME IInv, OneAtATime, Paced, NEW c \in Conns, Arrive(c)
    PROVE  OneAtATime'
<1>1. PICK e : e.conn = c /\ queue' = Append(queue, e)
  BY DEF Arrive
<1>2. ~Pending(c) /\ UNCHANGED <<pc, job>>
  BY DEF Arrive
<1>3. /\ \A i \in 1..Len(queue) : queue[i].conn # c
      /\ \A v \in Workers : pc[v] # "idle" => job[v].conn # c
  BY <1>2 DEF Pending
<1>4. /\ Len(queue) \in Nat /\ Len(queue') = Len(queue) + 1
      /\ \A i \in 1..Len(queue) : queue'[i] = queue[i]
      /\ queue'[Len(queue) + 1] = e
  <2>1. queue \in Seq(Datagrams \cup {e})
    <3>1. Datagrams \subseteq Datagrams \cup {e} /\ queue \in Seq(Datagrams)
      BY DEF IInv, PoolInv
    <3> QED
      BY <3>1, SeqMonotonic
  <2> QED
    BY <1>1, <2>1, AppendProperties
<1>5. \A i \in 1..Len(queue') : i \in 1..Len(queue) \/ i = Len(queue) + 1
  BY <1>4
<1> QED
  BY <1>1, <1>2, <1>3, <1>4, <1>5 DEF OneAtATime

\* A datagram leaves the queue for a worker.
LEMMA TakeAlone ==
    ASSUME IInv, OneAtATime, NEW w \in Workers, Take(w)
    PROVE  OneAtATime'
<1>1. queue # <<>> /\ queue' = Tail(queue)
  BY DEF Take
<1>2. PICK e : e = Head(queue)
  OBVIOUS
<1>3. /\ Len(queue) \in Nat /\ Len(queue) >= 1 /\ Len(queue') = Len(queue) - 1
      /\ \A i \in 1..Len(queue') : queue'[i] = queue[i + 1]
      /\ e = queue[1]
  <2>1. queue \in Seq(Datagrams)
    BY DEF IInv, PoolInv
  <2>2. /\ Len(queue) \in Nat /\ Len(queue) >= 1 /\ Len(queue') = Len(queue) - 1
        /\ \A i \in 1..Len(queue') : queue'[i] = queue[i + 1]
    BY <1>1, <2>1, HeadTailProperties
  <2>3. Head(queue) = queue[1]
    BY <1>1, <2>1
  <2> QED
    BY <1>2, <2>2, <2>3
<1>4. 1 \in 1..Len(queue) /\ \A i \in 1..Len(queue') : i + 1 \in 1..Len(queue) /\ i + 1 # 1
  BY <1>3
<1>5. /\ pc'[w] = "lookup" /\ job'[w] = e
      /\ \A v \in Workers : v # w => pc'[v] = pc[v] /\ job'[v] = job[v]
  BY <1>2 DEF Take, IInv, PoolInv
<1>6. \A i, j \in 1..Len(queue') : queue'[i].conn = queue'[j].conn => i = j
  <2> SUFFICES ASSUME NEW i \in 1..Len(queue'), NEW j \in 1..Len(queue'),
                      queue'[i].conn = queue'[j].conn
               PROVE  i = j
    OBVIOUS
  <2>1. i + 1 = j + 1
    BY <1>3, <1>4 DEF OneAtATime
  <2> QED
    BY <2>1
<1>7. ASSUME NEW i \in 1..Len(queue'), NEW v \in Workers, pc'[v] # "idle"
      PROVE  job'[v].conn # queue'[i].conn
  <2>1. CASE v = w
    BY <1>3, <1>4, <1>5, <2>1 DEF OneAtATime
  <2>2. CASE v # w
    BY <1>3, <1>4, <1>5, <1>7, <2>2 DEF OneAtATime
  <2> QED
    BY <2>1, <2>2
<1>8. ASSUME NEW u \in Workers, NEW v \in Workers, pc'[u] # "idle", pc'[v] # "idle",
             job'[u].conn = job'[v].conn
      PROVE  u = v
  <2>1. CASE u # w /\ v # w
    BY <1>5, <1>8, <2>1 DEF OneAtATime
  <2>2. CASE u = w \/ v = w
    BY <1>3, <1>4, <1>5, <1>8, <2>2 DEF OneAtATime
  <2> QED
    BY <2>1, <2>2
<1> QED
  BY <1>6, <1>7, <1>8 DEF OneAtATime

\* A worker that is at a datagram goes on with it or ends.
LEMMA SameAlone ==
    ASSUME OneAtATime, UNCHANGED queue,
           \A v \in Workers : pc'[v] # "idle" => pc[v] # "idle" /\ job'[v].conn = job[v].conn
    PROVE  OneAtATime'
BY DEF OneAtATime

\* A parser that is unshared before a step of paced peers is so after it.
LEMMA NextAlone ==
    ASSUME IInv, OneAtATime, Paced, [Next]_vars
    PROVE  OneAtATime'
<1>1. CASE UNCHANGED vars
  BY <1>1, SameAlone DEF vars
<1>2. ASSUME NEW w \in Workers, Lookup(w) \/ Create(w) PROVE OneAtATime'
  BY <1>2, SameAlone DEF Lookup, Create, IInv, PoolInv
<1>3. ASSUME NEW w \in Workers, Parse(w) PROVE OneAtATime'
  <2>1. UNCHANGED queue /\ pc[w] = "parse" /\ job[w] \in Jobs
    BY <1>3 DEF Parse, IInv, PoolInv
  <2>2. CASE job[w].next = Len(job[w].bytes)
    BY <1>3, <2>1, <2>2, SameAlone DEF Parse, IInv, PoolInv
  <2>3. CASE job[w].next # Len(job[w].bytes)
    <3>1. UNCHANGED pc /\ job' = [job EXCEPT ![w].next = @ + 1]
      BY <1>3, <2>3 DEF Parse
    <3>2. PICK j : j = [job[w] EXCEPT !.next = @ + 1]
      OBVIOUS
    <3>3. job' = [job EXCEPT ![w] = j] /\ j.conn = job[w].conn
      BY <2>1, <3>1, <3>2 DEF Jobs
    <3>4. \A v \in Workers : job'[v].conn = job[v].conn
      BY <3>3 DEF IInv, PoolInv
    <3> QED
      BY <2>1, <3>1, <3>4, SameAlone
  <2> QED
    BY <2>2, <2>3
<1> QED
  BY <1>1, <1>2, <1>3, ArriveAlone, TakeAlone DEF Next

\* What holds of peers that wait.
PacedInv == IInv /\ OneAtATime

LEMMA AlwaysPacedInv == Paced => (Spec => []PacedInv)
<1> SUFFICES ASSUME Paced PROVE Spec => []PacedInv
  OBVIOUS
<1>1. Init => PacedInv
  <2> SUFFICES ASSUME Init PROVE PacedInv
    OBVIOUS
  <2>1. Len(queue) = 0 /\ 1..0 = {} /\ \A v \in Workers : pc[v] = "idle"
    BY DEF Init
  <2> QED
    BY <2>1, InitIInv DEF PacedInv, OneAtATime
<1>2. PacedInv /\ [Next]_vars => PacedInv'
  BY NextIInv, NextAlone DEF PacedInv
<1> QED
  BY <1>1, <1>2, PTL DEF Spec

\* Parsers, queue and jobs stay well-formed, whatever bytes peers that wait send:
\* the 16-bit fields of a packet and _bytes_read never overflow, and a worker's
\* index never leaves its datagram.
THEOREM TypeCorrect == Paced => (Spec => []TypeOK)
<1>1. IInv => TypeOK
  <2> SUFFICES ASSUME IInv PROVE TypeOK
      OBVIOUS
  <2>1. queue \in Seq([conn : Conns, bytes : Seq(Byte), next : {1}])
    <3>1. Datagrams \subseteq [conn : Conns, bytes : Seq(Byte), next : {1}]
          BY DEF Datagrams
    <3> QED
        BY <3>1, SeqMonotonic DEF IInv, PoolInv
  <2> QED
      BY <2>1 DEF IInv, PoolInv, ParsersInv, ArrivedInv, TypeOK, Jobs
<1>2. PacedInv => TypeOK
      BY <1>1 DEF PacedInv
<1> QED
    BY <1>2, AlwaysPacedInv, PTL

\* When peers wait, no two workers are in one parser, and parse_byte never
\* writes past the payload it resized, whatever bytes arrive and for any number
\* of workers and connections.
THEOREM PayloadInBounds == Paced => (Spec => []PayloadIndexInBounds)
<1>1. PacedInv => PayloadIndexInBounds
  <2> SUFFICES ASSUME PacedInv, NEW c \in DOMAIN parsers
               PROVE  /\ \A v, w \in Workers :
                            AtParser(v, c) /\ AtParser(w, c) => v = w
                      /\ parsers[c].state = "Payload" =>
                            parsers[c].read < Len(parsers[c].pkt.payload)
      BY DEF PayloadIndexInBounds
  <2>1. \A v, w \in Workers : AtParser(v, c) /\ AtParser(w, c) => v = w
        BY DEF PacedInv, OneAtATime, AtParser
  <2> QED
      BY <2>1 DEF PacedInv, IInv, ParsersInv, ReadInv, ReadOK
<1> QED
    BY <1>1, AlwaysPacedInv, PTL

-----------------------------------------------------------------------------
(* The checksum and the flattened effects, as recursive functions *)

\* Every set of numbers has a least one: the induction of this module is over
\* the least counterexample.
LEMMA LeastNumber ==
    ASSUME NEW T \in SUBSET Nat, T # {}
    PROVE  \E m \in T : \A k \in T : m <= k
<1> DEFINE R == {ss \in Nat \X Nat : ss[1] < ss[2]}
<1>1. IsWellFoundedOn(R, Nat)
  BY NatLessThanWellFounded DEF OpToRel
<1>2. \A x, y \in Nat : x < y => <<x, y>> \in R
  OBVIOUS
<1> HIDE DEF R
<1>3. PICK x \in T : \A y \in T : ~ (<<y, x>> \in R)
  BY <1>1, WFMin
<1>4. ASSUME NEW k \in T PROVE x <= k
  <2>1. <<k, x>> \notin R
    BY <1>3
  <2> QED
    BY <1>2, <2>1
<1> QED
  BY <1>4

\* Induction over the natural numbers, for a set of them.
LEMMA Induction ==
    ASSUME NEW T \in SUBSET Nat, 0 \in T, \A n \in T : n + 1 \in T
    PROVE  T = Nat
<1> SUFFICES ASSUME T # Nat PROVE FALSE
  OBVIOUS
<1>1. PICK m \in Nat \ T : \A k \in Nat \ T : m <= k
  BY LeastNumber
<1>2. m # 0 /\ m - 1 \in Nat
  BY <1>1
<1>3. m - 1 \in T
  BY <1>1, <1>2
<1> QED
  BY <1>1, <1>3

(* The checksum *)

\* The sum over a set of positions, from the highest one down.
Plus(a, b) == (a + b) % 65536

\* The fold of the checksum, as a function of the set of the indices summed so
\* far: its value at s.
Entry(g, bytes, s) ==
    IF s = {} THEN 0 ELSE Plus(g[s \ {Max(s)}], bytes[Max(s)])

\* Function g is that fold, at every set of indices.
Summed(g, bytes, S) == g = [s \in SUBSET S |-> Entry(g, bytes, s)]

LEMMA SummedAt ==
    ASSUME NEW g, NEW bytes, NEW S, Summed(g, bytes, S), NEW s, s \in SUBSET S
    PROVE  g[s] = Entry(g, bytes, s)
<1> DEFINE e(t) == Entry(g, bytes, t)
<1>1. g = [t \in SUBSET S |-> e(t)]
  BY DEF Summed
<1> HIDE DEF e
<1>2. g[s] = e(s)
  BY <1>1
<1> QED
  BY <1>2 DEF e

LEMMA SummedBy ==
    ASSUME NEW g, NEW bytes, NEW S, g = [s \in SUBSET S |-> g[s]],
           \A s \in SUBSET S : g[s] = Entry(g, bytes, s)
    PROVE  Summed(g, bytes, S)
<1> DEFINE e(t) == Entry(g, bytes, t)
<1>1. \A s \in SUBSET S : g[s] = e(s)
  OBVIOUS
<1> HIDE DEF e
<1>2. g = [t \in SUBSET S |-> e(t)]
  BY <1>1
<1> QED
  BY <1>2 DEF e, Summed

\* The checksum is the value of the fold at all indices.
LEMMA ChecksumIs ==
    ASSUME NEW bytes
    PROVE  checksum(bytes) = (CHOOSE g : Summed(g, bytes, DOMAIN bytes))[DOMAIN bytes]
BY DEF checksum, FoldLeft, MapThenFoldSet, Summed, Entry, Plus

\* The index the fold takes last.
LEMMA MaxIs ==
    ASSUME NEW n \in Nat, NEW s \in SUBSET (1..n), s # {}
    PROVE  Max(s) \in s /\ \A y \in s : Max(s) >= y
<1> DEFINE T == {k \in Nat : \A t \in SUBSET (1..k) : t # {} => \E x \in t : \A y \in t : x >= y}
<1>1. 0 \in T
  <2>1. \A t \in SUBSET (1..0) : t = {}
    OBVIOUS
  <2> QED
    BY <2>1, Zenon
<1>2. ASSUME NEW k \in T PROVE k + 1 \in T
  <2> SUFFICES ASSUME NEW t \in SUBSET (1..(k + 1)), t # {}
               PROVE  \E x \in t : \A y \in t : x >= y
    OBVIOUS
  <2>1. CASE k + 1 \in t
    BY <2>1
  <2>2. CASE k + 1 \notin t
    <3>1. t \in SUBSET (1..k)
      BY <2>2
    <3> QED
      BY <3>1
  <2> QED
    BY <2>1, <2>2
<1> HIDE DEF T
<1>3. T = Nat
  <2>1. T \in SUBSET Nat
    BY DEF T
  <2> QED
    BY <1>1, <1>2, <2>1, Induction
<1>4. \E x \in s : \A y \in s : x >= y
  BY <1>3 DEF T
<1> QED
  BY <1>4 DEF Max

\* There is such a fold, for any number of bytes.
LEMMA SummedExists ==
    ASSUME NEW bytes, NEW n \in Nat
    PROVE  \E g : Summed(g, bytes, 1..n)
<1> DEFINE T == {k \in Nat : \E g : Summed(g, bytes, 1..k)}
<1>1. 0 \in T
  <2> DEFINE g == [s \in SUBSET (1..0) |-> 0]
  <2>1. Summed(g, bytes, 1..0)
    <3>1. \A s \in SUBSET (1..0) : s = {}
      OBVIOUS
    <3>2. \A s \in SUBSET (1..0) : g[s] = Entry(g, bytes, s)
      BY <3>1 DEF Entry
    <3>3. g = [s \in SUBSET (1..0) |-> g[s]]
      OBVIOUS
    <3> HIDE DEF g
    <3> QED
      BY <3>2, <3>3, SummedBy
  <2> HIDE DEF g
  <2> QED
    BY <2>1
<1>2. ASSUME NEW k \in T PROVE k + 1 \in T
  <2>1. k \in Nat
    OBVIOUS
  <2>2. PICK g : Summed(g, bytes, 1..k)
    OBVIOUS
  <2> DEFINE h == [s \in SUBSET (1..(k + 1)) |->
                    IF k + 1 \in s THEN Plus(g[s \ {k + 1}], bytes[k + 1])
                                   ELSE g[s]]
  <2>3. ASSUME NEW s \in SUBSET (1..(k + 1))
        PROVE  h[s] = Entry(h, bytes, s)
    <3>1. CASE k + 1 \in s
      <4>1. Max(s) = k + 1
        <5>1. k + 1 \in Nat /\ s # {}
          BY <2>1, <3>1
        <5>2. Max(s) \in s /\ Max(s) >= k + 1
          BY <3>1, <5>1, MaxIs
        <5>3. Max(s) \in 1..(k + 1)
          BY <5>2
        <5> QED
          BY <5>2, <5>3, <2>1
      <4>2. s \ {k + 1} \in SUBSET (1..k) /\ k + 1 \notin s \ {k + 1}
        BY <2>1
      <4>3. s \ {k + 1} \in SUBSET (1..(k + 1))
        OBVIOUS
      <4>4. h[s \ {k + 1}] = g[s \ {k + 1}]
        BY <4>2, <4>3
      <4>5. h[s] = Plus(g[s \ {k + 1}], bytes[k + 1])
        BY <3>1
      <4> HIDE DEF h
      <4> QED
        BY <3>1, <4>1, <4>4, <4>5 DEF Entry
    <3>2. CASE k + 1 \notin s
      <4>1. s \in SUBSET (1..k)
        BY <2>1, <3>2
      <4>2. h[s] = g[s]
        BY <3>2
      <4>3. g[s] = Entry(g, bytes, s)
        BY <2>2, <4>1, SummedAt
      <4>4. k + 1 \notin s \ {Max(s)} /\ s \ {Max(s)} \in SUBSET (1..(k + 1))
        BY <3>2
      <4>5. h[s \ {Max(s)}] = g[s \ {Max(s)}]
        BY <4>4
      <4> HIDE DEF h
      <4> QED
        BY <4>2, <4>3, <4>5 DEF Entry
    <3> QED
      BY <3>1, <3>2
  <2>4. h = [s \in SUBSET (1..(k + 1)) |-> h[s]]
    OBVIOUS
  <2> HIDE DEF h
  <2>5. Summed(h, bytes, 1..(k + 1))
    BY <2>3, <2>4, SummedBy
  <2> QED
    BY <2>1, <2>5
<1> HIDE DEF T
<1>3. T = Nat
  <2>1. T \in SUBSET Nat
    BY DEF T
  <2> QED
    BY <1>1, <1>2, <2>1, Induction
<1> QED
  BY <1>3 DEF T

\* A checksum is a uint16_t.
LEMMA ChecksumType ==
    ASSUME NEW bytes \in Seq(Byte)
    PROVE  checksum(bytes) \in Word
<1> DEFINE n == Len(bytes)
           g == CHOOSE g : Summed(g, bytes, 1..n)
<1>1. n \in Nat /\ DOMAIN bytes = 1..n
  OBVIOUS
<1>2. Summed(g, bytes, 1..n)
  BY <1>1, SummedExists
<1>3. checksum(bytes) = g[1..n]
  BY <1>1, ChecksumIs
<1> HIDE DEF g
<1> DEFINE T == {k \in Nat : k <= n => g[1..k] \in Word}
<1>4. 0 \in T
  <2>1. 1..0 = {} /\ {} \in SUBSET (1..n)
    OBVIOUS
  <2>2. g[{}] = 0
    BY <1>2, <2>1, SummedAt, Zenon DEF Entry
  <2> QED
    BY <2>1, <2>2 DEF Word
<1>5. ASSUME NEW k \in T PROVE k + 1 \in T
  <2> SUFFICES ASSUME k + 1 <= n PROVE g[1..(k + 1)] \in Word
    OBVIOUS
  <2>1. k \in Nat /\ k + 1 \in Nat /\ g[1..k] \in Word
    BY <1>1
  <2> DEFINE s == 1..(k + 1)
  <2>2. s \in SUBSET (1..n) /\ s # {} /\ k + 1 \in s /\ s \in SUBSET (1..(k + 1))
    <3>1. \A i \in 1..(k + 1) : i \in 1..n
      BY <1>1, <2>1
    <3>2. k + 1 \in 1..(k + 1)
      BY <2>1
    <3> QED
      BY <3>1, <3>2
  <2>3. Max(s) = k + 1
    <3>1. Max(s) \in s /\ Max(s) >= k + 1
      BY <2>1, <2>2, MaxIs
    <3> QED
      BY <3>1, <2>1
  <2>4. s \ {k + 1} = 1..k
    BY <2>1
  <2> HIDE DEF s
  <2>5. g[s] = Plus(g[1..k], bytes[k + 1])
    <3>1. g[s] = Entry(g, bytes, s)
      BY <1>2, <2>2, SummedAt
    <3> QED
      BY <2>2, <2>3, <2>4, <3>1, Zenon DEF Entry
  <2>6. bytes[k + 1] \in Byte
    BY <1>1, <2>1
  <2>7. g[1..k] + bytes[k + 1] \in Nat
    BY <2>1, <2>6 DEF Word, Byte
  <2>8. Plus(g[1..k], bytes[k + 1]) \in Word
    BY <2>7 DEF Word, Plus
  <2> QED
    BY <2>5, <2>8 DEF s
<1> HIDE DEF T
<1>6. T = Nat
  <2>1. T \in SUBSET Nat
    BY DEF T
  <2> QED
    BY <1>4, <1>5, <2>1, Induction
<1> QED
  BY <1>1, <1>3, <1>6 DEF T

(* FlattenSeq *)

\* The recursive function of FlattenSeq: its value at i.
Joined(f, ss, i) == IF i = 1 THEN ss[i] ELSE f[i - 1] \o ss[i]

\* Function f is the one FlattenSeq chooses for the first n sequences of ss.
Flattens(f, ss, n) == f = [i \in 1..n |-> Joined(f, ss, i)]

Flattener(ss, n) == CHOOSE f : Flattens(f, ss, n)

LEMMA FlattenIs ==
    ASSUME NEW ss
    PROVE  FlattenSeq(ss) = IF Len(ss) = 0 THEN ss ELSE Flattener(ss, Len(ss))[Len(ss)]
BY DEF FlattenSeq, Flattener, Flattens, Joined

LEMMA FlattensAt ==
    ASSUME NEW f, NEW ss, NEW n, Flattens(f, ss, n), NEW i, i \in 1..n
    PROVE  f[i] = Joined(f, ss, i)
<1> DEFINE e(j) == Joined(f, ss, j)
<1>1. f = [j \in 1..n |-> e(j)]
  BY DEF Flattens
<1> HIDE DEF e
<1>2. f[i] = e(i)
  BY <1>1
<1> QED
  BY <1>2 DEF e

LEMMA FlattensBy ==
    ASSUME NEW f, NEW ss, NEW n, f = [i \in 1..n |-> f[i]],
           \A i \in 1..n : f[i] = Joined(f, ss, i)
    PROVE  Flattens(f, ss, n)
<1> DEFINE e(j) == Joined(f, ss, j)
<1>1. \A i \in 1..n : f[i] = e(i)
  OBVIOUS
<1> HIDE DEF e
<1>2. f = [j \in 1..n |-> e(j)]
  BY <1>1
<1> QED
  BY <1>2 DEF e, Flattens

\* There is such a function, for any number of sequences.
LEMMA FlattensExists ==
    ASSUME NEW ss, NEW n \in Nat
    PROVE  \E f : Flattens(f, ss, n)
<1> DEFINE T == {k \in Nat : \E f : Flattens(f, ss, k)}
<1>1. 0 \in T
  <2> DEFINE f == [i \in 1..0 |-> 0]
  <2>1. f = [i \in 1..0 |-> f[i]] /\ 1..0 = {}
    OBVIOUS
  <2> HIDE DEF f
  <2>2. Flattens(f, ss, 0)
    BY <2>1, FlattensBy
  <2> QED
    BY <2>2
<1>2. ASSUME NEW k \in T PROVE k + 1 \in T
  <2>1. k \in Nat
    OBVIOUS
  <2>2. PICK f : Flattens(f, ss, k)
    OBVIOUS
  <2> DEFINE h == [i \in 1..(k + 1) |-> IF i = k + 1 THEN Joined(f, ss, k + 1) ELSE f[i]]
  <2>3. ASSUME NEW i \in 1..(k + 1)
        PROVE  h[i] = Joined(h, ss, i)
    <3>1. i # 1 => h[i - 1] = f[i - 1]
      <4>1. i # 1 => i - 1 \in 1..(k + 1) /\ i - 1 # k + 1
        BY <2>1
      <4> QED
        BY <4>1
    <3>2. Joined(h, ss, i) = Joined(f, ss, i)
      BY <3>1 DEF Joined
    <3>3. i # k + 1 => f[i] = Joined(f, ss, i)
      <4>1. i # k + 1 => i \in 1..k
        BY <2>1
      <4> QED
        BY <2>2, <4>1, FlattensAt
    <3>4. h[i] = IF i = k + 1 THEN Joined(f, ss, k + 1) ELSE f[i]
      OBVIOUS
    <3> HIDE DEF h
    <3> QED
      BY <3>2, <3>3, <3>4
  <2>4. h = [i \in 1..(k + 1) |-> h[i]]
    OBVIOUS
  <2> HIDE DEF h
  <2>5. Flattens(h, ss, k + 1)
    BY <2>3, <2>4, FlattensBy
  <2> QED
    BY <2>1, <2>5
<1> HIDE DEF T
<1>3. T = Nat
  <2>1. T \in SUBSET Nat
    BY DEF T
  <2> QED
    BY <1>1, <1>2, <2>1, Induction
<1> QED
  BY <1>3 DEF T

LEMMA FlattenerIs ==
    ASSUME NEW ss, NEW n, n \in Nat
    PROVE  Flattens(Flattener(ss, n), ss, n)
BY FlattensExists DEF Flattener

SameUpTo(f, g, n) == \A i \in 1..n : f[i] = g[i]

\* Two flattenings agree as far as their sequences do.
LEMMA FlattensAgree ==
    ASSUME NEW f, NEW ss, NEW n, NEW g, NEW tt, NEW m, n \in Nat, m \in Nat, n <= m,
           Flattens(f, ss, n), Flattens(g, tt, m), SameUpTo(ss, tt, n)
    PROVE  SameUpTo(f, g, n)
<1> DEFINE T == {k \in Nat : k + 1 \in 1..n => f[k + 1] = g[k + 1]}
<1>1. ASSUME NEW i \in 1..n
      PROVE  f[i] = Joined(f, ss, i) /\ g[i] = Joined(g, tt, i) /\ ss[i] = tt[i]
  <2>1. i \in 1..n /\ i \in 1..m /\ ss[i] = tt[i]
    BY DEF SameUpTo
  <2> QED
    BY <2>1, FlattensAt
<1>2. 0 \in T
  <2> SUFFICES ASSUME 0 + 1 \in 1..n PROVE f[0 + 1] = g[0 + 1]
    OBVIOUS
  <2>1. 1 \in 1..n /\ 0 + 1 = 1
    OBVIOUS
  <2>2. f[1] = g[1]
    BY <2>1, <1>1 DEF Joined
  <2> QED
    BY <2>1, <2>2
<1>3. ASSUME NEW k \in T PROVE k + 1 \in T
  <2>1. k \in Nat
    OBVIOUS
  <2> SUFFICES ASSUME k + 1 + 1 \in 1..n PROVE f[k + 1 + 1] = g[k + 1 + 1]
    BY <2>1
  <2>2. PICK i \in 1..n : i = k + 1 + 1
    OBVIOUS
  <2>3. i # 1 /\ i - 1 = k + 1 /\ k + 1 \in 1..n
    BY <2>1, <2>2
  <2>4. f[i - 1] = g[i - 1]
    BY <2>3
  <2>5. f[i] = g[i]
    BY <1>1, <2>3, <2>4 DEF Joined
  <2> QED
    BY <2>2, <2>5
<1> HIDE DEF T
<1>4. T = Nat
  <2>1. T \in SUBSET Nat
    BY DEF T
  <2> QED
    BY <1>2, <1>3, <2>1, Induction
<1>5. ASSUME NEW i \in 1..n PROVE f[i] = g[i]
  <2>1. i - 1 \in Nat /\ i - 1 + 1 = i
    OBVIOUS
  <2>2. i - 1 \in T
    BY <1>4, <2>1
  <2> QED
    BY <2>1, <2>2 DEF T
<1> QED
  BY <1>5 DEF SameUpTo

\* What is flattened has the elements of the sequences.
LEMMA FlattensType ==
    ASSUME NEW S, NEW ss, NEW n, NEW f, n \in Nat, Flattens(f, ss, n),
           \A i \in 1..n : ss[i] \in Seq(S)
    PROVE  \A i \in 1..n : f[i] \in Seq(S)
<1> DEFINE T == {k \in Nat : k + 1 \in 1..n => f[k + 1] \in Seq(S)}
<1>1. ASSUME NEW i \in 1..n
      PROVE  f[i] = Joined(f, ss, i)
  BY FlattensAt
<1>2. 0 \in T
  <2> SUFFICES ASSUME 0 + 1 \in 1..n PROVE f[0 + 1] \in Seq(S)
    OBVIOUS
  <2>1. 1 \in 1..n /\ 0 + 1 = 1
    OBVIOUS
  <2>2. f[1] = ss[1]
    BY <2>1, <1>1 DEF Joined
  <2> QED
    BY <2>1, <2>2
<1>3. ASSUME NEW k \in T PROVE k + 1 \in T
  <2>1. k \in Nat
    OBVIOUS
  <2> SUFFICES ASSUME k + 1 + 1 \in 1..n PROVE f[k + 1 + 1] \in Seq(S)
    BY <2>1
  <2>2. PICK i \in 1..n : i = k + 1 + 1
    OBVIOUS
  <2>3. i # 1 /\ i - 1 = k + 1 /\ k + 1 \in 1..n
    BY <2>1, <2>2
  <2>4. f[i - 1] \in Seq(S)
    BY <2>3
  <2>5. f[i] = f[i - 1] \o ss[i]
    BY <1>1, <2>3 DEF Joined
  <2>6. f[i - 1] \o ss[i] \in Seq(S)
    BY <2>4, ConcatProperties
  <2> QED
    BY <2>2, <2>5, <2>6
<1> HIDE DEF T
<1>4. T = Nat
  <2>1. T \in SUBSET Nat
    BY DEF T
  <2> QED
    BY <1>2, <1>3, <2>1, Induction
<1>5. ASSUME NEW i \in 1..n PROVE f[i] \in Seq(S)
  <2>1. i - 1 \in Nat /\ i - 1 + 1 = i
    OBVIOUS
  <2>2. i - 1 \in T
    BY <1>4, <2>1
  <2> QED
    BY <2>1, <2>2 DEF T
<1> QED
  BY <1>5

\* A flattened sequence of sequences is a sequence.
LEMMA FlattenOne ==
    ASSUME NEW S, NEW ss, ss \in Seq(Seq(S))
    PROVE  FlattenSeq(ss) \in Seq(S)
<1>1. CASE Len(ss) = 0
  <2>1. ss = <<>> /\ FlattenSeq(ss) = ss
    BY <1>1, FlattenIs
  <2>2. <<>> \in Seq(S)
    OBVIOUS
  <2> QED
    BY <2>1, <2>2, Zenon
<1>2. CASE Len(ss) # 0
  <2> DEFINE n == Len(ss)
             f == Flattener(ss, n)
  <2>1. n \in Nat /\ n \in 1..n /\ \A i \in 1..n : ss[i] \in Seq(S)
    BY <1>2
  <2>2. Flattens(f, ss, n)
    BY <2>1, FlattenerIs
  <2>3. FlattenSeq(ss) = f[n]
    BY <1>2, FlattenIs
  <2> HIDE DEF f, n
  <2> QED
    BY <2>1, <2>2, <2>3, FlattensType
<1> QED
  BY <1>1, <1>2

\* One sequence more.
LEMMA FlattenAppend ==
    ASSUME NEW S, NEW ss, NEW t, ss \in Seq(Seq(S)), t \in Seq(S)
    PROVE  FlattenSeq(Append(ss, t)) = FlattenSeq(ss) \o t
<1> DEFINE tt == Append(ss, t)
           n == Len(ss)
           f == Flattener(ss, n)
           g == Flattener(tt, n + 1)
<1>1. /\ n \in Nat /\ tt \in Seq(Seq(S)) /\ Len(tt) = n + 1 /\ tt[n + 1] = t
      /\ \A i \in 1..n : ss[i] = tt[i]
  OBVIOUS
<1>2. Flattens(f, ss, n) /\ Flattens(g, tt, n + 1)
  <2>1. n \in Nat /\ n + 1 \in Nat
    BY <1>1
  <2> HIDE DEF tt, n
  <2> QED
    BY <2>1, FlattenerIs
<1>3. FlattenSeq(tt) = g[n + 1]
  <2> HIDE DEF tt
  <2>1. Len(tt) # 0
    BY <1>1
  <2> QED
    BY <1>1, <2>1, FlattenIs
<1>4. g[n + 1] = Joined(g, tt, n + 1)
  <2>1. n + 1 \in 1..(n + 1)
    BY <1>1
  <2> HIDE DEF g, tt
  <2> QED
    BY <1>2, <2>1, FlattensAt
<1>5. CASE n = 0
  <2>1. FlattenSeq(ss) = <<>>
    BY <1>5, FlattenIs
  <2>2. <<>> \o t = t
    OBVIOUS
  <2>3. n + 1 = 1
    BY <1>5
  <2> HIDE DEF g, tt, n
  <2>4. g[n + 1] = t
    BY <1>1, <1>4, <2>3 DEF Joined
  <2> QED
    BY <1>3, <2>1, <2>2, <2>4 DEF tt
<1>6. CASE n # 0
  <2>1. FlattenSeq(ss) = f[n]
    BY <1>6, FlattenIs
  <2>2. n \in 1..n /\ n + 1 # 1 /\ n + 1 - 1 = n /\ n <= n + 1 /\ n + 1 \in Nat
    BY <1>1, <1>6
  <2> HIDE DEF g, tt, n, f
  <2>3. f[n] = g[n]
    <3>1. SameUpTo(ss, tt, n)
      BY <1>1 DEF SameUpTo
    <3>2. SameUpTo(f, g, n)
      BY <1>1, <1>2, <2>2, <3>1, FlattensAgree
    <3> QED
      BY <2>2, <3>2 DEF SameUpTo
  <2>4. g[n + 1] = g[n] \o t
    BY <1>1, <1>4, <2>2 DEF Joined
  <2> QED
    BY <1>3, <2>1, <2>3, <2>4 DEF tt
<1> QED
  BY <1>5, <1>6

LEMMA FlattenNone == FlattenSeq(<<>>) = <<>>
BY FlattenIs

-----------------------------------------------------------------------------
(* The bytes of a frame *)

(* The bytes of a frame *)

\* The two bytes of a 16-bit field give it back.
LEMMA HiLo ==
    ASSUME NEW n, n \in Word
    PROVE  /\ Hi(n) \in Byte /\ Lo(n) \in Byte
           /\ Hi(n) * 256 + Lo(n) = n
BY DEF Hi, Lo, Byte, Word

\* A length of eight bits has no high byte.
LEMMA SmallHiLo ==
    ASSUME NEW n, n \in Nat, n < 256
    PROVE  Hi(n) = 0 /\ Lo(n) = n
BY DEF Hi, Lo

\* The bytes w are a frame of packet x, the checksum left aside.
Carries(w, x) ==
    /\ w \in Seq(Byte) /\ Len(w) = Len(x.payload) + 12
    /\ w[1] = x.magic /\ w[2] = x.version /\ w[3] = x.sys /\ w[4] = x.comp
    /\ w[5] = Hi(x.msg) /\ w[6] = Lo(x.msg) /\ w[7] = Hi(x.seq) /\ w[8] = Lo(x.seq)
    /\ w[9] = 0 /\ w[10] = Len(x.payload)
    /\ \A i \in 1..Len(x.payload) : w[i + 10] = x.payload[i]

\* Their checksum is right; n is the length of the payload.
Intact(w, n) == w[n + 11] * 256 + w[n + 12] = checksum(SubSeq(w, 1, n + 10))

\* w is f, of length n, followed by the bytes a and b.
Extends(w, f, a, b, n) ==
    /\ w \in Seq(Byte) /\ Len(w) = n + 2
    /\ \A i \in 1..n : w[i] = f[i]
    /\ w[n + 1] = a /\ w[n + 2] = b
    /\ SubSeq(w, 1, n) = f

\* The checksum behind a frame.
LEMMA ExtendedBy ==
    ASSUME NEW f, f \in Seq(Byte), NEW a, a \in Byte, NEW b, b \in Byte, NEW n, n \in Nat,
           Len(f) = n,
           NEW w, w = f \o <<a, b>>
    PROVE  Extends(w, f, a, b, n)
<1>1. /\ w \in Seq(Byte) /\ Len(w) = n + 2
      /\ \A i \in 1..n : w[i] = f[i]
      /\ w[n + 1] = a /\ w[n + 2] = b
  OBVIOUS
<1>2. SubSeq(w, 1, n) = f
  BY ONLY <1>1, f \in Seq(Byte), n \in Nat, Len(f) = n
<1> QED
  BY <1>1, <1>2, Zenon DEF Extends

\* f is h, of length k, followed by y, of length n.
Joins(f, h, y, k, n) ==
    /\ f \in Seq(Byte) /\ Len(f) = n + k
    /\ \A i \in 1..k : f[i] = h[i]
    /\ \A i \in 1..n : f[i + k] = y[i]

\* The payload behind a header.
LEMMA JoinIs ==
    ASSUME NEW h, NEW y, NEW k, NEW n, NEW f, h \in Seq(Byte), y \in Seq(Byte),
           k \in Nat, n \in Nat, Len(h) = k, Len(y) = n, f = h \o y
    PROVE  Joins(f, h, y, k, n)
<1>1. /\ f \in Seq(Byte) /\ Len(f) = k + n
      /\ \A i \in 1..(k + n) : f[i] = IF i <= k THEN h[i] ELSE y[i - k]
  BY ConcatProperties
<1>2. \A i \in 1..k : i \in 1..(k + n) /\ i <= k
  BY ONLY k \in Nat, n \in Nat
<1>3. \A i \in 1..n : i + k \in 1..(k + n) /\ ~(i + k <= k) /\ i + k - k = i
  BY ONLY k \in Nat, n \in Nat
<1>4. k + n = n + k
  BY ONLY k \in Nat, n \in Nat
<1>5. \A i \in 1..k : f[i] = h[i]
  BY <1>1, <1>2, Zenon
<1>6. ASSUME NEW i \in 1..n PROVE f[i + k] = y[i]
  <2>1. PICK j \in 1..(k + n) : j = i + k /\ ~(j <= k) /\ j - k = i
    BY <1>3
  <2>2. f[j] = y[j - k]
    BY <1>1, <2>1
  <2> QED
    BY <2>1, <2>2
<1> QED
  BY <1>1, <1>4, <1>5, <1>6, Zenon DEF Joins

\* What serialize puts before the checksum.
Framed(x) == <<x.magic, x.version, x.sys, x.comp, Hi(x.msg), Lo(x.msg),
               Hi(x.seq), Lo(x.seq), Hi(Len(x.payload)), Lo(Len(x.payload))>>
             \o x.payload

\* Sequence f is the frame of packet x, before its checksum.
IsFramed(f, x, n) ==
    /\ f \in Seq(Byte) /\ Len(f) = n + 10 /\ n \in Nat
    /\ f[1] = x.magic /\ f[2] = x.version /\ f[3] = x.sys /\ f[4] = x.comp
    /\ f[5] = Hi(x.msg) /\ f[6] = Lo(x.msg) /\ f[7] = Hi(x.seq) /\ f[8] = Lo(x.seq)
    /\ f[9] = 0 /\ f[10] = n
    /\ \A i \in 1..n : f[i + 10] = x.payload[i]

\* The serializer puts every field at its place.
LEMMA FramedIs ==
    ASSUME NEW x, Sendable(x), NEW f, f = Framed(x), NEW n, n = Len(x.payload)
    PROVE  IsFramed(f, x, n)
<1> DEFINE h == <<x.magic, x.version, x.sys, x.comp, Hi(x.msg), Lo(x.msg),
                  Hi(x.seq), Lo(x.seq), Hi(n), Lo(n)>>
           y == x.payload
<1>1. /\ x.magic \in Byte /\ x.version \in Byte /\ x.sys \in Byte /\ x.comp \in Byte
      /\ x.msg \in Word /\ x.seq \in Word
      /\ y \in Seq(Byte) /\ n \in Nat /\ n < 256 /\ Len(y) = n
  BY DEF Sendable, SOT, Byte
<1>2. /\ Hi(x.msg) \in Byte /\ Lo(x.msg) \in Byte /\ Hi(x.seq) \in Byte
      /\ Lo(x.seq) \in Byte
  BY <1>1, HiLo
<1>3. Hi(n) = 0 /\ Lo(n) = n /\ n \in Byte /\ 0 \in Byte
  BY <1>1, SmallHiLo DEF Byte
<1>4. /\ h \in Seq(Byte) /\ Len(h) = 10
      /\ h[1] = x.magic /\ h[2] = x.version /\ h[3] = x.sys /\ h[4] = x.comp
      /\ h[5] = Hi(x.msg) /\ h[6] = Lo(x.msg) /\ h[7] = Hi(x.seq) /\ h[8] = Lo(x.seq)
      /\ h[9] = 0 /\ h[10] = n
  BY <1>1, <1>2, <1>3
<1>5. f = h \o y
  BY DEF Framed
<1> HIDE DEF h, y
<1>6. /\ f \in Seq(Byte) /\ Len(f) = n + 10
      /\ \A i \in 1..10 : f[i] = h[i]
      /\ \A i \in 1..n : f[i + 10] = y[i]
  <2>1. PICK k \in Nat : k = 10
    OBVIOUS
  <2>2. Len(h) = k /\ Len(y) = n
    BY <1>1, <1>4, <2>1
  <2>3. Joins(f, h, y, k, n)
    BY <1>1, <1>4, <1>5, <2>1, <2>2, JoinIs
  <2> QED
    BY <2>1, <2>3, Zenon DEF Joins
<1>7. /\ f[1] = h[1] /\ f[2] = h[2] /\ f[3] = h[3] /\ f[4] = h[4] /\ f[5] = h[5]
      /\ f[6] = h[6] /\ f[7] = h[7] /\ f[8] = h[8] /\ f[9] = h[9] /\ f[10] = h[10]
  BY ONLY <1>6
<1> QED
  BY <1>1, <1>4, <1>6, <1>7, Zenon DEF y, IsFramed

LEMMA FirstTen ==
    ASSUME NEW n, n \in Nat
    PROVE  /\ 1 \in 1..(n + 10) /\ 2 \in 1..(n + 10) /\ 3 \in 1..(n + 10) /\ 4 \in 1..(n + 10)
           /\ 5 \in 1..(n + 10) /\ 6 \in 1..(n + 10) /\ 7 \in 1..(n + 10) /\ 8 \in 1..(n + 10)
           /\ 9 \in 1..(n + 10) /\ 10 \in 1..(n + 10)
OBVIOUS

\* Every frame is read from the wire as it was serialized; only an intact one
\* has the right checksum.
LEMMA WireCarries ==
    ASSUME WellFormed, NEW m \in Messages, m.fault # "noise",
           NEW w, w = Wire[m], NEW n, n = Len(m.pkt.payload)
    PROVE  /\ Carries(w, m.pkt)
           /\ Intact(w, n) <=> m.fault = "none"
<1> DEFINE x == m.pkt
           f == Framed(x)
           s == checksum(f)
           v == f \o <<Hi(s), Lo(s)>>
<1>1. Sendable(x) /\ m.fault \in {"none", "checksum"}
  BY DEF WellFormed
<1>2. /\ f \in Seq(Byte) /\ Len(f) = n + 10 /\ n \in Nat
      /\ f[1] = x.magic /\ f[2] = x.version /\ f[3] = x.sys /\ f[4] = x.comp
      /\ f[5] = Hi(x.msg) /\ f[6] = Lo(x.msg) /\ f[7] = Hi(x.seq) /\ f[8] = Lo(x.seq)
      /\ f[9] = 0 /\ f[10] = n
      /\ \A i \in 1..n : f[i + 10] = x.payload[i]
  <2>1. IsFramed(f, x, n)
    BY <1>1, FramedIs
  <2> QED
    BY <2>1, Zenon DEF IsFramed
<1>3. s \in Word
  BY <1>2, ChecksumType
<1>4. Hi(s) \in Byte /\ Lo(s) \in Byte /\ Hi(s) * 256 + Lo(s) = s
  BY <1>3, HiLo
<1>5. serialize(x) = v
  BY DEF serialize, Framed
<1>6. w = IF m.fault = "none" THEN v ELSE [v EXCEPT ![Len(v)] = Lo(v[Len(v)] + 1)]
  BY <1>1, <1>5 DEF Wire
<1> HIDE DEF f, s
<1>7. /\ v \in Seq(Byte) /\ Len(v) = n + 12
      /\ \A i \in 1..(n + 10) : v[i] = f[i]
      /\ v[n + 11] = Hi(s) /\ v[n + 12] = Lo(s)
      /\ SubSeq(v, 1, n + 10) = f
  <2> DEFINE k == n + 10
  <2>1. k \in Nat /\ k + 2 = n + 12 /\ k + 1 = n + 11
    BY <1>2
  <2>2. Len(f) = k
    BY <1>2
  <2> HIDE DEF k
  <2>3. /\ v \in Seq(Byte) /\ Len(v) = k + 2
        /\ \A i \in 1..k : v[i] = f[i]
        /\ v[k + 1] = Hi(s) /\ v[k + 2] = Lo(s)
        /\ SubSeq(v, 1, k) = f
    <3>1. Extends(v, f, Hi(s), Lo(s), k)
      <4>1. PICK y : y = v
        OBVIOUS
      <4>2. y = f \o <<Hi(s), Lo(s)>>
        BY <4>1
      <4> HIDE DEF v
      <4>3. Extends(y, f, Hi(s), Lo(s), k)
        BY <1>2, <1>4, <2>1, <2>2, <4>2, ExtendedBy
      <4> QED
        BY <4>1, <4>3
    <3> HIDE DEF v
    <3> QED
      BY <3>1, Zenon DEF Extends
  <2> QED
    BY <2>1, <2>3 DEF k
<1> HIDE DEF v
<1>8. /\ w \in Seq(Byte) /\ Len(w) = n + 12
      /\ \A i \in 1..(n + 11) : w[i] = v[i]
      /\ w[n + 12] = IF m.fault = "none" THEN v[n + 12] ELSE Lo(v[n + 12] + 1)
  <2>0. v[n + 12] \in Nat
    BY <1>4, <1>7 DEF Lo, Byte
  <2>1. Lo(v[n + 12] + 1) \in Byte
    BY ONLY <2>0 DEF Lo, Byte
  <2>2. n + 12 \in 1..Len(v) /\ n \in Nat
    BY <1>2, <1>7
  <2> QED
    BY <1>6, <1>7, <2>1, <2>2
<1>9. \A i \in 1..(n + 10) : w[i] = f[i]
  <2>1. \A i \in 1..(n + 10) : i \in 1..(n + 11)
    BY <1>2
  <2> QED
    BY <1>7, <1>8, <2>1
<1>10. Carries(w, x)
  <2>1. /\ 1 \in 1..(n + 10) /\ 2 \in 1..(n + 10) /\ 3 \in 1..(n + 10) /\ 4 \in 1..(n + 10)
        /\ 5 \in 1..(n + 10) /\ 6 \in 1..(n + 10) /\ 7 \in 1..(n + 10) /\ 8 \in 1..(n + 10)
        /\ 9 \in 1..(n + 10) /\ 10 \in 1..(n + 10) /\ n = Len(x.payload)
    <3>1. n \in Nat /\ n = Len(x.payload)
      BY <1>2
    <3> QED
      BY <3>1, FirstTen
  <2>2. ASSUME NEW i \in 1..n PROVE w[i + 10] = x.payload[i]
    <3>1. i + 10 \in 1..(n + 10)
      <4>1. n \in Nat /\ i \in 1..n
        BY <1>2
      <4> QED
        BY ONLY <4>1
    <3> QED
      BY <1>2, <1>9, <3>1
  <2> QED
    BY <1>2, <1>8, <1>9, <2>1, <2>2 DEF Carries
<1>11. SubSeq(w, 1, n + 10) = f
  BY ONLY <1>2, <1>8, <1>9
<1>12. Intact(w, n) <=> m.fault = "none"
  <2>1. w[n + 11] = Hi(s)
    <3>1. n + 11 \in 1..(n + 11)
      BY ONLY <1>2
    <3> QED
      BY ONLY <1>7, <1>8, <3>1
  <2>2. checksum(SubSeq(w, 1, n + 10)) = s
    BY <1>11 DEF s
  <2>3. Lo(Lo(s) + 1) # Lo(s) /\ Lo(Lo(s) + 1) \in Int /\ Lo(s) \in Int /\ Hi(s) \in Int
    BY ONLY <1>3 DEF Lo, Hi, Word
  <2>4. CASE m.fault = "none"
    <3>1. w[n + 12] = Lo(s)
      BY ONLY <1>7, <1>8, <2>4
    <3> QED
      BY ONLY <1>4, <2>1, <2>2, <2>4, <3>1 DEF Intact
  <2>5. CASE m.fault # "none"
    <3>1. w[n + 12] = Lo(Lo(s) + 1)
      BY ONLY <1>7, <1>8, <2>5
    <3>2. Hi(s) * 256 + Lo(Lo(s) + 1) # s
      BY ONLY <1>4, <2>3
    <3> QED
      BY ONLY <2>1, <2>2, <2>5, <3>1, <3>2 DEF Intact
  <2> QED
    BY <2>4, <2>5
<1> QED
  BY <1>10, <1>12

-----------------------------------------------------------------------------
(* One byte *)

\* The two parsers have read the same address, message and sequence number.
SameHeader(p, q) ==
    /\ q.pkt.sys = p.pkt.sys /\ q.pkt.comp = p.pkt.comp
    /\ q.pkt.msg = p.pkt.msg /\ q.pkt.seq = p.pkt.seq

\* What one byte does to the parser, state by state.
LEMMA RecordedIs ==
    ASSUME NEW p \in Parsers, NEW b \in Byte,
           p.state \in {"System", "MsgHigh", "MsgLow", "Length", "Payload"}
    PROVE  /\ Recorded(p, b) \in Parsers
           /\ Recorded(p, b).raw = Append(p.raw, b) /\ Recorded(p, b).pkt = p.pkt
           /\ Recorded(p, b).state = p.state /\ Recorded(p, b).read = p.read
           /\ Recorded(p, b).len = p.len
<1>1. Append(p.raw, b) \in Seq(Byte)
  BY DEF Parsers
<1> QED
  BY <1>1 DEF Recorded, Parsers

LEMMA StartIs ==
    ASSUME NEW p \in Parsers, NEW b \in Byte, NEW c, NEW q, q = parse_byte(c, p, b),
           p.state = "Start"
    PROVE  /\ b \notin SOT => q = p
           /\ b \in SOT => /\ q.state = "System" /\ q.read = 0 /\ q.raw = <<b>>
                           /\ q.pkt.payload = <<>>
<1>1. q = StartByte(p, b)
  BY DEF parse_byte
<1> QED
  BY <1>1 DEF StartByte, NoPacket, Parsers, Packets

\* The byte was recorded.
Records(p, q, b) == q.raw = Append(p.raw, b)

LEMMA SystemIs ==
    ASSUME NEW p \in Parsers, NEW b \in Byte, NEW c, NEW q, q = parse_byte(c, p, b),
           p.state = "System"
    PROVE  /\ Records(p, q, b) /\ q.pkt.payload = p.pkt.payload
           /\ q.read = 1 \/ p.read \notin {0, 1}
           /\ p.read = 0 => q.state = "System"
           /\ p.read = 1 => q.state = "MsgHigh" /\ q.pkt.sys = b
<1> DEFINE r == Recorded(p, b)
<1>1. q = SystemByte(r, b)
  BY DEF parse_byte
<1>2. /\ r \in Parsers /\ r.raw = Append(p.raw, b) /\ r.pkt = p.pkt /\ r.state = p.state
      /\ r.read = p.read
  BY RecordedIs
<1> HIDE DEF r
<1> QED
  BY <1>1, <1>2 DEF Records, SystemByte, Parsers, Packets

LEMMA ComponentIs ==
    ASSUME NEW p \in Parsers, NEW b \in Byte, NEW c, NEW q, q = parse_byte(c, p, b),
           p.state = "MsgHigh"
    PROVE  /\ Records(p, q, b) /\ q.pkt.payload = p.pkt.payload /\ q.read = p.read
           /\ q.state = "MsgLow" /\ q.pkt.comp = b /\ q.pkt.sys = p.pkt.sys
<1> DEFINE r == Recorded(p, b)
<1>1. q = ComponentByte(r, b)
  BY DEF parse_byte
<1>2. /\ r \in Parsers /\ r.raw = Append(p.raw, b) /\ r.pkt = p.pkt /\ r.state = p.state
      /\ r.read = p.read
  BY RecordedIs
<1> HIDE DEF r
<1> QED
  BY <1>1, <1>2 DEF Records, ComponentByte, Parsers, Packets

LEMMA MessageIs ==
    ASSUME NEW p \in Parsers, NEW b \in Byte, NEW c, NEW q, q = parse_byte(c, p, b),
           p.state = "MsgLow"
    PROVE  /\ Records(p, q, b) /\ q.pkt.payload = p.pkt.payload
           /\ q.pkt.comp = p.pkt.comp /\ q.pkt.sys = p.pkt.sys
           /\ p.read = 1 => q.state = "MsgLow" /\ q.read = 2 /\ q.pkt.msg = b * 256
           /\ p.read # 1 => q.state = "Length" /\ q.read = 0 /\ q.pkt.msg = p.pkt.msg + b
<1> DEFINE r == Recorded(p, b)
<1>1. q = MessageByte(r, b)
  BY DEF parse_byte
<1>2. /\ r \in Parsers /\ r.raw = Append(p.raw, b) /\ r.pkt = p.pkt /\ r.state = p.state
      /\ r.read = p.read
  BY RecordedIs
<1> HIDE DEF r
<1> QED
  BY <1>1, <1>2 DEF Records, MessageByte, Field, Parsers, Packets

LEMMA LengthIs ==
    ASSUME NEW p \in Parsers, NEW b \in Byte, NEW c, NEW q, q = parse_byte(c, p, b),
           p.state = "Length", p.read \in {0, 1, 2}
    PROVE  /\ Records(p, q, b) /\ q.pkt.payload = p.pkt.payload /\ q.state = "Length"
           /\ q.pkt.comp = p.pkt.comp /\ q.pkt.sys = p.pkt.sys /\ q.pkt.msg = p.pkt.msg
           /\ q.read = p.read + 1
           /\ p.read = 0 => q.pkt.seq = b * 256
           /\ p.read = 1 => q.pkt.seq = p.pkt.seq + b
           /\ p.read = 2 => q.pkt.seq = p.pkt.seq /\ q.pkt.plen = b * 256
<1> DEFINE r == Recorded(p, b)
<1>1. q = LengthByte(c, r, b)
  BY DEF parse_byte
<1>2. /\ r \in Parsers /\ r.raw = Append(p.raw, b) /\ r.pkt = p.pkt /\ r.state = p.state
      /\ r.read = p.read
  BY RecordedIs
<1> HIDE DEF r
<1>3. CASE p.read \in {0, 1}
  <2>1. q = [r EXCEPT !.pkt.seq = Field(r, b, 0, @), !.read = r.read + 1]
    BY <1>1, <1>2, <1>3 DEF LengthByte
  <2> QED
    BY <1>2, <1>3, <2>1 DEF Records, Field, Parsers, Packets
<1>4. CASE p.read = 2
  <2>1. q = [r EXCEPT !.pkt.plen = b * 256, !.read = 3]
    BY <1>1, <1>2, <1>4 DEF LengthByte
  <2> QED
    BY <1>2, <1>4, <2>1 DEF Records, Parsers, Packets
<1> QED
  BY <1>3, <1>4

\* The last byte of the header, when the length fits into it.
LEMMA HeaderEndIs ==
    ASSUME NEW p \in Parsers, NEW b \in Byte, NEW c, NEW q, q = parse_byte(c, p, b),
           p.state = "Length", p.read = 3, p.pkt.plen = 0
    PROVE  /\ q.raw = Append(p.raw, b) /\ SameHeader(p, q) /\ q.len = b /\ q.read = 0
           /\ b = 0 => q.state = "Checksum" /\ q.pkt.payload = p.pkt.payload
           /\ b # 0 /\ Foreign(c, p.pkt) => q.state = "Forward"
           /\ b # 0 /\ ~Foreign(c, p.pkt) =>
                q.state = "Payload" /\ q.pkt.payload \in Seq(Byte) /\ Len(q.pkt.payload) = b
<1> DEFINE r == Recorded(p, b)
           t == [r EXCEPT !.pkt.plen = b]
<1>1. q = LengthByte(c, r, b)
  BY DEF parse_byte
<1>2. /\ r \in Parsers /\ r.raw = Append(p.raw, b) /\ r.pkt = p.pkt /\ r.state = p.state
      /\ r.read = p.read
  BY RecordedIs
<1> HIDE DEF r
<1>4. b \in Nat /\ b < 256 /\ Lo(b) = b /\ b \in Word
  BY SmallHiLo DEF Byte, Word
<1>3. q = HeaderDone(c, t)
  <2>1. q = HeaderDone(c, [r EXCEPT !.pkt.plen = @ + b])
    BY <1>1, <1>2 DEF LengthByte
  <2>2. r.pkt.plen + b = b
    BY <1>2, <1>4
  <2>3. [r EXCEPT !.pkt.plen = @ + b] = t
    BY <1>2, <2>2 DEF Parsers, Packets
  <2> QED
    BY <2>1, <2>3
<1>5. /\ t \in Parsers /\ t.raw = Append(p.raw, b) /\ t.pkt.plen = b
      /\ t.pkt.payload = p.pkt.payload /\ SameHeader(p, t)
  <2>1. r.pkt \in Packets /\ [r.pkt EXCEPT !.plen = b] \in Packets
    BY <1>2, <1>4 DEF Parsers, Packets
  <2>2. t = [r EXCEPT !.pkt = [r.pkt EXCEPT !.plen = b]]
    BY <1>2 DEF Parsers
  <2>3. t \in Parsers /\ t.raw = r.raw /\ t.pkt = [r.pkt EXCEPT !.plen = b]
    BY <1>2, <2>1, <2>2 DEF Parsers
  <2> HIDE DEF t
  <2>4. t.pkt.plen = b /\ t.pkt.payload = r.pkt.payload /\ SameHeader(r, t)
    BY <2>1, <2>3 DEF Packets, SameHeader
  <2> QED
    BY <1>2, <2>3, <2>4 DEF SameHeader
<1> HIDE DEF t
<1>6. Foreign(c, t.pkt) <=> Foreign(c, p.pkt)
  BY <1>5 DEF Foreign, SameHeader
<1>7. CASE b = 0
  <2>1. q = [t EXCEPT !.len = b, !.read = 0, !.state = "Checksum"]
    <3>1. Lo(t.pkt.plen) = b
      BY <1>4, <1>5
    <3> QED
      BY <1>3, <1>7, <3>1 DEF HeaderDone
  <2> QED
    BY <1>5, <1>7, <2>1 DEF Parsers, SameHeader
<1>8. CASE b # 0 /\ Foreign(c, p.pkt)
  <2>1. q = [t EXCEPT !.len = b, !.read = 0, !.state = "Forward"]
    BY <1>3, <1>4, <1>5, <1>6, <1>8 DEF HeaderDone
  <2> QED
    BY <1>5, <1>8, <2>1 DEF Parsers, SameHeader
<1>9. CASE b # 0 /\ ~Foreign(c, p.pkt)
  <2> DEFINE zeros == [i \in 1..b |-> 0]
  <2>1. q = [t EXCEPT !.len = b, !.read = 0, !.state = "Payload", !.pkt.payload = zeros]
    BY <1>3, <1>4, <1>5, <1>6, <1>9 DEF HeaderDone
  <2>2. zeros \in Seq(Byte) /\ Len(zeros) = b
    BY <1>4 DEF Byte
  <2> HIDE DEF zeros
  <2> QED
    BY <1>5, <1>9, <2>1, <2>2 DEF Parsers, Packets, SameHeader
<1> QED
  BY <1>7, <1>8, <1>9

\* The payload with byte b in place i.
Put(s, i, b) == [s EXCEPT ![i] = b]

LEMMA PayloadIs ==
    ASSUME NEW p \in Parsers, NEW b \in Byte, NEW c, NEW q, q = parse_byte(c, p, b),
           p.state = "Payload"
    PROVE  /\ q.raw = Append(p.raw, b) /\ SameHeader(p, q) /\ q.len = p.len
           /\ q.pkt.payload = Put(p.pkt.payload, p.read + 1, b)
           /\ p.read + 1 >= p.len => q.state = "Checksum" /\ q.read = 0
           /\ ~(p.read + 1 >= p.len) => q.state = "Payload" /\ q.read = p.read + 1
<1> DEFINE r == Recorded(p, b)
           all == [r.pkt.payload EXCEPT ![r.read + 1] = b]
<1>1. q = PayloadByte(r, b)
  BY DEF parse_byte
<1>2. /\ r \in Parsers /\ r.raw = Append(p.raw, b) /\ r.pkt = p.pkt /\ r.state = p.state
      /\ r.read = p.read /\ r.len = p.len
  BY RecordedIs
<1> HIDE DEF r
<1>3. q = IF r.read + 1 >= r.len
          THEN [r EXCEPT !.pkt.payload = all, !.read = 0, !.state = "Checksum"]
          ELSE [r EXCEPT !.pkt.payload = all, !.read = r.read + 1]
  BY <1>1, <1>2 DEF PayloadByte, Parsers
<1>4. all = Put(p.pkt.payload, p.read + 1, b)
  BY <1>2 DEF Put
<1> HIDE DEF all
<1> QED
  BY <1>2, <1>3, <1>4 DEF Parsers, Packets, SameHeader

LEMMA ChecksumStepIs ==
    ASSUME NEW p \in Parsers, NEW b \in Byte, NEW c, NEW q, q = parse_byte(c, p, b),
           p.state = "Checksum"
    PROVE  /\ q.raw = p.raw /\ SameHeader(p, q) /\ q.pkt.payload = p.pkt.payload
           /\ p.read = 0 => /\ q.state = IF Foreign(c, p.pkt) THEN "Forward" ELSE "Checksum"
                            /\ q.read = 1 /\ q.pkt.sum = b * 256
           /\ p.read # 0 => q.state = "Start" /\ q.pkt.sum = p.pkt.sum + b
<1>1. q = ChecksumByte(c, p, b)
  BY DEF parse_byte
<1>2. CASE p.read = 0
  <2>1. q = [p EXCEPT !.pkt.sum = b * 256, !.read = 1,
                      !.state = IF Foreign(c, p.pkt) THEN "Forward" ELSE @]
    BY <1>1, <1>2 DEF ChecksumByte, Field, Parsers
  <2> DEFINE s == IF Foreign(c, p.pkt) THEN "Forward" ELSE p.state
  <2>2. q = [p EXCEPT !.pkt.sum = b * 256, !.read = 1, !.state = s]
    BY <2>1 DEF Parsers
  <2> HIDE DEF s
  <2>3. q.raw = p.raw /\ SameHeader(p, q) /\ q.pkt.payload = p.pkt.payload /\ q.state = s
        /\ q.read = 1 /\ q.pkt.sum = b * 256
    BY <2>2 DEF Parsers, Packets, SameHeader
  <2> QED
    BY <1>2, <2>3 DEF s
<1>3. CASE p.read # 0
  <2>1. q = [p EXCEPT !.pkt.sum = @ + b, !.state = "Start"]
    BY <1>1, <1>3 DEF ChecksumByte, Field, Parsers
  <2> QED
    BY <1>3, <2>1 DEF Parsers, Packets, SameHeader
<1> QED
  BY <1>2, <1>3

LEMMA ForwardIs ==
    ASSUME NEW p \in Parsers, NEW b \in Byte, NEW c, NEW q, q = parse_byte(c, p, b),
           p.state = "Forward"
    PROVE  q.state = "Start" /\ q.pkt = p.pkt
BY DEF parse_byte, Parsers

-----------------------------------------------------------------------------
(* The parser in the middle of a frame *)

\* The parser p after the first k bytes of the frame of packet x, up to the
\* payload length: _state, _bytes_read and the fields read so far.
HeaderAt(p, k, x) ==
    /\ k = 1 => p.state = "System" /\ p.read = 0
    /\ k = 2 => p.state = "System" /\ p.read = 1
    /\ k = 3 => p.state = "MsgHigh" /\ p.read = 1
    /\ k = 4 => p.state = "MsgLow" /\ p.read = 1
    /\ k = 5 => p.state = "MsgLow" /\ p.read = 2 /\ p.pkt.msg = Hi(x.msg) * 256
    /\ k \in 6..9 => p.state = "Length" /\ p.read = k - 6
    /\ k >= 3 => p.pkt.sys = x.sys
    /\ k >= 4 => p.pkt.comp = x.comp
    /\ k >= 6 => p.pkt.msg = x.msg
    /\ k = 7 => p.pkt.seq = Hi(x.seq) * 256
    /\ k >= 8 => p.pkt.seq = x.seq
    /\ k = 9 => p.pkt.plen = 0
    /\ p.pkt.payload = <<>>

\* The header of packet x is parsed.
Known(p, x) ==
    /\ p.pkt.sys = x.sys /\ p.pkt.comp = x.comp
    /\ p.pkt.msg = x.msg /\ p.pkt.seq = x.seq

\* After the header, of a frame for another system that the filter forwards.
ForwardAt(p, k, x) ==
    IF x.payload = <<>>
    THEN /\ k = 10 => p.state = "Checksum" /\ p.read = 0
         /\ k = 11 => p.state = "Forward"
         /\ k = 12 => p.state = "Start"
    ELSE p.state = IF k = 10 THEN "Forward" ELSE "Start"

\* After the header, of a frame that is kept; w are its bytes.
LocalAt(p, k, x, w) ==
    LET n == Len(x.payload)
    IN  /\ k < n + 10 =>
            /\ p.state = "Payload" /\ p.read = k - 10 /\ p.len = n
            /\ p.pkt.payload \in Seq(Byte) /\ Len(p.pkt.payload) = n
            /\ \A i \in 1..(k - 10) : p.pkt.payload[i] = x.payload[i]
        /\ k >= n + 10 => p.pkt.payload = x.payload
        /\ k = n + 10 => p.state = "Checksum" /\ p.read = 0
        /\ k = n + 11 => /\ p.state = "Checksum" /\ p.read = 1
                         /\ p.pkt.sum = w[n + 11] * 256
        /\ k = n + 12 => p.state = "Start"

\* The bytes _raw_frame_buffer holds: all but the checksum.
Raw(p, k, x, w) ==
    LET n == Len(x.payload)
    IN  /\ k \in 1..(n + 10) => p.raw = SubSeq(w, 1, k)
        /\ k = n + 11 => p.raw = SubSeq(w, 1, n + 10)

\* The parser of connection c after the first k bytes of message m.
At(c, m, p, k) ==
    IF k = 0 \/ m.fault = "noise" THEN p.state = "Start"
    ELSE LET x == m.pkt
             w == Wire[m]
         IN  /\ k <= 9 => HeaderAt(p, k, x)
             /\ k >= 10 => Known(p, x)
             /\ k >= 10 /\ Foreign(c, x) => ForwardAt(p, k, x)
             /\ k >= 10 /\ ~Foreign(c, x) => LocalAt(p, k, x, w)
             /\ k <= 10 \/ ~Foreign(c, x) => Raw(p, k, x, w)

\* The byte of message m with which its effects are due.
DueAt(c, m) ==
    IF Foreign(c, m.pkt) /\ m.pkt.payload # <<>> THEN 11 ELSE Len(Wire[m])

\* The effects of message m that are due after k of its bytes.
Emitted(c, m, k) == IF k >= DueAt(c, m) THEN Expected[c][m] ELSE <<>>

\* The effects of the messages s, all done.
Flat(c, s) == FlattenSeq([i \in 1..Len(s) |-> Expected[c][s[i]]])

\* Datagram d is the last that connection d.conn received, k bytes of it are
\* parsed, and its effects are due as soon as the parser has seen enough.
UnderWay(d, k, ps, as, es) ==
    LET c == d.conn
        m == Last(as[c])
    IN  /\ as[c] # <<>>
        /\ d.bytes = Wire[m]
        /\ c \in DOMAIN ps => At(c, m, ps[c], k)
        /\ es[c] = Flat(c, Front(as[c])) \o Emitted(c, m, k)

\* Nothing of connection c is under way.
AtRest(c, ps, as, es) ==
    /\ c \in DOMAIN ps => ps[c].state = "Start"
    /\ es[c] = Flat(c, as[c])

\* The strengthening of HandledAsSent: the parser of a connection is where the
\* bytes of its datagram have brought it, or waits for a start byte.
HInv ==
    /\ DOMAIN effects = Conns
    /\ OneAtATime
    /\ \A i \in 1..Len(queue) : UnderWay(queue[i], 0, parsers, arrived, effects)
    /\ \A v \in Workers : pc[v] # "idle" =>
        /\ UnderWay(job[v], job[v].next - 1, parsers, arrived, effects)
        /\ pc[v] \in {"lookup", "create"} => job[v].next = 1
        /\ pc[v] = "parse" => job[v].conn \in DOMAIN parsers
    /\ \A c \in Conns : ~Pending(c) => AtRest(c, parsers, arrived, effects)

LEMMA PrefixGrows ==
    ASSUME NEW w, w \in Seq(Byte), NEW k, k \in Nat, k < Len(w)
    PROVE  Append(SubSeq(w, 1, k), w[k + 1]) = SubSeq(w, 1, k + 1)
<1> DEFINE s == SubSeq(w, 1, k)
           t == SubSeq(w, 1, k + 1)
<1>1. w[k + 1] \in Byte /\ Len(w) \in Nat
  OBVIOUS
<1>2. s \in Seq(Byte) /\ Len(s) = k /\ \A i \in 1..k : s[i] = w[i]
  BY <1>1
<1>3. t \in Seq(Byte) /\ Len(t) = k + 1 /\ \A i \in 1..(k + 1) : t[i] = w[i]
  <2>1. k + 1 \in Nat /\ k + 1 <= Len(w)
    BY <1>1
  <2> QED
    BY <1>1, <2>1
<1> HIDE DEF s, t
<1>4. /\ Append(s, w[k + 1]) \in Seq(Byte) /\ Len(Append(s, w[k + 1])) = k + 1
      /\ \A i \in 1..k : Append(s, w[k + 1])[i] = s[i]
      /\ Append(s, w[k + 1])[k + 1] = w[k + 1]
  BY <1>1, <1>2
<1>5. \A i \in 1..(k + 1) : Append(s, w[k + 1])[i] = t[i]
  BY <1>2, <1>3, <1>4
<1>6. Append(s, w[k + 1]) = t
  BY <1>3, <1>4, <1>5, SeqEqual
<1> QED
  BY <1>6 DEF s, t

\* _raw_frame_buffer grows with the frame.
LEMMA RawStep ==
    ASSUME NEW w, NEW x, NEW p, NEW q, NEW k, w \in Seq(Byte), Len(x.payload) \in Nat,
           Len(w) = Len(x.payload) + 12, k \in Nat, k >= 1, k <= Len(x.payload) + 9,
           Raw(p, k, x, w), q.raw = Append(p.raw, w[k + 1])
    PROVE  Raw(q, k + 1, x, w)
<1> DEFINE n == Len(x.payload)
<1>1. k \in 1..(n + 10) /\ k < Len(w) /\ k + 1 \in 1..(n + 10) /\ k + 1 # n + 11
  OBVIOUS
<1>2. p.raw = SubSeq(w, 1, k)
  BY <1>1 DEF Raw
<1>3. q.raw = SubSeq(w, 1, k + 1)
  BY <1>1, <1>2, PrefixGrows
<1> QED
  BY <1>1, <1>3 DEF Raw

\* What the loop of process_raw_bytes does with the result of a byte.
Output(p, q, w) ==
    CASE Status(p, q) = "Complete" -> Handled(q.pkt)
      [] Status(p, q) = "StreamForwardByte" -> Forwarded(q.pkt, w)
      [] OTHER -> <<>>

\* A byte in the middle of a frame has no effect.
LEMMA Quiet ==
    ASSUME NEW p, NEW q, NEW w, p.state # "Forward", p.state = "Checksum" => p.read = 0
    PROVE  Output(p, q, w) = <<>>
<1>1. Status(p, q) = "Processing"
  BY DEF Status
<1> QED
  BY <1>1 DEF Output

\* A byte of the header, but the last.
LEMMA HeaderStep ==
    ASSUME NEW p \in Parsers, NEW x, Sendable(x), NEW w, Carries(w, x), NEW c,
           NEW k, k \in 1..8, HeaderAt(p, k, x), NEW q, q = parse_byte(c, p, w[k + 1])
    PROVE  /\ HeaderAt(q, k + 1, x) /\ Records(p, q, w[k + 1])
           /\ p.state \notin {"Forward", "Checksum"}
<1>1. /\ w[2] \in Byte /\ w[3] \in Byte /\ w[4] \in Byte /\ w[5] \in Byte
      /\ w[6] \in Byte /\ w[7] \in Byte /\ w[8] \in Byte /\ w[9] \in Byte
  <2>1. Len(x.payload) \in Nat /\ w \in Seq(Byte) /\ Len(w) = Len(x.payload) + 12
    BY DEF Sendable, Carries
  <2> QED
    BY <2>1
<1>2. /\ w[3] = x.sys /\ w[4] = x.comp /\ w[5] = Hi(x.msg) /\ w[6] = Lo(x.msg)
      /\ w[7] = Hi(x.seq) /\ w[8] = Lo(x.seq) /\ w[9] = 0
  BY DEF Carries
<1>3. Hi(x.msg) * 256 + Lo(x.msg) = x.msg /\ Hi(x.seq) * 256 + Lo(x.seq) = x.seq
  BY HiLo DEF Sendable
<1>4. CASE k = 1
  <2>1. p.state = "System" /\ p.read = 0 /\ p.pkt.payload = <<>> /\ q = parse_byte(c, p, w[2])
    BY <1>4 DEF HeaderAt
  <2>2. Records(p, q, w[2]) /\ q.pkt.payload = <<>> /\ q.read = 1 /\ q.state = "System"
    BY <1>1, <2>1, SystemIs
  <2> QED
    BY <1>4, <2>1, <2>2 DEF HeaderAt
<1>5. CASE k = 2
  <2>1. p.state = "System" /\ p.read = 1 /\ p.pkt.payload = <<>> /\ q = parse_byte(c, p, w[3])
    BY <1>5 DEF HeaderAt
  <2>2. Records(p, q, w[3]) /\ q.pkt.payload = <<>> /\ q.read = 1
        /\ q.state = "MsgHigh" /\ q.pkt.sys = x.sys
    BY <1>1, <1>2, <2>1, SystemIs
  <2> QED
    BY <1>5, <2>1, <2>2 DEF HeaderAt
<1>6. CASE k = 3
  <2>1. p.state = "MsgHigh" /\ p.read = 1 /\ p.pkt.payload = <<>> /\ p.pkt.sys = x.sys
        /\ q = parse_byte(c, p, w[4])
    BY <1>6 DEF HeaderAt
  <2>2. Records(p, q, w[4]) /\ q.pkt.payload = <<>> /\ q.read = 1
        /\ q.state = "MsgLow" /\ q.pkt.sys = x.sys /\ q.pkt.comp = x.comp
    BY <1>1, <1>2, <2>1, ComponentIs
  <2> QED
    BY <1>6, <2>1, <2>2 DEF HeaderAt
<1>7. CASE k = 4
  <2>1. p.state = "MsgLow" /\ p.read = 1 /\ p.pkt.payload = <<>> /\ p.pkt.sys = x.sys
        /\ p.pkt.comp = x.comp /\ q = parse_byte(c, p, w[5])
    BY <1>7 DEF HeaderAt
  <2>2. Records(p, q, w[5]) /\ q.pkt.payload = <<>> /\ q.read = 2
        /\ q.state = "MsgLow" /\ q.pkt.sys = x.sys /\ q.pkt.comp = x.comp
        /\ q.pkt.msg = Hi(x.msg) * 256
    BY <1>1, <1>2, <2>1, MessageIs
  <2> QED
    BY <1>7, <2>1, <2>2 DEF HeaderAt
<1>8. CASE k = 5
  <2>1. p.state = "MsgLow" /\ p.read = 2 /\ p.pkt.payload = <<>> /\ p.pkt.sys = x.sys
        /\ p.pkt.comp = x.comp /\ p.pkt.msg = Hi(x.msg) * 256 /\ q = parse_byte(c, p, w[6])
    BY <1>8 DEF HeaderAt
  <2>2. Records(p, q, w[6]) /\ q.pkt.payload = <<>> /\ q.read = 0
        /\ q.state = "Length" /\ q.pkt.sys = x.sys /\ q.pkt.comp = x.comp /\ q.pkt.msg = x.msg
    BY <1>1, <1>2, <1>3, <2>1, MessageIs
  <2> QED
    BY <1>8, <2>1, <2>2 DEF HeaderAt
<1>9. CASE k = 6
  <2>1. p.state = "Length" /\ p.read = 0 /\ p.pkt.payload = <<>> /\ p.pkt.sys = x.sys
        /\ p.pkt.comp = x.comp /\ p.pkt.msg = x.msg /\ q = parse_byte(c, p, w[7])
    BY <1>9 DEF HeaderAt
  <2>2. Records(p, q, w[7]) /\ q.pkt.payload = <<>> /\ q.read = 1
        /\ q.state = "Length" /\ q.pkt.sys = x.sys /\ q.pkt.comp = x.comp
        /\ q.pkt.msg = x.msg /\ q.pkt.seq = Hi(x.seq) * 256
    BY <1>1, <1>2, <2>1, LengthIs
  <2> QED
    BY <1>9, <2>1, <2>2 DEF HeaderAt
<1>10. CASE k = 7
  <2>1. p.state = "Length" /\ p.read = 1 /\ p.pkt.payload = <<>> /\ p.pkt.sys = x.sys
        /\ p.pkt.comp = x.comp /\ p.pkt.msg = x.msg /\ p.pkt.seq = Hi(x.seq) * 256
        /\ q = parse_byte(c, p, w[8])
    BY <1>10 DEF HeaderAt
  <2>2. Records(p, q, w[8]) /\ q.pkt.payload = <<>> /\ q.read = 2
        /\ q.state = "Length" /\ q.pkt.sys = x.sys /\ q.pkt.comp = x.comp
        /\ q.pkt.msg = x.msg /\ q.pkt.seq = x.seq
    BY <1>1, <1>2, <1>3, <2>1, LengthIs
  <2> QED
    BY <1>10, <2>1, <2>2 DEF HeaderAt
<1>11. CASE k = 8
  <2>1. p.state = "Length" /\ p.read = 2 /\ p.pkt.payload = <<>> /\ p.pkt.sys = x.sys
        /\ p.pkt.comp = x.comp /\ p.pkt.msg = x.msg /\ p.pkt.seq = x.seq
        /\ q = parse_byte(c, p, w[9])
    BY <1>11 DEF HeaderAt
  <2>2. Records(p, q, w[9]) /\ q.pkt.payload = <<>> /\ q.read = 3
        /\ q.state = "Length" /\ q.pkt.sys = x.sys /\ q.pkt.comp = x.comp
        /\ q.pkt.msg = x.msg /\ q.pkt.seq = x.seq /\ q.pkt.plen = 0
    BY <1>1, <1>2, <2>1, LengthIs
  <2> QED
    BY <1>11, <2>1, <2>2 DEF HeaderAt
<1> QED
  BY <1>4, <1>5, <1>6, <1>7, <1>8, <1>9, <1>10, <1>11

\* The tenth byte ends the header.
LEMMA EndStep ==
    ASSUME NEW p \in Parsers, NEW x, Sendable(x), NEW w, Carries(w, x), NEW c,
           HeaderAt(p, 9, x), NEW q, q = parse_byte(c, p, w[10])
    PROVE  /\ Known(q, x) /\ q.raw = Append(p.raw, w[10])
           /\ Foreign(c, x) => ForwardAt(q, 10, x)
           /\ ~Foreign(c, x) => LocalAt(q, 10, x, w)
           /\ p.state \notin {"Forward", "Checksum"}
<1> DEFINE n == Len(x.payload)
<1>1. n \in Nat /\ n < 256 /\ x.payload \in Seq(Byte) /\ n \in Byte
  BY DEF Sendable, Byte
<1>2. w[10] = n
  BY DEF Carries
<1>3. /\ p.state = "Length" /\ p.read = 3 /\ p.pkt.plen = 0 /\ p.pkt.payload = <<>>
      /\ p.pkt.sys = x.sys /\ p.pkt.comp = x.comp /\ p.pkt.msg = x.msg /\ p.pkt.seq = x.seq
  BY DEF HeaderAt
<1>4. Foreign(c, p.pkt) <=> Foreign(c, x)
  BY <1>3 DEF Foreign
<1>5. /\ q.raw = Append(p.raw, w[10]) /\ SameHeader(p, q) /\ q.len = n /\ q.read = 0
      /\ n = 0 => q.state = "Checksum" /\ q.pkt.payload = p.pkt.payload
      /\ n # 0 /\ Foreign(c, p.pkt) => q.state = "Forward"
      /\ n # 0 /\ ~Foreign(c, p.pkt) =>
           q.state = "Payload" /\ q.pkt.payload \in Seq(Byte) /\ Len(q.pkt.payload) = n
  BY <1>1, <1>2, <1>3, HeaderEndIs
<1>6. Known(q, x)
  BY <1>3, <1>5 DEF Known, SameHeader
<1>7. n = 0 <=> x.payload = <<>>
  BY <1>1
<1>8. ASSUME Foreign(c, x) PROVE ForwardAt(q, 10, x)
  BY <1>4, <1>5, <1>7, <1>8 DEF ForwardAt
<1>9. ASSUME ~Foreign(c, x) PROVE LocalAt(q, 10, x, w)
  <2>1. CASE n = 0
    BY <1>3, <1>5, <1>7, <2>1 DEF LocalAt
  <2>2. CASE n # 0
    BY <1>1, <1>4, <1>5, <1>9, <2>2 DEF LocalAt
  <2> QED
    BY <2>1, <2>2
<1> QED
  BY <1>3, <1>5, <1>6, <1>8, <1>9

\* What is done with a packet depends on what was sent only.
LEMMA ForwardedSame ==
    ASSUME NEW q, NEW x, Known(q, x), NEW w
    PROVE  Forwarded(q.pkt, w) = Forwarded(x, w)
BY DEF Forwarded, Known

LEMMA HandledSame ==
    ASSUME NEW q, NEW x, Known(q, x), q.pkt.payload = x.payload
    PROVE  Handled(q.pkt) = Handled(x)
<1>1. Acked(q.pkt) = Acked(x) /\ Dispatched(q.pkt) = Dispatched(x) /\ AckFor(q.pkt) = AckFor(x)
  BY DEF Acked, Dispatched, AckFor, Known
<1> QED
  BY <1>1 DEF Handled, Known

\* After the header, of a frame for another system.
LEMMA ForwardStep ==
    ASSUME NEW p \in Parsers, NEW x, Sendable(x), NEW w, Carries(w, x), NEW c, Foreign(c, x),
           NEW k, k \in Nat, k >= 10, k < Len(w),
           x.payload # <<>> => \A i \in 12..Len(w) : w[i] \notin SOT,
           Known(p, x), ForwardAt(p, k, x), NEW q, q = parse_byte(c, p, w[k + 1])
    PROVE  /\ Known(q, x) /\ ForwardAt(q, k + 1, x)
           /\ Output(p, q, w) = IF k + 1 = IF x.payload # <<>> THEN 11 ELSE Len(w)
                                THEN Forwarded(x, w) ELSE <<>>
<1>1. w[k + 1] \in Byte /\ Len(w) \in Nat /\ k + 1 \in Nat /\ k + 1 <= Len(w)
  <2>1. w \in Seq(Byte)
    BY DEF Carries
  <2> QED
    BY <2>1
<1>2. Foreign(c, p.pkt)
  BY DEF Foreign, Known
<1>3. ASSUME p.state = "Forward"
      PROVE  q.state = "Start" /\ Known(q, x) /\ Output(p, q, w) = Forwarded(x, w)
  <2>1. q.state = "Start" /\ q.pkt = p.pkt
    BY <1>1, <1>3, ForwardIs
  <2>2. Known(q, x)
    BY <2>1 DEF Known
  <2>3. Status(p, q) = "StreamForwardByte"
    BY <1>3 DEF Status
  <2>4. Output(p, q, w) = Forwarded(q.pkt, w)
    BY <2>3 DEF Output
  <2> QED
    BY <2>1, <2>2, <2>4, ForwardedSame
<1>4. CASE x.payload = <<>>
  <2>1. Len(w) = 12
    BY <1>4 DEF Carries
  <2>2. CASE k = 10
    <3>1. p.state = "Checksum" /\ p.read = 0
      BY <1>4, <2>2 DEF ForwardAt
    <3>2. q.state = "Forward" /\ SameHeader(p, q)
      BY <1>1, <1>2, <3>1, ChecksumStepIs
    <3>3. Known(q, x)
      BY <3>2 DEF Known, SameHeader
    <3>4. Output(p, q, w) = <<>>
      BY <3>1, Quiet
    <3> QED
      BY <1>4, <2>1, <2>2, <3>2, <3>3, <3>4 DEF ForwardAt
  <2>3. CASE k = 11
    <3>1. p.state = "Forward"
      BY <1>4, <2>3 DEF ForwardAt
    <3> QED
      BY <1>3, <1>4, <2>1, <2>3, <3>1 DEF ForwardAt
  <2> QED
    BY <2>1, <2>2, <2>3
<1>5. CASE x.payload # <<>>
  <2>1. CASE k = 10
    <3>1. p.state = "Forward"
      BY <1>5, <2>1 DEF ForwardAt
    <3> QED
      BY <1>3, <1>5, <2>1, <3>1 DEF ForwardAt
  <2>2. CASE k # 10
    <3>1. p.state = "Start"
      BY <1>5, <2>2 DEF ForwardAt
    <3>2. k + 1 \in 12..Len(w) /\ k + 1 # 11 /\ k + 1 # 10
      BY <1>1, <2>2
    <3>3. w[k + 1] \notin SOT
      BY <1>5, <3>2
    <3>4. q = p
      BY <1>1, <3>1, <3>3, StartIs
    <3>5. Output(p, q, w) = <<>>
      BY <3>1, Quiet
    <3> QED
      BY <1>5, <3>1, <3>2, <3>4, <3>5 DEF ForwardAt
  <2> QED
    BY <2>1, <2>2
<1> QED
  BY <1>4, <1>5

LEMMA PayloadWhole ==
    ASSUME NEW s, NEW t, NEW n, n \in Nat, s \in Seq(Byte), t \in Seq(Byte), Len(s) = n, Len(t) = n,
           \A i \in 1..n : s[i] = t[i]
    PROVE  s = t
BY SeqEqual

\* After the header, of a frame that is kept.
LEMMA LocalStep ==
    ASSUME NEW p \in Parsers, NEW x, Sendable(x), NEW w, Carries(w, x), NEW c, ~Foreign(c, x),
           NEW k, k \in Nat, k >= 10, k < Len(w), Raw(p, k, x, w),
           Known(p, x), LocalAt(p, k, x, w), NEW q, q = parse_byte(c, p, w[k + 1])
    PROVE  /\ Known(q, x) /\ LocalAt(q, k + 1, x, w) /\ Raw(q, k + 1, x, w)
           /\ Output(p, q, w) = IF k + 1 = Len(w) /\ Intact(w, Len(x.payload))
                                THEN Handled(x) ELSE <<>>
<1> DEFINE n == Len(x.payload)
<1>1. /\ w[k + 1] \in Byte /\ w \in Seq(Byte) /\ Len(w) = n + 12 /\ n \in Nat
      /\ x.payload \in Seq(Byte) /\ n < 256 /\ w[n + 11] \in Byte /\ w[n + 12] \in Byte
  <2>1. /\ w \in Seq(Byte) /\ Len(w) = n + 12 /\ n \in Nat
        /\ x.payload \in Seq(Byte) /\ n < 256
    BY DEF Carries, Sendable
  <2> HIDE DEF n
  <2>2. k + 1 \in 1..Len(w) /\ n + 11 \in 1..Len(w) /\ n + 12 \in 1..Len(w)
    BY <2>1
  <2> QED
    BY <2>1, <2>2
<1>2. ~Foreign(c, p.pkt)
  BY DEF Foreign, Known
<1>3. CASE k < n + 10
  <2> DEFINE j == k - 9
             s == p.pkt.payload
             t == q.pkt.payload
  <2>1. /\ p.state = "Payload" /\ p.read = k - 10 /\ p.len = n
        /\ s \in Seq(Byte) /\ Len(s) = n
        /\ \A i \in 1..(k - 10) : s[i] = x.payload[i]
    BY <1>3 DEF LocalAt
  <2>2. /\ q.raw = Append(p.raw, w[k + 1]) /\ SameHeader(p, q) /\ q.len = n
        /\ t = Put(s, j, w[k + 1])
        /\ k - 9 >= n => q.state = "Checksum" /\ q.read = 0
        /\ ~(k - 9 >= n) => q.state = "Payload" /\ q.read = k - 9
    <3>1. p.read + 1 = k - 9
      BY <2>1
    <3>2. /\ q.raw = Append(p.raw, w[k + 1]) /\ SameHeader(p, q) /\ q.len = p.len
          /\ t = Put(s, p.read + 1, w[k + 1])
          /\ p.read + 1 >= p.len => q.state = "Checksum" /\ q.read = 0
          /\ ~(p.read + 1 >= p.len) => q.state = "Payload" /\ q.read = p.read + 1
      <4>1. w[k + 1] \in Byte /\ p.state = "Payload"
        BY <1>1, <2>1
      <4> QED
        BY ONLY p \in Parsers, q = parse_byte(c, p, w[k + 1]), <4>1, PayloadIs
    <3> QED
      BY <2>1, <3>1, <3>2, Zenon
  <2>3. Known(q, x)
    BY <2>2 DEF Known, SameHeader
  <2>4. Raw(q, k + 1, x, w)
    <3>1. k >= 1 /\ k <= n + 9
      BY <1>1, <1>3
    <3> QED
      BY <1>1, <2>2, <3>1, RawStep
  <2>5. Output(p, q, w) = <<>>
    BY <2>1, Quiet
  <2>6. j \in 1..n /\ w[k + 1] = x.payload[j]
    <3>1. j \in 1..n /\ j + 10 = k + 1
      BY ONLY k \in Nat, k >= 10, <1>1, <1>3
    <3>2. w[j + 10] = x.payload[j]
      BY <3>1 DEF Carries
    <3> QED
      BY <3>1, <3>2
  <2>7. /\ t \in Seq(Byte) /\ Len(t) = n
        /\ \A i \in 1..n : t[i] = IF i = j THEN w[k + 1] ELSE s[i]
    BY ONLY <1>1, <2>1, <2>2, <2>6, ExceptSeq DEF Put
  <2> HIDE DEF s, t
  <2>8. \A i \in 1..j : t[i] = x.payload[i]
    <3> SUFFICES ASSUME NEW i \in 1..j PROVE t[i] = x.payload[i]
      OBVIOUS
    <3>1. i \in 1..n /\ (i = j \/ i \in 1..(k - 10))
      BY <2>6
    <3> QED
      BY <2>1, <2>6, <2>7, <3>1
  <2>9. LocalAt(q, k + 1, x, w)
    <3>1. CASE k + 1 < n + 10
      <4>1. ~(k - 9 >= n) /\ k + 1 - 10 = j /\ k - 9 = j
        BY <3>1, <1>1
      <4>2. /\ k + 1 < n + 10 /\ ~(k + 1 >= n + 10) /\ k + 1 # n + 10 /\ k + 1 # n + 11
            /\ k + 1 # n + 12
        BY <3>1, <1>1
      <4> QED
        BY <2>2, <2>7, <2>8, <4>1, <4>2 DEF LocalAt, t
    <3>2. CASE ~(k + 1 < n + 10)
      <4>1. k + 1 = n + 10 /\ k - 9 >= n /\ j = n
        BY <1>1, <1>3, <3>2
      <4>2. t = x.payload
        BY <1>1, <2>7, <2>8, <4>1, PayloadWhole
      <4>3. q.state = "Checksum" /\ q.read = 0
        BY <2>2, <4>1
      <4>4. /\ ~(n + 10 < n + 10) /\ n + 10 # n + 11 /\ n + 10 # n + 12
        BY <1>1
      <4> QED
        BY <4>1, <4>2, <4>3, <4>4 DEF LocalAt, t
    <3> QED
      BY <3>1, <3>2
  <2>10. k + 1 # Len(w)
    BY <1>1, <1>3
  <2> QED
    BY <2>3, <2>4, <2>5, <2>9, <2>10
<1>4. CASE k = n + 10
  <2>1. p.state = "Checksum" /\ p.read = 0 /\ p.pkt.payload = x.payload
    BY <1>1, <1>4 DEF LocalAt
  <2>2. /\ q.raw = p.raw /\ SameHeader(p, q) /\ q.pkt.payload = x.payload
        /\ q.state = "Checksum" /\ q.read = 1 /\ q.pkt.sum = w[k + 1] * 256
    BY <1>1, <1>2, <2>1, ChecksumStepIs
  <2>3. Known(q, x)
    BY <2>2 DEF Known, SameHeader
  <2>4. k + 1 = n + 11 /\ k \in 1..(n + 10) /\ n + 11 \notin 1..(n + 10) /\ n + 11 # n + 12
        /\ ~(n + 11 < n + 10) /\ n + 11 # n + 10
    BY <1>1, <1>4
  <2>5. Raw(q, k + 1, x, w)
    BY <1>4, <2>2, <2>4 DEF Raw
  <2>6. Output(p, q, w) = <<>>
    BY <2>1, Quiet
  <2>7. LocalAt(q, k + 1, x, w)
    BY <2>2, <2>4 DEF LocalAt
  <2> QED
    BY <1>1, <2>3, <2>4, <2>5, <2>6, <2>7
<1>5. CASE k = n + 11
  <2>0. /\ k + 1 = n + 12 /\ n + 12 \notin 1..(n + 10) /\ n + 12 # n + 11
        /\ ~(n + 12 < n + 10) /\ n + 12 # n + 10
        /\ ~(n + 11 < n + 10) /\ n + 11 >= n + 10 /\ n + 12 >= n + 10 /\ n + 11 \notin 1..(n + 10)
    BY <1>1, <1>5
  <2>1. /\ p.state = "Checksum" /\ p.read = 1 /\ p.pkt.payload = x.payload
        /\ p.pkt.sum = w[n + 11] * 256 /\ p.raw = SubSeq(w, 1, n + 10)
    BY <1>5, <2>0 DEF LocalAt, Raw
  <2>2. /\ SameHeader(p, q) /\ q.pkt.payload = x.payload
        /\ q.state = "Start" /\ q.pkt.sum = w[n + 11] * 256 + w[n + 12]
    BY <1>1, <2>0, <2>1, ChecksumStepIs
  <2>3. Known(q, x)
    BY <2>2 DEF Known, SameHeader
  <2>4. Raw(q, k + 1, x, w)
    BY <2>0 DEF Raw
  <2>5. LocalAt(q, k + 1, x, w)
    BY <2>0, <2>2 DEF LocalAt
  <2>6. CASE Intact(w, n)
    <3>1. checksum(p.raw) = q.pkt.sum
      BY <2>1, <2>2, <2>6 DEF Intact
    <3>2. Status(p, q) = "Complete"
      BY <2>1, <3>1 DEF Status
    <3>3. Output(p, q, w) = Handled(q.pkt)
      BY <3>2 DEF Output
    <3> QED
      BY <1>1, <2>0, <2>2, <2>3, <2>4, <2>5, <2>6, <3>3, HandledSame
  <2>7. CASE ~Intact(w, n)
    <3>1. checksum(p.raw) # q.pkt.sum
      BY <2>1, <2>2, <2>7 DEF Intact
    <3>2. Status(p, q) = "Processing"
      BY <2>1, <3>1 DEF Status
    <3>3. Output(p, q, w) = <<>>
      BY <3>2 DEF Output
    <3> QED
      BY <2>3, <2>4, <2>5, <2>7, <3>3
  <2> QED
    BY <2>6, <2>7
<1> QED
  BY <1>1, <1>3, <1>4, <1>5

-----------------------------------------------------------------------------
(* The effects of a message *)

\* What has to happen to a message, case by case.
LEMMA ExpectedIs ==
    ASSUME NEW c \in Conns, NEW m \in Messages
    PROVE  /\ m.fault # "none" => Expected[c][m] = <<>>
           /\ m.fault = "none" /\ Foreign(c, m.pkt) => Expected[c][m] = Forwarded(m.pkt, Wire[m])
           /\ m.fault = "none" /\ ~Foreign(c, m.pkt) => Expected[c][m] = Handled(m.pkt)
<1>1. m.fault = "none" => Wire[m] = serialize(m.pkt)
  BY DEF Wire
<1> DEFINE e(n) ==
        CASE n.fault # "none" -> <<>>
          [] n.fault = "none" /\ Foreign(c, n.pkt) -> Forwarded(n.pkt, serialize(n.pkt))
          [] OTHER -> Handled(n.pkt)
<1>2. Expected[c] = [n \in Messages |-> e(n)]
  BY DEF Expected
<1> HIDE DEF e
<1>3. Expected[c][m] = e(m)
  BY <1>2
<1> QED
  BY <1>1, <1>3 DEF e

\* Everything that traffic may cause.
Events == {Expected[c][m][i] : c \in Conns, m \in Messages, i \in 1..2}

\* A sequence of at most two.
AtMostTwo(s) == s = <<>> \/ (\E a : s = <<a>>) \/ (\E a, b : s = <<a, b>>)

\* A packet has two effects at most: the effects are sequences of events.
LEMMA SendViaFew ==
    ASSUME NEW i, NEW e
    PROVE  SendVia(i, e) = <<>> \/ SendVia(i, e) = <<e>>
BY DEF SendVia

LEMMA PairIs ==
    ASSUME NEW a, NEW b
    PROVE  <<a>> \o <<>> = <<a>> /\ <<a>> \o <<b>> = <<a, b>>
<1> DEFINE S == {a, b}
<1>1. <<a>> \in Seq(S) /\ <<b>> \in Seq(S) /\ <<a, b>> \in Seq(S) /\ <<>> \in Seq(S)
  OBVIOUS
<1>2. /\ <<a>> \o <<b>> \in Seq(S) /\ Len(<<a>> \o <<b>>) = 2
      /\ (<<a>> \o <<b>>)[1] = a /\ (<<a>> \o <<b>>)[2] = b
  BY <1>1, ConcatProperties
<1>3. <<a>> \o <<b>> = <<a, b>>
  <2> DEFINE t == <<a>> \o <<b>>
  <2> HIDE DEF t
  <2>1. t \in Seq(S) /\ Len(t) = 2 /\ t[1] = a /\ t[2] = b
    BY <1>2 DEF t
  <2>2. t = <<t[1], t[2]>>
    BY ONLY <2>1
  <2> QED
    BY <2>1, <2>2 DEF t
<1>4. <<a>> \o <<>> = <<a>>
  BY <1>1, ConcatEmptySeq
<1> QED
  BY <1>3, <1>4

LEMMA HandledFew == ASSUME NEW x PROVE AtMostTwo(Handled(x))
<1> DEFINE t == determine_routing_target(x.sys, x.comp)
           e == [do |-> "send", bytes |-> serialize(AckFor(x)), via |-> t]
           d == [do |-> "dispatch", msg |-> x.msg, seq |-> x.seq, payload |-> x.payload]
           r == [do |-> "resolve", seq |-> x.payload[3] + 256 * x.payload[4],
                 result |-> x.payload[5]]
<1>1. CASE x.msg = MSG_ID_COMMAND_ACK
  <2>1. Handled(x) = Acked(x)
    BY <1>1 DEF Handled, MSG_ID_COMMAND_ACK, MSG_ID_USER_COMMAND
  <2>2. Acked(x) = <<r>> \/ Acked(x) = <<>>
    BY DEF Acked
  <2> HIDE DEF r
  <2> QED
    BY <2>1, <2>2, Zenon DEF AtMostTwo
<1>2. CASE x.msg # MSG_ID_COMMAND_ACK /\ x.msg = MSG_ID_USER_COMMAND
  <2>1. Handled(x) = <<d>> \o SendVia(t, e)
    BY <1>2 DEF Handled, Dispatched
  <2>2. SendVia(t, e) = <<>> \/ SendVia(t, e) = <<e>>
    BY SendViaFew
  <2> HIDE DEF d, e, t
  <2>3. <<d>> \o <<>> = <<d>> /\ <<d>> \o <<e>> = <<d, e>>
    BY PairIs
  <2> QED
    BY <2>1, <2>2, <2>3, Zenon DEF AtMostTwo
<1>3. CASE x.msg # MSG_ID_COMMAND_ACK /\ x.msg # MSG_ID_USER_COMMAND
  <2>1. Handled(x) = <<d>>
    BY <1>3 DEF Handled, Dispatched
  <2> HIDE DEF d
  <2> QED
    BY <2>1, Zenon DEF AtMostTwo
<1> QED
  BY <1>1, <1>2, <1>3

LEMMA ExpectedFew ==
    ASSUME NEW c \in Conns, NEW m \in Messages
    PROVE  AtMostTwo(Expected[c][m])
<1>1. CASE m.fault # "none"
  BY <1>1, ExpectedIs DEF AtMostTwo
<1>2. CASE m.fault = "none" /\ Foreign(c, m.pkt)
  <2> DEFINE t == determine_routing_target(m.pkt.sys, m.pkt.comp)
             e == [do |-> "send", bytes |-> Wire[m], via |-> t]
  <2>1. Expected[c][m] = SendVia(t, e)
    BY <1>2, ExpectedIs DEF Forwarded
  <2> HIDE DEF e, t
  <2> QED
    BY <2>1, SendViaFew, Zenon DEF AtMostTwo
<1>3. CASE m.fault = "none" /\ ~Foreign(c, m.pkt)
  BY <1>3, ExpectedIs, HandledFew
<1> QED
  BY <1>1, <1>2, <1>3

LEMMA ExpectedType ==
    ASSUME NEW c \in Conns, NEW m \in Messages
    PROVE  Expected[c][m] \in Seq(Events)
<1> DEFINE s == Expected[c][m]
<1>1. AtMostTwo(s) /\ \A i \in 1..2 : s[i] \in Events
  BY ExpectedFew DEF Events
<1> HIDE DEF s
<1>2. ASSUME s = <<>> PROVE s \in Seq(Events)
  BY <1>2
<1>3. ASSUME NEW a, s = <<a>> PROVE s \in Seq(Events)
  <2>1. s[1] = a /\ 1 \in 1..2
    BY <1>3
  <2>2. a \in Events
    BY <1>1, <2>1
  <2> QED
    BY <1>3, <2>2
<1>4. ASSUME NEW a, NEW b, s = <<a, b>> PROVE s \in Seq(Events)
  <2>1. s[1] = a /\ s[2] = b /\ 1 \in 1..2 /\ 2 \in 1..2
    BY <1>4
  <2>2. a \in Events /\ b \in Events
    BY <1>1, <2>1
  <2> QED
    BY <1>4, <2>2
<1>5. s \in Seq(Events)
  BY <1>1, <1>2, <1>3, <1>4, Zenon DEF AtMostTwo
<1> QED
  BY <1>5 DEF s

\* Effects are due after the header, at the end of the datagram at the latest.
LEMMA DueIs ==
    ASSUME WellFormed, NEW c \in Conns, NEW m \in Messages, m.fault # "noise"
    PROVE  /\ Len(Wire[m]) \in Nat /\ DueAt(c, m) \in 11..Len(Wire[m])
           /\ Foreign(c, m.pkt) => DueAt(c, m) = IF m.pkt.payload # <<>> THEN 11 ELSE Len(Wire[m])
           /\ ~Foreign(c, m.pkt) => DueAt(c, m) = Len(Wire[m])
<1>1. Carries(Wire[m], m.pkt) /\ Sendable(m.pkt)
  BY WireCarries DEF WellFormed
<1>2. Len(m.pkt.payload) \in Nat /\ Len(Wire[m]) = Len(m.pkt.payload) + 12
  BY <1>1 DEF Carries, Sendable
<1> QED
  BY <1>2 DEF DueAt

\* Nothing is due before the first byte, everything after the last.
LEMMA EmittedEnds ==
    ASSUME WellFormed, NEW c \in Conns, NEW m \in Messages
    PROVE  Emitted(c, m, 0) = <<>> /\ Emitted(c, m, Len(Wire[m])) = Expected[c][m]
<1>1. CASE m.fault = "noise"
  BY <1>1, ExpectedIs DEF Emitted
<1>2. CASE m.fault # "noise"
  <2>1. Len(Wire[m]) \in Nat /\ DueAt(c, m) \in 11..Len(Wire[m])
    BY <1>2, DueIs
  <2> QED
    BY <2>1 DEF Emitted
<1> QED
  BY <1>1, <1>2

\* The parser waits for a start byte after the last byte of a datagram.
LEMMA EndsInStart ==
    ASSUME WellFormed, NEW c \in Conns, NEW m \in Messages, NEW p, At(c, m, p, Len(Wire[m]))
    PROVE  p.state = "Start"
<1>1. CASE m.fault = "noise"
  BY <1>1 DEF At
<1>2. CASE m.fault # "noise"
  <2> DEFINE k == Len(Wire[m])
             x == m.pkt
             w == Wire[m]
  <2>1. Carries(w, x) /\ Sendable(x)
    BY <1>2, WireCarries DEF WellFormed
  <2>2. Len(x.payload) \in Nat /\ k = Len(x.payload) + 12
    BY <2>1 DEF Carries, Sendable
  <2>3. k # 0 /\ k >= 10 /\ k # 10 /\ ~(k <= 9)
    BY <2>2
  <2>4. /\ Foreign(c, x) => ForwardAt(p, k, x)
        /\ ~Foreign(c, x) => LocalAt(p, k, x, w)
    BY <1>2, <2>3 DEF At
  <2> HIDE DEF k, x, w
  <2>5. CASE Foreign(c, x)
    <3>1. x.payload = <<>> => k = 12
      BY <2>2
    <3> QED
      BY <2>3, <2>4, <2>5, <3>1 DEF ForwardAt
  <2>6. CASE ~Foreign(c, x)
    BY <2>2, <2>4, <2>6 DEF LocalAt
  <2> QED
    BY <2>5, <2>6
<1> QED
  BY <1>1, <1>2

\* Where in a frame a byte may be.
LEMMA ByteCases ==
    ASSUME NEW k, k \in Nat
    PROVE  k = 0 \/ k \in 1..8 \/ k = 9 \/ k >= 10
OBVIOUS

\* The parser goes from p to q with byte k + 1 of message m.
Advances(c, m, p, q, w, k) ==
    /\ At(c, m, q, k + 1)
    /\ Emitted(c, m, k + 1) = Emitted(c, m, k) \o Output(p, q, w)
    /\ Output(p, q, w) \in {<<>>, Expected[c][m]}

\* One byte more of a datagram goes into its parser.
LEMMA ByteStep ==
    ASSUME WellFormed, NEW c \in Conns, NEW m \in Messages, NEW p \in Parsers,
           NEW w, w = Wire[m], NEW k, k \in Nat, k < Len(w), At(c, m, p, k),
           NEW q, q = parse_byte(c, p, w[k + 1])
    PROVE  Advances(c, m, p, q, w, k)
<1> SUFFICES /\ At(c, m, q, k + 1)
             /\ Emitted(c, m, k + 1) = Emitted(c, m, k) \o Output(p, q, w)
             /\ Output(p, q, w) \in {<<>>, Expected[c][m]}
  BY DEF Advances
<1> DEFINE x == m.pkt
           n == Len(x.payload)
           e == Expected[c][m]
<1>0. w \in Seq(Byte) /\ Len(w) \in Nat /\ w[k + 1] \in Byte
  <2>1. w \in Seq(Byte)
    BY ReceiveAssumption
  <2> QED
    BY <2>1
<1>1. e \in Seq(Events) /\ <<>> \in Seq(Events) /\ <<>> \o <<>> = <<>> /\ <<>> \o e = e
      /\ e \o <<>> = e
  <2>1. e \in Seq(Events)
    BY ExpectedType
  <2> HIDE DEF e
  <2> QED
    BY <2>1, ConcatEmptySeq
<1>2. CASE m.fault = "noise"
  <2>1. p.state = "Start"
    BY <1>2 DEF At
  <2>2. w[k + 1] \notin SOT
    <3>1. k + 1 \in 1..Len(w)
      BY <1>0
    <3> QED
      BY <1>2, <3>1 DEF WellFormed
  <2>3. q = p
    BY <1>0, <2>1, <2>2, StartIs
  <2>4. Output(p, q, w) = <<>>
    BY <2>1, Quiet
  <2>5. e = <<>>
    BY <1>2, ExpectedIs
  <2>6. Emitted(c, m, k) = <<>> /\ Emitted(c, m, k + 1) = <<>>
    BY <2>5 DEF Emitted
  <2> QED
    BY <1>1, <1>2, <2>1, <2>3, <2>4, <2>6 DEF At
<1>3. CASE m.fault # "noise"
  <2>1. /\ Carries(w, x) /\ Sendable(x) /\ (Intact(w, n) <=> m.fault = "none")
        /\ Foreign(c, x) =>
            /\ m.fault = "none"
            /\ x.payload # <<>> => \A i \in 12..Len(w) : w[i] \notin SOT
    <3>1. Sendable(x)
      BY <1>3 DEF WellFormed
    <3>2. Carries(w, x) /\ (Intact(w, n) <=> m.fault = "none")
      BY <1>3, WireCarries
    <3>3. Foreign(c, x) =>
            /\ m.fault = "none"
            /\ x.payload # <<>> => \A i \in 12..Len(w) : w[i] \notin SOT
      BY <1>3 DEF WellFormed
    <3> QED
      BY <3>1, <3>2, <3>3
  <2>2. n \in Nat /\ Len(w) = n + 12
    BY <2>1 DEF Carries, Sendable
  <2>3. /\ DueAt(c, m) \in 11..Len(w)
        /\ Foreign(c, x) => DueAt(c, m) = IF x.payload # <<>> THEN 11 ELSE Len(w)
        /\ ~Foreign(c, x) => DueAt(c, m) = Len(w)
    BY <1>3, DueIs
  <2>4. /\ Foreign(c, x) => e = Forwarded(x, w)
        /\ ~Foreign(c, x) => e = IF Intact(w, n) THEN Handled(x) ELSE <<>>
    BY <2>1, ExpectedIs
  <2>5. ASSUME k + 1 <= 10, Output(p, q, w) = <<>>
        PROVE  /\ Emitted(c, m, k + 1) = Emitted(c, m, k) \o Output(p, q, w)
               /\ Output(p, q, w) \in {<<>>, Expected[c][m]}
    <3>1. ~(k + 1 >= DueAt(c, m)) /\ ~(k >= DueAt(c, m))
      BY <2>3, <2>5
    <3> QED
      BY <1>1, <2>5, <3>1 DEF Emitted
  <2>6. CASE k = 0
    <3>1. p.state = "Start"
      BY <2>6 DEF At
    <3>2. w[1] \in SOT
      BY <2>1 DEF Carries, Sendable
    <3>3. q.state = "System" /\ q.read = 0 /\ q.raw = <<w[1]>> /\ q.pkt.payload = <<>>
      BY <1>0, <2>6, <3>1, <3>2, StartIs
    <3>4. HeaderAt(q, 1, x)
      BY <3>3 DEF HeaderAt
    <3>5. Raw(q, 1, x, w)
      <4> DEFINE t == SubSeq(w, 1, 1)
      <4>2. t \in Seq(Byte) /\ Len(t) = 1 /\ t[1] = w[1]
        BY ONLY <1>0, <2>2
      <4> HIDE DEF t
      <4>3. t = <<t[1]>> /\ 1 # n + 11
        BY ONLY <2>2, <4>2
      <4>1. SubSeq(w, 1, 1) = <<w[1]>> /\ 1 # n + 11
        BY <4>2, <4>3 DEF t
      <4> QED
        BY <3>3, <4>1 DEF Raw
    <3>6. Output(p, q, w) = <<>>
      BY <3>1, Quiet
    <3> QED
      BY <1>3, <2>5, <2>6, <3>4, <3>5, <3>6 DEF At
  <2>7. CASE k \in 1..8
    <3>1. HeaderAt(p, k, x) /\ Raw(p, k, x, w)
      BY <1>3, <2>7 DEF At
    <3>2. /\ HeaderAt(q, k + 1, x) /\ q.raw = Append(p.raw, w[k + 1])
          /\ p.state \notin {"Forward", "Checksum"}
      <4>1. /\ HeaderAt(q, k + 1, x) /\ Records(p, q, w[k + 1])
            /\ p.state \notin {"Forward", "Checksum"}
        BY <2>1, <2>7, <3>1, HeaderStep
      <4> QED
        BY <4>1 DEF Records
    <3>3. Raw(q, k + 1, x, w)
      <4>1. k >= 1 /\ k <= n + 9
        BY <2>2, <2>7
      <4> QED
        BY <1>0, <2>2, <3>1, <3>2, <4>1, RawStep
    <3>4. Output(p, q, w) = <<>>
      BY <3>2, Quiet
    <3>5. k + 1 # 0 /\ k + 1 <= 9 /\ ~(k + 1 >= 10) /\ k + 1 <= 10
      BY <2>7
    <3> QED
      BY <1>3, <2>5, <3>2, <3>3, <3>4, <3>5 DEF At
  <2>8. CASE k = 9
    <3>1. HeaderAt(p, 9, x) /\ Raw(p, 9, x, w)
      BY <1>3, <2>8 DEF At
    <3>2. /\ Known(q, x) /\ q.raw = Append(p.raw, w[10])
          /\ Foreign(c, x) => ForwardAt(q, 10, x)
          /\ ~Foreign(c, x) => LocalAt(q, 10, x, w)
          /\ p.state \notin {"Forward", "Checksum"}
      BY <2>1, <2>8, <3>1, EndStep
    <3>3. Raw(q, k + 1, x, w)
      <4>1. k >= 1 /\ k <= n + 9 /\ w[10] = w[k + 1] /\ Raw(p, k, x, w)
        BY <2>2, <2>8, <3>1
      <4> QED
        BY <1>0, <2>2, <3>2, <4>1, RawStep
    <3>4. Output(p, q, w) = <<>>
      BY <3>2, Quiet
    <3>5. k + 1 = 10
      BY <2>8
    <3> QED
      BY <1>3, <2>5, <3>2, <3>3, <3>4, <3>5 DEF At
  <2>9. CASE k >= 10
    <3>0. k # 0 /\ ~(k <= 9) /\ k + 1 # 0 /\ ~(k + 1 <= 9) /\ k + 1 >= 10 /\ ~(k + 1 <= 10)
      BY <2>9
    <3>1. Known(p, x)
      BY <1>3, <2>9, <3>0 DEF At
    <3>2. CASE Foreign(c, x)
      <4>1. ForwardAt(p, k, x)
        BY <1>3, <2>9, <3>0, <3>2 DEF At
      <4>2. /\ Known(q, x) /\ ForwardAt(q, k + 1, x)
            /\ Output(p, q, w) = IF k + 1 = DueAt(c, m) THEN e ELSE <<>>
        BY <2>1, <2>3, <2>4, <2>9, <3>1, <3>2, <4>1, ForwardStep
      <4>3. At(c, m, q, k + 1)
        BY <1>3, <3>0, <3>2, <4>2 DEF At
      <4>4. Emitted(c, m, k + 1) = Emitted(c, m, k) \o Output(p, q, w)
        <5> DEFINE d == DueAt(c, m)
        <5>1. d \in Nat /\ (k + 1 < d \/ k + 1 = d \/ k >= d)
          BY <2>3
        <5> HIDE DEF d
        <5>2. CASE k + 1 < d
          <6>1. k + 1 # d /\ ~(k + 1 >= d) /\ ~(k >= d)
            BY <5>1, <5>2
          <6> QED
            BY <1>1, <4>2, <6>1 DEF Emitted, d
        <5>3. CASE k + 1 = d
          <6>1. k + 1 >= d /\ ~(k >= d)
            BY <5>1, <5>3
          <6> QED
            BY <1>1, <4>2, <5>3, <6>1 DEF Emitted, d
        <5>4. CASE k >= d
          <6>1. k + 1 # d /\ k + 1 >= d
            BY <5>1, <5>4
          <6> QED
            BY <1>1, <4>2, <5>4, <6>1 DEF Emitted, d
        <5> QED
          BY <5>1, <5>2, <5>3, <5>4
      <4> QED
        BY <4>2, <4>3, <4>4
    <3>3. CASE ~Foreign(c, x)
      <4>1. LocalAt(p, k, x, w) /\ Raw(p, k, x, w)
        BY <1>3, <2>9, <3>0, <3>3 DEF At
      <4>2. /\ Known(q, x) /\ LocalAt(q, k + 1, x, w) /\ Raw(q, k + 1, x, w)
            /\ Output(p, q, w) = IF k + 1 = Len(w) /\ Intact(w, n) THEN Handled(x) ELSE <<>>
        BY <2>1, <2>9, <3>1, <3>3, <4>1, LocalStep
      <4>3. At(c, m, q, k + 1)
        BY <1>3, <3>0, <3>3, <4>2 DEF At
      <4>4. Emitted(c, m, k + 1) = Emitted(c, m, k) \o Output(p, q, w)
        <5>1. DueAt(c, m) = Len(w) /\ ~(k >= Len(w))
          BY <1>0, <2>3, <3>3
        <5>2. Emitted(c, m, k) = <<>>
          BY <5>1 DEF Emitted
        <5>3. Output(p, q, w) = IF k + 1 >= Len(w) THEN e ELSE <<>>
          BY <1>0, <2>4, <3>3, <4>2
        <5> QED
          BY <1>1, <5>1, <5>2, <5>3 DEF Emitted
      <4> QED
        BY <2>4, <3>3, <4>2, <4>3, <4>4
    <3> QED
      BY <3>2, <3>3
  <2>10. k = 0 \/ k \in 1..8 \/ k = 9 \/ k >= 10
    BY ByteCases
  <2> QED
    BY <2>6, <2>7, <2>8, <2>9, <2>10, Zenon
<1> QED
  BY <1>2, <1>3

-----------------------------------------------------------------------------
(* The effects of many messages *)

\* The last message of a connection, and those before it.
LEMMA FrontLast ==
    ASSUME NEW s, s \in Seq(Messages), s # <<>>
    PROVE  /\ Front(s) \in Seq(Messages) /\ Last(s) \in Messages
           /\ s = Append(Front(s), Last(s))
<1> DEFINE n == Len(s)
           t == SubSeq(s, 1, n - 1)
<1>1. n \in Nat /\ n >= 1 /\ s[n] \in Messages
  OBVIOUS
<1>2. t \in Seq(Messages) /\ Len(t) = n - 1 /\ \A i \in 1..(n - 1) : t[i] = s[i]
  <2>1. PICK j \in Nat : j = n - 1
    BY <1>1
  <2>2. /\ SubSeq(s, 1, j) \in Seq(Messages) /\ Len(SubSeq(s, 1, j)) = j
        /\ \A i \in 1..j : SubSeq(s, 1, j)[i] = s[i]
    BY <1>1, <2>1
  <2> QED
    BY <2>1, <2>2
<1> HIDE DEF t
<1>3. /\ Append(t, s[n]) \in Seq(Messages) /\ Len(Append(t, s[n])) = n
      /\ \A i \in 1..n : Append(t, s[n])[i] = s[i]
  BY <1>1, <1>2
<1>4. Append(t, s[n]) = s
  BY <1>3, SeqEqual
<1> QED
  BY <1>1, <1>2, <1>4 DEF t, Front, Last

LEMMA AppendLast ==
    ASSUME NEW s, s \in Seq(Messages), NEW m, m \in Messages
    PROVE  /\ Append(s, m) # <<>> /\ Append(s, m) \in Seq(Messages)
           /\ Front(Append(s, m)) = s /\ Last(Append(s, m)) = m
<1> DEFINE t == Append(s, m)
<1>1. /\ t \in Seq(Messages) /\ Len(t) = Len(s) + 1 /\ t[Len(t)] = m /\ t # <<>>
      /\ \A i \in 1..Len(s) : t[i] = s[i]
  BY AppendProperties
<1> HIDE DEF t
<1>2. Front(t) \in Seq(Messages) /\ Len(Front(t)) = Len(s)
      /\ \A i \in 1..Len(s) : Front(t)[i] = s[i]
  BY <1>1 DEF Front
<1>3. Front(t) = s
  BY <1>2, SeqEqual
<1> QED
  BY <1>1, <1>3 DEF Last, t

\* The expected effects of messages are those of the first ones, then those of
\* the last.
LEMMA FlatGrows ==
    ASSUME NEW c \in Conns, NEW s, s \in Seq(Messages)
    PROVE  /\ Flat(c, s) \in Seq(Events)
           /\ \A m \in Messages : Flat(c, Append(s, m)) = Flat(c, s) \o Expected[c][m]
           /\ Flat(c, <<>>) = <<>>
<1> DEFINE f(t) == [i \in 1..Len(t) |-> Expected[c][t[i]]]
<1>1. ASSUME NEW t, t \in Seq(Messages)
      PROVE  f(t) \in Seq(Seq(Events)) /\ Len(f(t)) = Len(t)
             /\ \A i \in 1..Len(t) : f(t)[i] = Expected[c][t[i]]
  <2>1. \A i \in 1..Len(t) : Expected[c][t[i]] \in Seq(Events)
    <3>1. \A i \in 1..Len(t) : t[i] \in Messages
      BY <1>1
    <3> QED
      BY <3>1, ExpectedType
  <2>2. Len(t) \in Nat
    BY <1>1
  <2> QED
    BY <2>1, <2>2
<1>2. Flat(c, s) \in Seq(Events)
  <2>1. f(s) \in Seq(Seq(Events))
    BY <1>1
  <2> HIDE DEF f
  <2>2. FlattenSeq(f(s)) \in Seq(Events)
    BY <2>1, FlattenOne
  <2> QED
    BY <2>2 DEF Flat, f
<1>3. ASSUME NEW m \in Messages
      PROVE  Flat(c, Append(s, m)) = Flat(c, s) \o Expected[c][m]
  <2> DEFINE t == Append(s, m)
             e == Expected[c][m]
  <2>1. /\ t \in Seq(Messages) /\ Len(t) = Len(s) + 1 /\ t[Len(t)] = m /\ Len(s) \in Nat
        /\ \A i \in 1..Len(s) : t[i] = s[i]
    BY AppendProperties
  <2>2. e \in Seq(Events)
    BY ExpectedType
  <2>3. f(s) \in Seq(Seq(Events)) /\ Len(f(s)) = Len(s)
        /\ \A i \in 1..Len(s) : f(s)[i] = Expected[c][s[i]]
    BY <1>1
  <2> HIDE DEF t
  <2>4. f(t) \in Seq(Seq(Events)) /\ Len(f(t)) = Len(t)
        /\ \A i \in 1..Len(t) : f(t)[i] = Expected[c][t[i]]
    BY <1>1, <2>1
  <2>9. t[Len(s) + 1] = m
    BY <2>1
  <2> HIDE DEF f
  <2>5. f(t) = Append(f(s), e)
    <3>1. PICK a : a = f(s)
      OBVIOUS
    <3>2. PICK b : b = f(t)
      OBVIOUS
    <3>3. /\ Append(a, e) \in Seq(Seq(Events)) /\ Len(Append(a, e)) = Len(s) + 1
          /\ \A i \in 1..Len(s) : Append(a, e)[i] = Expected[c][s[i]]
          /\ Append(a, e)[Len(s) + 1] = e
      <4> HIDE DEF e
      <4>1. a \in Seq(Seq(Events)) /\ Len(a) = Len(s)
            /\ \A i \in 1..Len(s) : a[i] = Expected[c][s[i]]
        BY <2>3, <3>1
      <4> QED
        BY <2>1, <2>2, <4>1, AppendProperties
    <3>4. /\ b \in Seq(Seq(Events)) /\ Len(b) = Len(s) + 1
          /\ \A i \in 1..Len(s) : b[i] = Expected[c][s[i]]
          /\ b[Len(s) + 1] = e
      BY <2>1, <2>4, <2>9, <3>2
    <3>5. \A i \in 1..(Len(s) + 1) : b[i] = Append(a, e)[i]
      <4>1. \A i \in 1..(Len(s) + 1) : i \in 1..Len(s) \/ i = Len(s) + 1
        BY <2>1
      <4> HIDE DEF e
      <4> QED
        BY <3>3, <3>4, <4>1
    <3>6. b = Append(a, e)
      <4> HIDE DEF e
      <4> QED
        BY <3>3, <3>4, <3>5, SeqEqual
    <3> QED
      BY <3>1, <3>2, <3>6
  <2>6. FlattenSeq(Append(f(s), e)) = FlattenSeq(f(s)) \o e
    <3> HIDE DEF e
    <3> QED
      BY <2>2, <2>3, FlattenAppend
  <2>7. FlattenSeq(f(t)) = FlattenSeq(f(s)) \o e
    BY <2>5, <2>6
  <2> QED
    BY <2>7 DEF Flat, f, t
<1>4. Flat(c, <<>>) = <<>>
  <2>1. f(<<>>) = <<>>
    OBVIOUS
  <2> HIDE DEF f
  <2>2. FlattenSeq(f(<<>>)) = <<>>
    BY <2>1, FlattenNone
  <2> QED
    BY <2>2 DEF Flat, f
<1> QED
  BY <1>2, <1>3, <1>4

\* The first part of a concatenation is a prefix of it.
LEMMA PrefixOfConcat ==
    ASSUME NEW S, NEW s, s \in Seq(S), NEW t, t \in Seq(S)
    PROVE  IsPrefix(s, s \o t)
<1> DEFINE u == s \o t
           n == Len(s)
<1>1. u \in Seq(S) /\ n \in Nat /\ n <= Len(u) /\ \A i \in 1..n : u[i] = s[i]
  BY ConcatProperties
<1> HIDE DEF u
<1>2. /\ SubSeq(s, 1, n) \in Seq(S) /\ SubSeq(u, 1, n) \in Seq(S)
      /\ Len(SubSeq(s, 1, n)) = n /\ Len(SubSeq(u, 1, n)) = n
      /\ \A i \in 1..n : SubSeq(s, 1, n)[i] = s[i] /\ SubSeq(u, 1, n)[i] = u[i]
  BY <1>1
<1>3. SubSeq(s, 1, n) = SubSeq(u, 1, n)
  BY <1>1, <1>2, SeqEqual
<1> QED
  BY <1>1, <1>3 DEF IsPrefix, u

-----------------------------------------------------------------------------
(* The steps of workers and receive threads *)

\* A step that leaves the connection of a datagram alone.
LEMMA UnderWaySame ==
    ASSUME NEW d, NEW e, NEW k, NEW ps, NEW as, NEW es, NEW ps2, NEW as2, NEW es2,
           e.conn = d.conn, e.bytes = d.bytes,
           d.conn \in DOMAIN ps2 => d.conn \in DOMAIN ps /\ ps2[d.conn] = ps[d.conn],
           as2[d.conn] = as[d.conn], es2[d.conn] = es[d.conn],
           UnderWay(d, k, ps, as, es)
    PROVE  UnderWay(e, k, ps2, as2, es2)
BY Zenon DEF UnderWay

\* No connection has a datagram at the start.
LEMMA InitHInv == ASSUME Init PROVE HInv
<1>1. queue = <<>> /\ \A v \in Workers : pc[v] = "idle"
  BY DEF Init
<1>2. OneAtATime
  BY <1>1 DEF OneAtATime
<1>3. \A i \in 1..Len(queue) : FALSE
  BY <1>1
<1>4. DOMAIN effects = Conns
  BY DEF Init
<1>5. ASSUME NEW c \in Conns PROVE AtRest(c, parsers, arrived, effects)
  <2>1. arrived[c] = <<>> /\ effects[c] = <<>>
    BY DEF Init
  <2>2. <<>> \in Seq(Messages)
    OBVIOUS
  <2>3. Flat(c, <<>>) = <<>>
    BY <2>2, FlatGrows
  <2>4. c \in DOMAIN parsers => parsers[c].state = "Start"
    BY DEF Init, NewParser
  <2> QED
    BY <2>1, <2>3, <2>4 DEF AtRest
<1> QED
  BY <1>1, <1>2, <1>3, <1>4, <1>5 DEF HInv

\* A datagram that waits belongs to a connection and is at its first byte.
LEMMA WaitingHas ==
    ASSUME IInv, NEW i \in 1..Len(queue)
    PROVE  /\ queue[i] \in Datagrams /\ queue[i].conn \in Conns /\ queue[i].next = 1
           /\ Len(queue) \in Nat
<1>1. queue \in Seq(Datagrams)
  BY DEF IInv, PoolInv
<1>2. queue[i] \in Datagrams
  BY <1>1
<1> QED
  BY <1>1, <1>2 DEF Datagrams

LEMMA NoneUnderWay ==
    ASSUME NEW c, ~Pending(c)
    PROVE  /\ \A i \in 1..Len(queue) : queue[i].conn # c
           /\ \A v \in Workers : pc[v] # "idle" => job[v].conn # c
BY DEF Pending

\* A datagram of a connection at rest.
LEMMA ArriveKeepsH ==
    ASSUME IInv, HInv, Paced, WellFormed, NEW c \in Conns, Arrive(c)
    PROVE  HInv'
<1> DEFINE d(m) == [conn |-> c, bytes |-> Wire[m], next |-> 1]
<1>1. PICK m \in Messages :
        /\ queue' = Append(queue, d(m))
        /\ arrived' = [arrived EXCEPT ![c] = Append(@, m)]
  BY DEF Arrive
<1>2. ~Pending(c) /\ UNCHANGED <<pc, job, parsers, effects>>
  BY DEF Arrive
<1>3. /\ \A i \in 1..Len(queue) : queue[i].conn # c
      /\ \A v \in Workers : pc[v] # "idle" => job[v].conn # c
  BY <1>2, NoneUnderWay
<1>4. PICK e : e = d(m)
  OBVIOUS
<1>5. e.conn = c /\ e.bytes = Wire[m] /\ e.next = 1
      /\ e \in [conn : Conns, bytes : {Wire[m]}, next : {1}]
  BY <1>4
<1>6. /\ Len(queue) \in Nat /\ Len(queue') = Len(queue) + 1
      /\ \A i \in 1..Len(queue) : queue'[i] = queue[i]
      /\ queue'[Len(queue) + 1] = e
      /\ \A i \in 1..Len(queue') : i \in 1..Len(queue) \/ i = Len(queue) + 1
  <2>1. queue \in Seq(Datagrams \cup {e})
    <3>1. Datagrams \subseteq Datagrams \cup {e} /\ queue \in Seq(Datagrams)
      BY DEF IInv, PoolInv
    <3> QED
      BY <3>1, SeqMonotonic
  <2>2. queue' = Append(queue, e)
    BY <1>1, <1>4
  <2>3. /\ Len(queue) \in Nat /\ Len(queue') = Len(queue) + 1
        /\ \A i \in 1..Len(queue) : queue'[i] = queue[i]
        /\ queue'[Len(queue) + 1] = e
    BY <2>1, <2>2, AppendProperties
  <2> QED
    BY <2>3
<1>7. arrived \in [Conns -> Seq(Messages)]
  BY DEF IInv, ArrivedInv
<1>8. arrived'[c] = Append(arrived[c], m) /\ \A x \in Conns : x # c => arrived'[x] = arrived[x]
  BY <1>1, <1>7
<1>9. OneAtATime'
  BY ArriveAlone DEF HInv
<1>10. UnderWay(e, 0, parsers', arrived', effects')
  <2>1. AtRest(c, parsers, arrived, effects)
    BY <1>2 DEF HInv
  <2>2. arrived'[c] # <<>> /\ Front(arrived'[c]) = arrived[c] /\ Last(arrived'[c]) = m
    BY <1>7, <1>8, AppendLast
  <2>3. Emitted(c, m, 0) = <<>>
    BY EmittedEnds
  <2>4. Flat(c, arrived[c]) \in Seq(Events)
    BY <1>7, FlatGrows
  <2>5. effects'[c] = Flat(c, arrived[c]) \o <<>>
    <3>1. effects'[c] = Flat(c, arrived[c])
      BY <1>2, <2>1 DEF AtRest
    <3> QED
      BY <2>4, <3>1, ConcatEmptySeq
  <2>6. c \in DOMAIN parsers' => At(c, m, parsers'[c], 0)
    BY <1>2, <2>1 DEF AtRest, At
  <2> QED
    BY <1>5, <2>2, <2>3, <2>5, <2>6, Zenon DEF UnderWay
<1>11. ASSUME NEW i \in 1..Len(queue')
       PROVE  UnderWay(queue'[i], 0, parsers', arrived', effects')
  <2>1. CASE i \in 1..Len(queue)
    <3>1. queue[i].conn # c /\ queue[i].conn \in Conns /\ queue'[i] = queue[i]
      BY <1>3, <1>6, <2>1, WaitingHas
    <3>2. UnderWay(queue[i], 0, parsers, arrived, effects)
      BY <2>1 DEF HInv
    <3> QED
      BY <1>2, <1>8, <3>1, <3>2, UnderWaySame
  <2>2. CASE i = Len(queue) + 1
    BY <1>6, <1>10, <2>2
  <2> QED
    BY <1>6, <2>1, <2>2
<1>12. ASSUME NEW v \in Workers, pc'[v] # "idle"
       PROVE  /\ UnderWay(job'[v], job'[v].next - 1, parsers', arrived', effects')
              /\ pc'[v] \in {"lookup", "create"} => job'[v].next = 1
              /\ pc'[v] = "parse" => job'[v].conn \in DOMAIN parsers'
  <2>1. job[v].conn # c /\ job[v].conn \in Conns /\ pc'[v] = pc[v] /\ job'[v] = job[v]
    BY <1>2, <1>3, <1>12 DEF IInv, PoolInv
  <2>2. /\ UnderWay(job[v], job[v].next - 1, parsers, arrived, effects)
        /\ pc[v] \in {"lookup", "create"} => job[v].next = 1
        /\ pc[v] = "parse" => job[v].conn \in DOMAIN parsers
    BY <1>12, <2>1 DEF HInv
  <2>3. UnderWay(job[v], job[v].next - 1, parsers', arrived', effects')
    BY <1>2, <1>8, <2>1, <2>2, UnderWaySame
  <2> QED
    BY <1>2, <2>1, <2>2, <2>3
<1>13. ASSUME NEW x \in Conns, ~Pending(x)'
       PROVE  AtRest(x, parsers, arrived, effects)'
  <2>1. x # c
    <3>1. Len(queue) + 1 \in 1..Len(queue')
      BY <1>6
    <3> QED
      BY <1>5, <1>6, <1>13, <3>1 DEF Pending
  <2>2. ~Pending(x)
    <3>1. \A i \in 1..Len(queue) : i \in 1..Len(queue') /\ queue'[i] = queue[i]
      BY <1>6
    <3> QED
      BY <1>2, <1>13, <3>1 DEF Pending
  <2>3. AtRest(x, parsers, arrived, effects)
    BY <2>2 DEF HInv
  <2> QED
    BY <1>2, <1>8, <2>1, <2>3 DEF AtRest
<1>14. DOMAIN effects' = Conns
  BY <1>2 DEF HInv
<1> QED
  BY <1>9, <1>11, <1>12, <1>13, <1>14 DEF HInv

\* A worker takes the datagram: it stays under way.
LEMMA TakeKeepsH ==
    ASSUME IInv, HInv, NEW w \in Workers, Take(w)
    PROVE  HInv'
<1>1. /\ pc[w] = "idle" /\ queue # <<>> /\ queue' = Tail(queue)
      /\ UNCHANGED <<parsers, arrived, effects>>
  BY DEF Take
<1>2. PICK e : e = Head(queue)
  OBVIOUS
<1>3. /\ Len(queue) \in Nat /\ Len(queue) >= 1 /\ Len(queue') = Len(queue) - 1
      /\ \A i \in 1..Len(queue') : queue'[i] = queue[i + 1]
      /\ e = queue[1]
  <2>1. queue \in Seq(Datagrams)
    BY DEF IInv, PoolInv
  <2>2. /\ Len(queue) \in Nat /\ Len(queue) >= 1 /\ Len(queue') = Len(queue) - 1
        /\ \A i \in 1..Len(queue') : queue'[i] = queue[i + 1]
    BY <1>1, <2>1, HeadTailProperties
  <2>3. Head(queue) = queue[1]
    BY <1>1, <2>1
  <2> QED
    BY <1>2, <2>2, <2>3
<1>4. 1 \in 1..Len(queue) /\ \A i \in 1..Len(queue') : i + 1 \in 1..Len(queue) /\ i + 1 # 1
  BY <1>3
<1>5. /\ pc'[w] = "lookup" /\ job'[w] = e
      /\ \A v \in Workers : v # w => pc'[v] = pc[v] /\ job'[v] = job[v]
  BY <1>2 DEF Take, IInv, PoolInv
<1>6. e.conn \in Conns /\ e.next = 1
  BY <1>3, <1>4, WaitingHas
<1>7. OneAtATime'
  BY TakeAlone DEF HInv
<1>8. ASSUME NEW i \in 1..Len(queue')
      PROVE  UnderWay(queue'[i], 0, parsers', arrived', effects')
  <2>1. UnderWay(queue[i + 1], 0, parsers, arrived, effects)
    BY <1>4 DEF HInv
  <2> QED
    BY <1>1, <1>3, <2>1
<1>9. ASSUME NEW v \in Workers, pc'[v] # "idle"
      PROVE  /\ UnderWay(job'[v], job'[v].next - 1, parsers', arrived', effects')
             /\ pc'[v] \in {"lookup", "create"} => job'[v].next = 1
             /\ pc'[v] = "parse" => job'[v].conn \in DOMAIN parsers'
  <2>1. CASE v = w
    <3>1. UnderWay(e, 0, parsers, arrived, effects)
      BY <1>3, <1>4 DEF HInv
    <3>2. e.next - 1 = 0
      BY <1>6
    <3> QED
      BY <1>1, <1>5, <1>6, <2>1, <3>1, <3>2
  <2>2. CASE v # w
    BY <1>1, <1>5, <1>9, <2>2 DEF HInv
  <2> QED
    BY <2>1, <2>2
<1>10. ASSUME NEW x \in Conns, ~Pending(x)'
       PROVE  AtRest(x, parsers, arrived, effects)'
  <2>1. \A i \in 1..Len(queue) : i = 1 \/ (i - 1 \in 1..Len(queue') /\ queue'[i - 1] = queue[i])
    <3> SUFFICES ASSUME NEW i \in 1..Len(queue), i # 1
                 PROVE  i - 1 \in 1..Len(queue') /\ queue'[i - 1] = queue[i]
      OBVIOUS
    <3>1. i - 1 \in 1..Len(queue') /\ (i - 1) + 1 = i
      BY <1>3
    <3> QED
      BY <1>3, <3>1
  <2>2. /\ \A i \in 1..Len(queue') : queue'[i].conn # x
        /\ \A v \in Workers : pc'[v] # "idle" => job'[v].conn # x
    BY <1>10 DEF Pending
  <2>3. e.conn # x
    BY <1>5, <2>2
  <2>4. \A i \in 1..Len(queue) : queue[i].conn # x
    BY <1>3, <2>1, <2>2, <2>3
  <2>5. \A v \in Workers : pc[v] # "idle" => job[v].conn # x
    BY <1>1, <1>5, <2>2
  <2>6. ~Pending(x)
    BY <2>4, <2>5 DEF Pending
  <2> QED
    BY <1>1, <2>6 DEF HInv
<1>11. DOMAIN effects' = Conns
  BY <1>1 DEF HInv
<1> QED
  BY <1>7, <1>8, <1>9, <1>10, <1>11 DEF HInv

\* The lookup of the parser changes nothing that a datagram depends on.
LEMMA LookupKeepsH ==
    ASSUME IInv, HInv, NEW w \in Workers, Lookup(w)
    PROVE  HInv'
<1>1. /\ pc[w] = "lookup" /\ UNCHANGED <<queue, job, parsers, arrived, effects>>
      /\ pc'[w] \in {"parse", "create"} /\ (pc'[w] = "parse" => job[w].conn \in DOMAIN parsers)
      /\ \A v \in Workers : v # w => pc'[v] = pc[v]
  BY DEF Lookup, IInv, PoolInv
<1>2. \A v \in Workers : pc'[v] # "idle" <=> pc[v] # "idle"
  BY <1>1
<1>3. OneAtATime'
  BY <1>1, <1>2 DEF HInv, OneAtATime
<1>4. \A i \in 1..Len(queue') : UnderWay(queue'[i], 0, parsers', arrived', effects')
  BY <1>1 DEF HInv
<1>5. ASSUME NEW v \in Workers, pc'[v] # "idle"
      PROVE  /\ UnderWay(job'[v], job'[v].next - 1, parsers', arrived', effects')
             /\ pc'[v] \in {"lookup", "create"} => job'[v].next = 1
             /\ pc'[v] = "parse" => job'[v].conn \in DOMAIN parsers'
  <2>1. /\ UnderWay(job[v], job[v].next - 1, parsers, arrived, effects)
        /\ pc[v] \in {"lookup", "create"} => job[v].next = 1
        /\ pc[v] = "parse" => job[v].conn \in DOMAIN parsers
    BY <1>2, <1>5 DEF HInv
  <2> QED
    BY <1>1, <2>1
<1>6. ASSUME NEW x \in Conns, ~Pending(x)'
      PROVE  AtRest(x, parsers, arrived, effects)'
  <2>1. ~Pending(x)
    BY <1>1, <1>2, <1>6 DEF Pending
  <2> QED
    BY <1>1, <2>1 DEF HInv
<1>7. DOMAIN effects' = Conns
  BY <1>1 DEF HInv
<1> QED
  BY <1>3, <1>4, <1>5, <1>6, <1>7 DEF HInv

\* A new parser waits for a start byte, like that of a connection at rest.
LEMMA CreateKeepsH ==
    ASSUME IInv, HInv, NEW w \in Workers, Create(w)
    PROVE  HInv'
<1>1. /\ pc[w] = "create" /\ UNCHANGED <<queue, job, arrived, effects>>
      /\ pc'[w] = "parse"
      /\ \A v \in Workers : v # w => pc'[v] = pc[v]
  BY DEF Create, IInv, PoolInv
<1>2. \A v \in Workers : pc'[v] # "idle" <=> pc[v] # "idle"
  BY <1>1
<1>3. PICK c \in Conns : c = job[w].conn
  BY <1>1 DEF IInv, PoolInv
<1>4. /\ DOMAIN parsers' = DOMAIN parsers \cup {c}
      /\ \A x \in DOMAIN parsers' : IF x \in DOMAIN parsers THEN parsers'[x] = parsers[x]
                                                            ELSE parsers'[x] = NewParser
  BY <1>3 DEF Create
<1>5. OneAtATime
  BY DEF HInv
<1>6. OneAtATime'
  BY <1>1, <1>2, <1>5 DEF OneAtATime
<1>7. ASSUME NEW i \in 1..Len(queue')
      PROVE  UnderWay(queue'[i], 0, parsers', arrived', effects')
  <2>1. UnderWay(queue[i], 0, parsers, arrived, effects) /\ queue'[i] = queue[i]
    BY <1>1 DEF HInv
  <2>2. queue[i].conn # c
    BY <1>1, <1>3, <1>5 DEF OneAtATime
  <2>3. queue[i].conn \in DOMAIN parsers' =>
            queue[i].conn \in DOMAIN parsers /\ parsers'[queue[i].conn] = parsers[queue[i].conn]
    BY <1>4, <2>2
  <2> QED
    BY <1>1, <2>1, <2>3, UnderWaySame
<1>8. ASSUME NEW v \in Workers, pc'[v] # "idle"
      PROVE  /\ UnderWay(job'[v], job'[v].next - 1, parsers', arrived', effects')
             /\ pc'[v] \in {"lookup", "create"} => job'[v].next = 1
             /\ pc'[v] = "parse" => job'[v].conn \in DOMAIN parsers'
  <2>1. /\ UnderWay(job[v], job[v].next - 1, parsers, arrived, effects)
        /\ pc[v] \in {"lookup", "create"} => job[v].next = 1
        /\ pc[v] = "parse" => job[v].conn \in DOMAIN parsers
        /\ job'[v] = job[v]
    BY <1>1, <1>2, <1>8 DEF HInv
  <2>2. CASE v = w
    <3>1. job[w].next - 1 = 0 /\ job[w].conn = c
      BY <1>1, <1>3, <2>1, <2>2
    <3>2. UnderWay(job[w], 0, parsers, arrived, effects)
      BY <2>1, <2>2, <3>1
    <3>3. At(c, Last(arrived[c]), parsers'[c], 0)
      <4>1. c \in DOMAIN parsers => parsers[c].state = "Start"
        BY <3>1, <3>2 DEF UnderWay, At
      <4>2. parsers'[c].state = "Start"
        BY <1>4, <4>1 DEF NewParser
      <4> QED
        BY <4>2 DEF At
    <3>4. UnderWay(job[w], 0, parsers', arrived', effects')
      BY <1>1, <3>1, <3>2, <3>3, Zenon DEF UnderWay
    <3> QED
      BY <1>1, <1>4, <2>1, <2>2, <3>1, <3>4
  <2>3. CASE v # w
    <3>1. job[v].conn # c
      BY <1>1, <1>2, <1>3, <1>5, <1>8, <2>3 DEF OneAtATime
    <3>2. job[v].conn \in DOMAIN parsers' =>
            job[v].conn \in DOMAIN parsers /\ parsers'[job[v].conn] = parsers[job[v].conn]
      BY <1>4, <3>1
    <3>3. UnderWay(job[v], job[v].next - 1, parsers', arrived', effects')
      BY <1>1, <2>1, <3>2, UnderWaySame
    <3> QED
      BY <1>1, <1>4, <2>1, <2>3, <3>3
  <2> QED
    BY <2>2, <2>3
<1>9. ASSUME NEW x \in Conns, ~Pending(x)'
      PROVE  AtRest(x, parsers, arrived, effects)'
  <2>1. ~Pending(x)
    BY <1>1, <1>2, <1>9 DEF Pending
  <2>2. x # c
    BY <1>1, <1>3, <2>1 DEF Pending
  <2>3. AtRest(x, parsers, arrived, effects)
    BY <2>1 DEF HInv
  <2> QED
    BY <1>1, <1>4, <2>2, <2>3 DEF AtRest
<1>10. DOMAIN effects' = Conns
  BY <1>1 DEF HInv
<1> QED
  BY <1>6, <1>7, <1>8, <1>9, <1>10 DEF HInv

\* One byte: its parser advances in the frame, and no other datagram has to do
\* with that parser.
LEMMA ParseKeepsH ==
    ASSUME IInv, HInv, WellFormed, NEW w \in Workers, Parse(w)
    PROVE  HInv'
<1>0. pc[w] = "parse" /\ job[w].conn \in Conns
  BY DEF Parse, IInv, PoolInv
<1>1. PICK c \in Conns : c = job[w].conn
  BY <1>0
<1>2. PICK k \in Nat : k = job[w].next - 1
  BY <1>0 DEF IInv, PoolInv
<1>3. PICK b : b = job[w].bytes
  OBVIOUS
<1>4. job[w].next = k + 1 /\ k < Len(b) /\ Len(b) \in Nat /\ job[w] \in Jobs /\ b \in Seq(Byte)
  <2>1. job[w] \in Jobs /\ job[w].next \in 1..Len(job[w].bytes)
    BY <1>0 DEF IInv, PoolInv
  <2>2. b \in Seq(Byte) /\ job[w].next \in Nat
    BY <1>3, <2>1 DEF Jobs
  <2>3. Len(b) \in Nat
    BY <2>2
  <2> QED
    BY <1>2, <1>3, <2>1, <2>2, <2>3
<1>5. PICK p : p = parsers[c]
  OBVIOUS
<1>6. PICK q : q = parse_byte(c, p, b[k + 1])
  OBVIOUS
<1>7. /\ UnderWay(job[w], k, parsers, arrived, effects) /\ c \in DOMAIN parsers
      /\ DOMAIN effects = Conns /\ OneAtATime
  BY <1>0, <1>1, <1>2 DEF HInv
<1>8. p \in Parsers
  BY <1>5, <1>7 DEF IInv, ParsersInv
<1>9. /\ DOMAIN parsers' = DOMAIN parsers /\ DOMAIN effects' = Conns
      /\ parsers'[c] = q /\ \A x \in DOMAIN parsers : x # c => parsers'[x] = parsers[x]
      /\ effects'[c] = effects[c] \o Output(p, q, b)
      /\ \A x \in Conns : x # c => effects'[x] = effects[x]
      /\ UNCHANGED <<queue, arrived>>
  <2>1. /\ parsers' = [parsers EXCEPT ![c] = q]
        /\ effects' = [effects EXCEPT ![c] = @ \o Output(p, q, b)]
        /\ UNCHANGED <<queue, arrived>>
    BY <1>1, <1>3, <1>4, <1>5, <1>6, Zenon DEF Parse, Output
  <2> QED
    BY <1>7, <2>1
<1>10. PICK m : m = Last(arrived[c])
  OBVIOUS
<1>11. /\ m \in Messages /\ Front(arrived[c]) \in Seq(Messages)
       /\ arrived[c] = Append(Front(arrived[c]), m) /\ arrived[c] # <<>>
  <2>1. arrived[c] # <<>> /\ arrived[c] \in Seq(Messages)
    BY <1>1, <1>7 DEF UnderWay, IInv, ArrivedInv
  <2> QED
    BY <1>10, <2>1, FrontLast
<1>12. /\ b = Wire[m] /\ At(c, m, p, k)
       /\ effects[c] = Flat(c, Front(arrived[c])) \o Emitted(c, m, k)
  BY <1>1, <1>3, <1>5, <1>7, <1>10, Zenon DEF UnderWay
<1>13. /\ At(c, m, q, k + 1)
       /\ Emitted(c, m, k + 1) = Emitted(c, m, k) \o Output(p, q, b)
       /\ Output(p, q, b) \in {<<>>, Expected[c][m]}
  <2>1. Advances(c, m, p, q, b, k)
    BY <1>4, <1>6, <1>8, <1>11, <1>12, ByteStep
  <2> QED
    BY <2>1 DEF Advances
<1>14. Flat(c, Front(arrived[c])) \in Seq(Events) /\ Expected[c][m] \in Seq(Events)
  BY <1>11, FlatGrows, ExpectedType
<1>15. effects'[c] = Flat(c, Front(arrived[c])) \o Emitted(c, m, k + 1)
  <2>1. Emitted(c, m, k) \in Seq(Events) /\ Output(p, q, b) \in Seq(Events)
    <3>1. <<>> \in Seq(Events)
      OBVIOUS
    <3> QED
      BY <1>13, <1>14, <3>1, Zenon DEF Emitted
  <2>2. PICK f, g, h : f = Flat(c, Front(arrived[c])) /\ g = Emitted(c, m, k) /\ h = Output(p, q, b)
    OBVIOUS
  <2>3. (f \o g) \o h = f \o (g \o h)
    BY <1>14, <2>1, <2>2, ConcatAssociative
  <2> QED
    BY <1>9, <1>12, <1>13, <2>2, <2>3
<1>16. ASSUME NEW x, x \in Conns, x # c
       PROVE  /\ x \in DOMAIN parsers' => x \in DOMAIN parsers /\ parsers'[x] = parsers[x]
              /\ arrived'[x] = arrived[x] /\ effects'[x] = effects[x]
  BY <1>9, <1>16
<1>17. ASSUME NEW i \in 1..Len(queue')
       PROVE  UnderWay(queue'[i], 0, parsers', arrived', effects')
  <2>1. UnderWay(queue[i], 0, parsers, arrived, effects) /\ queue'[i] = queue[i]
        /\ i \in 1..Len(queue)
    BY <1>9 DEF HInv
  <2>2. queue[i].conn # c
    BY <1>0, <1>1, <1>7, <2>1 DEF OneAtATime
  <2>3. queue[i].conn \in Conns
    BY <2>1, WaitingHas
  <2> QED
    BY <1>16, <2>1, <2>2, <2>3, UnderWaySame
<1>18. ASSUME NEW v \in Workers, v # w, pc[v] # "idle"
       PROVE  /\ UnderWay(job[v], job[v].next - 1, parsers', arrived', effects')
              /\ pc[v] \in {"lookup", "create"} => job[v].next = 1
              /\ pc[v] = "parse" => job[v].conn \in DOMAIN parsers'
  <2>1. job[v].conn # c /\ job[v].conn \in Conns
    BY <1>0, <1>1, <1>7, <1>18 DEF OneAtATime, IInv, PoolInv
  <2>2. /\ UnderWay(job[v], job[v].next - 1, parsers, arrived, effects)
        /\ pc[v] \in {"lookup", "create"} => job[v].next = 1
        /\ pc[v] = "parse" => job[v].conn \in DOMAIN parsers
    BY <1>18 DEF HInv
  <2>3. UnderWay(job[v], job[v].next - 1, parsers', arrived', effects')
    BY <1>16, <2>1, <2>2, UnderWaySame
  <2> QED
    BY <1>9, <2>2, <2>3
<1>19. CASE k + 1 = Len(b)
  <2>1. /\ pc'[w] = "idle"
        /\ \A v \in Workers : v # w => pc'[v] = pc[v] /\ job'[v] = job[v]
    BY <1>3, <1>4, <1>19 DEF Parse, IInv, PoolInv
  <2>2. OneAtATime'
    BY <1>7, <1>9, <2>1 DEF OneAtATime
  <2>3. ASSUME NEW v \in Workers, pc'[v] # "idle"
        PROVE  /\ UnderWay(job'[v], job'[v].next - 1, parsers', arrived', effects')
               /\ pc'[v] \in {"lookup", "create"} => job'[v].next = 1
               /\ pc'[v] = "parse" => job'[v].conn \in DOMAIN parsers'
    <3>1. v # w /\ pc'[v] = pc[v] /\ job'[v] = job[v]
      BY <2>1, <2>3
    <3> QED
      BY <1>18, <2>3, <3>1
  <2>4. ASSUME NEW x \in Conns, ~Pending(x)'
        PROVE  AtRest(x, parsers, arrived, effects)'
    <3>1. CASE x = c
      <4>1. At(c, m, q, Len(Wire[m])) /\ Emitted(c, m, k + 1) = Expected[c][m]
        BY <1>11, <1>12, <1>13, <1>19, EmittedEnds
      <4>2. q.state = "Start"
        BY <1>11, <4>1, EndsInStart
      <4>3. Flat(c, arrived[c]) = Flat(c, Front(arrived[c])) \o Expected[c][m]
        BY <1>11, FlatGrows
      <4>4. effects'[c] = Flat(c, arrived'[c])
        BY <1>9, <1>15, <4>1, <4>3
      <4> QED
        BY <1>9, <3>1, <4>2, <4>4 DEF AtRest
    <3>2. CASE x # c
      <4>1. ~Pending(x)
        BY <1>1, <1>9, <2>1, <2>4, <3>2 DEF Pending
      <4>2. AtRest(x, parsers, arrived, effects)
        BY <4>1 DEF HInv
      <4> QED
        BY <1>16, <3>2, <4>2 DEF AtRest
    <3> QED
      BY <3>1, <3>2
  <2> QED
    BY <1>9, <1>17, <2>2, <2>3, <2>4 DEF HInv
<1>20. CASE k + 1 # Len(b)
  <2>1. /\ UNCHANGED pc /\ job' = [job EXCEPT ![w].next = @ + 1]
    BY <1>3, <1>4, <1>20 DEF Parse
  <2>2. /\ job'[w].conn = c /\ job'[w].bytes = b /\ job'[w].next = k + 2
        /\ \A v \in Workers : v # w => job'[v] = job[v]
    <3>1. PICK j \in Jobs : j = [job[w] EXCEPT !.next = @ + 1]
      <4>1. PICK y : y = job[w]
        OBVIOUS
      <4>2. y \in Jobs /\ [y EXCEPT !.next = @ + 1] \in Jobs
        BY <1>4, <4>1 DEF Jobs
      <4> QED
        BY <4>1, <4>2, Zenon
    <3>2. job' = [job EXCEPT ![w] = j] /\ j.conn = c /\ j.bytes = b /\ j.next = k + 2
      BY <1>1, <1>3, <1>4, <2>1, <3>1 DEF Jobs
    <3> QED
      BY <3>2 DEF IInv, PoolInv
  <2>3. \A v \in Workers : job'[v].conn = job[v].conn
    BY <1>1, <2>2
  <2>4. OneAtATime'
    BY <1>7, <1>9, <2>1, <2>3 DEF OneAtATime
  <2>5. ASSUME NEW v \in Workers, pc'[v] # "idle"
        PROVE  /\ UnderWay(job'[v], job'[v].next - 1, parsers', arrived', effects')
               /\ pc'[v] \in {"lookup", "create"} => job'[v].next = 1
               /\ pc'[v] = "parse" => job'[v].conn \in DOMAIN parsers'
    <3>1. CASE v = w
      <4>1. job'[w].next - 1 = k + 1 /\ arrived'[c] = arrived[c]
        BY <1>9, <2>2
      <4>2. UnderWay(job'[w], k + 1, parsers', arrived', effects')
        BY <1>9, <1>10, <1>11, <1>12, <1>13, <1>15, <2>2, <4>1, Zenon DEF UnderWay
      <4> QED
        BY <1>0, <1>7, <1>9, <2>1, <2>2, <3>1, <4>1, <4>2
    <3>2. CASE v # w
      BY <1>18, <2>1, <2>2, <2>5, <3>2
    <3> QED
      BY <3>1, <3>2
  <2>6. ASSUME NEW x \in Conns, ~Pending(x)'
        PROVE  AtRest(x, parsers, arrived, effects)'
    <3>1. ~Pending(x)
      BY <1>9, <2>1, <2>3, <2>6 DEF Pending
    <3>2. x # c
      BY <1>0, <1>1, <3>1 DEF Pending
    <3>3. AtRest(x, parsers, arrived, effects)
      BY <3>1 DEF HInv
    <3> QED
      BY <1>16, <3>2, <3>3 DEF AtRest
  <2> QED
    BY <1>9, <1>17, <2>4, <2>5, <2>6 DEF HInv
<1> QED
  BY <1>19, <1>20

\* Every step, of paced and well-formed traffic.
LEMMA NextHInv ==
    ASSUME IInv, HInv, Paced, WellFormed, [Next]_vars
    PROVE  HInv'
<1>1. CASE UNCHANGED vars
  BY <1>1 DEF vars, HInv, OneAtATime, Pending, AtRest, UnderWay
<1> QED
  BY <1>1, ArriveKeepsH, TakeKeepsH, LookupKeepsH, CreateKeepsH, ParseKeepsH DEF Next

\* HandledAsSent follows: what is under way has had all its effects or none.
LEMMA HInvHandled ==
    ASSUME IInv, HInv, WellFormed
    PROVE  HandledAsSent
<1> SUFFICES ASSUME NEW c \in Conns
             PROVE  /\ IsPrefix(effects[c], Flat(c, arrived[c]))
                    /\ ~Pending(c) => effects[c] = Flat(c, arrived[c])
  BY DEF HandledAsSent, Flat
<1>1. arrived[c] \in Seq(Messages)
  BY DEF IInv, ArrivedInv
<1>2. PICK f : f = Flat(c, arrived[c])
  OBVIOUS
<1>3. f \in Seq(Events) /\ <<>> \in Seq(Events)
  BY <1>1, <1>2, FlatGrows
<1>4. IsPrefix(f, f)
  <2>1. f \o <<>> = f
    BY <1>3, ConcatEmptySeq
  <2>2. IsPrefix(f, f \o <<>>)
    BY <1>3, PrefixOfConcat
  <2> QED
    BY <2>1, <2>2
<1>5. CASE ~Pending(c)
  <2>1. effects[c] = f
    BY <1>2, <1>5 DEF HInv, AtRest
  <2> QED
    BY <1>2, <1>4, <2>1
<1>6. CASE Pending(c)
  <2>1. PICK d, k : d.conn = c /\ UnderWay(d, k, parsers, arrived, effects)
    <3>1. CASE \E i \in 1..Len(queue) : queue[i].conn = c
      BY <3>1 DEF HInv
    <3>2. CASE \E v \in Workers : pc[v] # "idle" /\ job[v].conn = c
      BY <3>2 DEF HInv
    <3> QED
      BY <1>6, <3>1, <3>2 DEF Pending
  <2>2. PICK m : m = Last(arrived[c])
    OBVIOUS
  <2>3. arrived[c] # <<>> /\ effects[c] = Flat(c, Front(arrived[c])) \o Emitted(c, m, k)
    BY <2>1, <2>2, Zenon DEF UnderWay
  <2>4. m \in Messages /\ Front(arrived[c]) \in Seq(Messages)
        /\ arrived[c] = Append(Front(arrived[c]), m)
    BY <1>1, <2>2, <2>3, FrontLast
  <2>5. PICK g, e : g = Flat(c, Front(arrived[c])) /\ e = Expected[c][m]
    OBVIOUS
  <2>6. f = g \o e /\ g \in Seq(Events) /\ e \in Seq(Events)
    BY <1>2, <2>4, <2>5, FlatGrows, ExpectedType
  <2>7. CASE Emitted(c, m, k) = e
    BY <1>2, <1>4, <1>6, <2>3, <2>5, <2>6, <2>7
  <2>8. CASE Emitted(c, m, k) = <<>>
    <3>1. effects[c] = g
      <4>1. g \o <<>> = g
        BY <2>6, ConcatEmptySeq
      <4> QED
        BY <2>3, <2>5, <2>8, <4>1
    <3>2. IsPrefix(g, g \o e)
      BY <2>6, PrefixOfConcat
    <3> QED
      BY <1>2, <1>6, <2>6, <3>1, <3>2
  <2>9. Emitted(c, m, k) = e \/ Emitted(c, m, k) = <<>>
    BY <2>5 DEF Emitted
  <2> QED
    BY <2>7, <2>8, <2>9
<1> QED
  BY <1>5, <1>6

\* Each connection's frames are handled in order, once and as they were sent,
\* for any number of connections, workers and datagrams: process_raw_bytes loses,
\* repeats and mixes nothing as long as a peer sends its next datagram when the
\* last one is processed, and start bytes only begin frames.
THEOREM FramesHandledAsSent == Paced /\ WellFormed => (Spec => []HandledAsSent)
<1> SUFFICES ASSUME Paced /\ WellFormed PROVE Spec => []HandledAsSent
  OBVIOUS
<1>1. Init => IInv /\ HInv
  BY InitIInv, InitHInv
<1>2. IInv /\ HInv /\ [Next]_vars => (IInv /\ HInv)'
  BY NextIInv, NextHInv
<1>3. IInv /\ HInv => HandledAsSent
  BY HInvHandled
<1> QED
  BY <1>1, <1>2, <1>3, PTL DEF Spec

=============================================================================
