------------------------ MODULE PipeHandshakeProofs ------------------------
(***************************************************************************)
(* Registration over named pipes, for any clients and ids, with clients     *)
(* that die in the middle of a request and sessions that time out: types    *)
(* whatever happens, and the promises of the handshake as long as no        *)
(* request has begun while another was under way.                          *)
(***************************************************************************)
EXTENDS PipeHandshake, TLAPS

-----------------------------------------------------------------------------
(* Types *)

\* Where accept_client is at the request FIFOs, and where it serves a request.
Idle == {"pause", "openUp", "openDown", "read"}
Serving == {"decide", "create", "openPrivRead", "openPrivWrite", "register"}
Preparing == {"create", "openPrivRead", "openPrivWrite", "register"}

\* A request that was sent, is served or made a session came from a client.
SentInv == \A k \in 1..Len(upQ) : upQ[k].from \in Clients
FromInv == apc \in Serving => req.from \in Clients
OwnerInv == \A i \in sessions : owner[i] \in Clients

TypeInv == TypeOK /\ SentInv /\ FromInv /\ OwnerInv

\* What the queues' operations do.
LEMMA QueueFacts ==
    ASSUME NEW S, NEW q \in Seq(S), NEW x \in S
    PROVE  /\ Append(q, x) \in Seq(S)
           /\ Append(q, x) # <<>>
           /\ Len(Append(q, x)) = Len(q) + 1
           /\ \A k \in 1..Len(q) : Append(q, x)[k] = q[k]
           /\ Append(q, x)[Len(q) + 1] = x
OBVIOUS

LEMMA TailFacts ==
    ASSUME NEW S, NEW q \in Seq(S), q # <<>>
    PROVE  /\ Head(q) = q[1] /\ Head(q) \in S
           /\ 1 \in 1..Len(q)
           /\ Tail(q) \in Seq(S)
           /\ Len(Tail(q)) = Len(q) - 1
           /\ \A k \in 1..Len(Tail(q)) : k + 1 \in 1..Len(q) /\ Tail(q)[k] = q[k + 1]
OBVIOUS

LEMMA EmptyFacts ==
    ASSUME NEW S, NEW q \in Seq(S)
    PROVE  /\ <<>> \in Seq(S)
           /\ q = <<>> <=> Len(q) = 0
           /\ Len(q) \in Nat
OBVIOUS

LEMMA TailOfOne ==
    ASSUME NEW S, NEW q \in Seq(S), Len(q) = 1
    PROVE  Tail(q) = <<>>
<1>1. q # <<>>
      BY EmptyFacts
<1>2. Tail(q) \in Seq(S) /\ Len(Tail(q)) = 0
      BY <1>1, TailFacts
<1> QED BY <1>2, EmptyFacts

LEMMA OneElement ==
    ASSUME NEW x
    PROVE  /\ <<x>>[1] = x /\ <<x>> # <<>> /\ Len(<<x>>) = 1
           /\ Head(<<x>>) = x /\ Tail(<<x>>) = <<>>
           /\ Append(<<>>, x) = <<x>>
OBVIOUS

ClientStages == Asking \cup {"out", "joined", "unswitched", "refused", "rejected",
                             "gone", "killed"}

LEMMA GotoType ==
    ASSUME TypeOK, NEW c \in Clients, NEW pc \in ClientStages, NEW counterpart,
           Goto(c, pc, counterpart)
    PROVE  cpc' \in [Clients -> ClientStages] /\ met' \subseteq Clients \cup {Server}
BY DEF TypeOK, ClientStages, Goto

LEMMA EmptiedChoices ==
    ASSUME NEW c, NEW pc, NEW down, Emptied(c, pc, down)
    PROVE  upQ' \in {upQ, <<>>} /\ downQ' \in {down, <<>>}
BY DEF Emptied

LEMMA EmptiedType ==
    ASSUME TypeInv, NEW c, NEW pc, NEW down \in Seq(Answers), Emptied(c, pc, down)
    PROVE  upQ' \in Seq(Requests) /\ downQ' \in Seq(Answers) /\ SentInv'
<1>1. upQ' \in {upQ, <<>>} /\ downQ' \in {down, <<>>}
      BY EmptiedChoices
<1>2. upQ' \in Seq(Requests) /\ downQ' \in Seq(Answers)
      BY <1>1, EmptyFacts DEF TypeInv, TypeOK
<1>3. SentInv'
      BY <1>1 DEF TypeInv, TypeOK, SentInv
<1> QED BY <1>2, <1>3

LEMMA EndedStage ==
    ASSUME NEW c \in Clients, NEW pc \in ClientStages
    PROVE  Ended(c, pc) \in ClientStages
BY DEF Ended, ClientStages

\* A step of a client that leaves the server's variables and its request alone.
LEMMA ClientMoves ==
    ASSUME TypeInv, NEW c \in Clients,
           cpc' \in [Clients -> ClientStages], met' \subseteq Clients \cup {Server},
           upQ' \in Seq(Requests), downQ' \in Seq(Answers), SentInv',
           UNCHANGED others
    PROVE  TypeInv'
<1>1. TypeOK'
      BY DEF TypeInv, TypeOK, others, serverVars, ClientStages
<1>2. FromInv' /\ OwnerInv'
      BY DEF TypeInv, FromInv, OwnerInv, others, serverVars
<1> QED BY <1>1, <1>2 DEF TypeInv

LEMMA ClientTypes ==
    ASSUME TypeInv, NEW c \in Clients,
           Request(c, 1) \/ Request(c, 2) \/ ClientStep(c) \/ Push(c) \/ Terminate(c)
              \/ Crash(c)
    PROVE  TypeInv'
<1> USE DEF Asking
<1>a. /\ cpc \in [Clients -> ClientStages] /\ met \subseteq Clients \cup {Server}
      /\ upQ \in Seq(Requests) /\ downQ \in Seq(Answers)
      BY DEF TypeInv, TypeOK, ClientStages
<1>b. TypeOK
      BY DEF TypeInv
<1>1. ASSUME NEW k \in {1, 2}, Request(c, k) PROVE TypeInv'
  <2>1. cpc' \in [Clients -> ClientStages] /\ met' \subseteq Clients \cup {Server}
        BY <1>a, <1>1 DEF Request, Goto, ClientStages
  <2>2. cmd' \in [Clients -> {1, 2}]
        BY <1>b, <1>1 DEF Request, TypeOK
  <2>a. overlaps' \in Nat
        BY <1>b, <1>1 DEF Request, TypeOK
  <2>3. UNCHANGED <<serverVars, seq, upQ, downQ>>
        BY <1>1 DEF Request
  <2>4. TypeOK'
        BY <1>b, <2>1, <2>2, <2>a, <2>3 DEF TypeOK, serverVars, ClientStages
  <2>5. SentInv' /\ FromInv' /\ OwnerInv'
        BY <2>3 DEF TypeInv, SentInv, FromInv, OwnerInv, serverVars
  <2> QED BY <2>4, <2>5 DEF TypeInv
<1>2. ASSUME OpenUp(c) \/ OpenDown(c) PROVE TypeInv'
  <2>1. cpc' \in [Clients -> ClientStages] /\ met' \subseteq Clients \cup {Server}
        BY <1>a, <1>2 DEF OpenUp, OpenDown, Goto, ClientStages
  <2>2. UNCHANGED <<others, upQ, downQ>>
        BY <1>2 DEF OpenUp, OpenDown
  <2>3. SentInv'
        BY <2>2 DEF TypeInv, SentInv
  <2> QED BY <1>a, <2>1, <2>2, <2>3, ClientMoves
<1>3. ASSUME Send(c) PROVE TypeInv'
  <2>1. cpc' \in [Clients -> ClientStages] /\ met' \subseteq Clients \cup {Server}
        BY <1>a, <1>3 DEF Send, Goto, ClientStages
  <2>2. UNCHANGED others
        BY <1>3 DEF Send
  <2>3. CASE AcceptorUp
    <3> DEFINE r == [from |-> c, cmd |-> cmd[c], seq |-> seq[c]]
    <3>1. r \in Requests /\ r.from \in Clients
          BY <1>b DEF TypeOK, Requests
    <3>2. upQ' = Append(upQ, r) /\ UNCHANGED downQ
          BY <1>3, <2>3 DEF Send
    <3> HIDE DEF r
    <3>3. upQ' \in Seq(Requests) /\ downQ' \in Seq(Answers)
          BY <1>a, <3>1, <3>2, QueueFacts
    <3>4. SentInv'
      <4>1. ASSUME NEW k \in 1..Len(upQ') PROVE upQ'[k].from \in Clients
        <5>1. Len(upQ') = Len(upQ) + 1 /\ Len(upQ) \in Nat
              BY <1>a, <3>1, <3>2, QueueFacts, EmptyFacts
        <5>2. k \in 1..Len(upQ) \/ k = Len(upQ) + 1
              BY <5>1
        <5>3. k \in 1..Len(upQ) => upQ'[k] = upQ[k]
              BY <1>a, <3>1, <3>2, QueueFacts
        <5>4. upQ'[Len(upQ) + 1] = r
              BY <1>a, <3>1, <3>2, QueueFacts
        <5> QED BY <3>1, <5>2, <5>3, <5>4 DEF TypeInv, SentInv
      <4> QED BY <4>1 DEF SentInv
    <3> QED BY <2>1, <2>2, <3>3, <3>4, ClientMoves
  <2>4. CASE ~AcceptorUp
        BY <1>3, <1>a, <2>1, <2>2, <2>4, EmptiedType, ClientMoves DEF Send
  <2> QED BY <2>3, <2>4
<1>4. ASSUME Receive(c) PROVE TypeInv'
  <2>1. PICK end : /\ end \in ClientStages
                   /\ Goto(c, end, PrivateReader(IdOf[c]))
                   /\ Emptied(c, end, IF downQ = <<>> THEN <<>> ELSE Tail(downQ))
        BY <1>4 DEF Receive, Ended, ClientStages
  <2>2. (IF downQ = <<>> THEN <<>> ELSE Tail(downQ)) \in Seq(Answers)
        BY <1>a, TailFacts, EmptyFacts
  <2>3. UNCHANGED others
        BY <1>4 DEF Receive
  <2>4. cpc' \in [Clients -> ClientStages] /\ met' \subseteq Clients \cup {Server}
        BY <1>b, <2>1, GotoType
  <2> QED BY <2>1, <2>2, <2>3, <2>4, EmptiedType, ClientMoves
<1>5. ASSUME OpenPrivUp(c) PROVE TypeInv'
  <2>1. PICK pc \in ClientStages : /\ cpc' = [cpc EXCEPT ![c] = pc]
                                   /\ Emptied(c, pc, downQ)
        BY <1>5 DEF OpenPrivUp, Ended, ClientStages
  <2>2. cpc' \in [Clients -> ClientStages]
        BY <1>a, <2>1
  <2>3. met' \subseteq Clients \cup {Server} /\ UNCHANGED others
        BY <1>a, <1>5 DEF OpenPrivUp
  <2> QED BY <1>a, <2>1, <2>2, <2>3, EmptiedType, ClientMoves
<1>6. ASSUME OpenPrivDown(c) \/ Terminate(c) \/ Crash(c) PROVE TypeInv'
  <2>1. PICK pc \in ClientStages : Goto(c, pc, FALSE) /\ Emptied(c, pc, downQ)
        BY <1>6 DEF OpenPrivDown, Terminate, Crash, Ended, ClientStages
  <2>2. UNCHANGED others
        BY <1>6 DEF OpenPrivDown, Terminate, Crash
  <2> QED BY <1>a, <1>b, <2>1, <2>2, GotoType, EmptiedType, ClientMoves
<1>7. ASSUME Push(c) PROVE TypeInv'
      BY <1>7 DEF Push, TypeInv, TypeOK, SentInv, FromInv, OwnerInv, serverVars
<1> QED BY <1>1, <1>2, <1>3, <1>4, <1>5, <1>6, <1>7 DEF ClientStep

\* A step that leaves the clients' own variables alone.
LEMMA ServerMoves ==
    ASSUME TypeInv, UNCHANGED clientVars, SentInv', FromInv', OwnerInv',
           apc' \in Idle \cup Serving \cup {"leave", "killed"}, running' \in BOOLEAN,
           req' \in Requests, sessions' \subseteq Ids,
           owner' \in [Ids -> Clients \cup {Server}],
           lapsed' \subseteq Clients, made' \subseteq Ids, met' \subseteq Clients \cup {Server},
           upQ' \in Seq(Requests), downQ' \in Seq(Answers)
    PROVE  TypeInv'
<1>1. TypeOK'
      BY DEF TypeInv, TypeOK, clientVars, Idle, Serving
<1> QED BY <1>1 DEF TypeInv

LEMMA ReturnType ==
    ASSUME TypeInv, Return
    PROVE  /\ apc' = "pause" /\ upQ' \in Seq(Requests) /\ SentInv'
           /\ downQ' \in Seq(Answers)
<1>1. upQ' \in {upQ, <<>>} /\ downQ' \in {downQ, <<>>} /\ apc' = "pause"
      BY DEF Return
<1>2. upQ' \in Seq(Requests) /\ downQ' \in Seq(Answers)
      BY <1>1, EmptyFacts DEF TypeInv, TypeOK
<1>3. SentInv'
      BY <1>1 DEF TypeInv, TypeOK, SentInv
<1> QED BY <1>1, <1>2, <1>3

LEMMA AnswerType ==
    ASSUME TypeInv, NEW text \in {"OPENED", "REJECTED", "REMOVED"},
           NEW next \in {"leave", "openPrivRead"}, Answer(text, next)
    PROVE  /\ apc' \in {next, "killed"}
           /\ upQ' \in Seq(Requests) /\ SentInv' /\ downQ' \in Seq(Answers)
<1>1. [ans |-> text, seq |-> req.seq] \in Answers
      BY DEF TypeInv, TypeOK, Answers, Requests
<1>2. downQ' \in Seq(Answers)
  <2> DEFINE packet == [ans |-> text, seq |-> req.seq]
  <2>1. downQ' = <<>> \/ downQ' = Append(downQ, packet)
        BY DEF Answer
  <2>2. downQ \in Seq(Answers) /\ packet \in Answers
        BY <1>1 DEF TypeInv, TypeOK
  <2> HIDE DEF packet
  <2>3. Append(downQ, packet) \in Seq(Answers) /\ <<>> \in Seq(Answers)
        BY <2>2
  <2> QED BY <2>1, <2>3
<1>3. apc' \in {next, "killed"} /\ UNCHANGED upQ
      BY DEF Answer
<1>4. upQ' \in Seq(Requests) /\ SentInv'
      BY <1>3 DEF TypeInv, TypeOK, SentInv
<1> QED BY <1>2, <1>3, <1>4

LEMMA IdIsId == ASSUME TypeInv, apc \in Serving PROVE Id \in Ids
BY HandshakeAssumption DEF TypeInv, FromInv, Id

LEMMA AcceptorTypes == ASSUME TypeInv, AcceptorStep PROVE TypeInv'
<1> USE DEF Idle, Serving
<1>a. /\ TypeOK /\ SentInv /\ FromInv /\ OwnerInv
      BY DEF TypeInv
<1>1. ASSUME Accept \/ AcceptUp \/ AcceptDown PROVE TypeInv'
  <2>1. /\ apc' \in {"openUp", "openDown", "read"}
        /\ UNCHANGED <<running, req, sessions, owner, lapsed, made, clientVars, upQ, downQ>>
        /\ met' \subseteq Clients \cup {Server}
        BY <1>a, <1>1 DEF Accept, AcceptUp, AcceptDown, OpeningUp, At, TypeOK
  <2>2. SentInv' /\ FromInv' /\ OwnerInv'
        BY <1>a, <2>1 DEF SentInv, FromInv, OwnerInv
  <2> QED BY <1>a, <2>1, <2>2, ServerMoves DEF TypeOK
<1>2. ASSUME ReadRequest PROVE TypeInv'
  <2>1. /\ apc' = "decide" /\ req' = Head(upQ) /\ upQ' = Tail(upQ) /\ upQ # <<>>
        /\ UNCHANGED <<running, sessions, owner, lapsed, made, clientVars, met, downQ>>
        BY <1>2 DEF ReadRequest
  <2>2. upQ \in Seq(Requests)
        BY <1>a DEF TypeOK
  <2>3. req' \in Requests /\ req'.from \in Clients /\ upQ' \in Seq(Requests)
        BY <1>a, <2>1, <2>2, TailFacts DEF SentInv
  <2>4. SentInv'
        BY <1>a, <2>1, <2>2, TailFacts DEF SentInv
  <2>5. FromInv' /\ OwnerInv'
        BY <1>a, <2>1, <2>3 DEF FromInv, OwnerInv
  <2> QED BY <1>a, <2>1, <2>3, <2>4, <2>5, ServerMoves DEF TypeOK
<1>3. ASSUME ReadEof \/ Leave PROVE TypeInv'
  <2>1. /\ Return
        /\ UNCHANGED <<running, req, sessions, owner, lapsed, made, clientVars, met>>
        BY <1>3 DEF ReadEof, Leave
  <2>2. FromInv' /\ OwnerInv'
        BY <1>a, <2>1, ReturnType DEF FromInv, OwnerInv
  <2> QED BY <1>a, <2>1, <2>2, ReturnType, ServerMoves DEF TypeOK
<1>4. ASSUME Remove \/ Reject PROVE TypeInv'
  <2>1. /\ apc = "decide"
        /\ Answer("REMOVED", "leave") \/ Answer("REJECTED", "leave")
        /\ sessions' \subseteq sessions
        /\ UNCHANGED <<running, req, owner, lapsed, made, clientVars, met>>
        BY <1>4 DEF Remove, Reject
  <2>2. apc' \in {"leave", "killed"} /\ upQ' \in Seq(Requests) /\ SentInv'
           /\ downQ' \in Seq(Answers)
        BY <2>1, AnswerType
  <2>3. FromInv' /\ OwnerInv'
        BY <1>a, <2>1, <2>2 DEF FromInv, OwnerInv
  <2> QED BY <1>a, <2>1, <2>2, <2>3, ServerMoves DEF TypeOK
<1>5. ASSUME Create PROVE TypeInv'
  <2>1. /\ apc = "decide" /\ apc' = "create" /\ made' = made \cup {Id}
        /\ UNCHANGED <<running, req, sessions, owner, lapsed, clientVars, met, upQ, downQ>>
        BY <1>5 DEF Create
  <2>2. Id \in Ids
        BY <2>1, IdIsId
  <2>3. SentInv' /\ FromInv' /\ OwnerInv'
        BY <1>a, <2>1 DEF SentInv, FromInv, OwnerInv
  <2> QED BY <1>a, <2>1, <2>2, <2>3, ServerMoves DEF TypeOK
<1>6. ASSUME Opened PROVE TypeInv'
  <2>1. /\ apc = "create" /\ Answer("OPENED", "openPrivRead")
        /\ UNCHANGED <<running, req, sessions, owner, lapsed, made, clientVars, met>>
        BY <1>6 DEF Opened
  <2>2. apc' \in {"openPrivRead", "killed"} /\ upQ' \in Seq(Requests) /\ SentInv'
           /\ downQ' \in Seq(Answers)
        BY <2>1, AnswerType
  <2>3. FromInv' /\ OwnerInv'
        BY <1>a, <2>1, <2>2 DEF FromInv, OwnerInv
  <2> QED BY <1>a, <2>1, <2>2, <2>3, ServerMoves DEF TypeOK
<1>7. ASSUME OpenPrivate \/ ClientJoined PROVE TypeInv'
  <2>1. /\ apc \in Serving /\ apc' \in {"openPrivWrite", "register"}
        /\ UNCHANGED <<running, req, sessions, owner, lapsed, made, clientVars, upQ, downQ>>
        BY <1>7 DEF OpenPrivate, ClientJoined
  <2>2. met' \subseteq Clients \cup {Server}
        BY <1>a, <1>7 DEF OpenPrivate, ClientJoined, At, TypeOK
  <2>3. SentInv' /\ FromInv' /\ OwnerInv'
        BY <1>a, <2>1 DEF SentInv, FromInv, OwnerInv
  <2> QED BY <1>a, <2>1, <2>2, <2>3, ServerMoves DEF TypeOK
<1>8. ASSUME Register PROVE TypeInv'
  <2>1. /\ apc = "register" /\ sessions' = sessions \cup {Id}
        /\ owner' = [owner EXCEPT ![Id] = req.from]
        /\ Return
        /\ UNCHANGED <<req, lapsed, made, clientVars, met>>
        BY <1>8 DEF Register
  <2>2. running' \in BOOLEAN
        BY <1>8 DEF Register
  <2>3. Id \in Ids /\ req.from \in Clients
        BY <1>a, <2>1, IdIsId DEF FromInv
  <2>5. owner' \in [Ids -> Clients \cup {Server}] /\ OwnerInv'
        BY <1>a, <2>1, <2>3 DEF TypeOK, OwnerInv
  <2>6. /\ apc' = "pause" /\ upQ' \in Seq(Requests) /\ SentInv'
        /\ downQ' \in Seq(Answers)
        BY <2>1, ReturnType
  <2>7. FromInv'
        BY <2>6 DEF FromInv
  <2> QED BY <1>a, <2>1, <2>2, <2>3, <2>5, <2>6, <2>7, ServerMoves DEF TypeOK
<1> QED BY <1>1, <1>2, <1>3, <1>4, <1>5, <1>6, <1>7, <1>8 DEF AcceptorStep

LEMMA TypeInit == Init => TypeInv
<1> SUFFICES ASSUME Init PROVE TypeInv
    OBVIOUS
<1>1. TypeOK
      BY EmptyFacts DEF Init, TypeOK, Requests, Asking
<1> QED BY <1>1 DEF Init, TypeInv, SentInv, FromInv, OwnerInv, Serving

LEMMA TypeStep == TypeInv /\ [Next]_vars => TypeInv'
<1> SUFFICES ASSUME TypeInv, [Next]_vars PROVE TypeInv'
    OBVIOUS
<1>1. ASSUME NEW i \in Ids, Expire(i) PROVE TypeInv'
  <2>1. /\ sessions' = sessions \ {i} /\ lapsed' = lapsed \cup {owner[i]} /\ i \in sessions
        /\ UNCHANGED <<apc, running, req, owner, made, clientVars, met, upQ, downQ>>
        BY <1>1 DEF Expire
  <2>2. SentInv' /\ FromInv' /\ OwnerInv' /\ owner[i] \in Clients
        BY <2>1 DEF TypeInv, SentInv, FromInv, OwnerInv
  <2> QED BY <2>1, <2>2 DEF TypeInv, TypeOK, clientVars
<1>2. CASE UNCHANGED vars
      BY <1>2 DEF vars, TypeInv, TypeOK, SentInv, FromInv, OwnerInv
<1> QED BY <1>1, <1>2, ClientTypes, AcceptorTypes DEF Next

\* The acceptor and any number of clients keep their types, the requests in the
\* shared FIFO and the owners of sessions being clients, however requests
\* overlap and clients die.
THEOREM TypeCorrect == Spec => []TypeOK
<1>1. TypeInv => TypeOK
      BY DEF TypeInv
<1> QED BY <1>1, TypeInit, TypeStep, PTL DEF Spec

-----------------------------------------------------------------------------
(* As long as requests meet nobody else's *)

OneAsks == \A c, d \in Clients : cpc[c] \in Asking /\ cpc[d] \in Asking => c = d

\* The upstream FIFO holds one request at most, and only before the acceptor
\* has read it; whoever still asks is the one that sent it.
UpInv ==
    upQ # <<>> =>
        /\ upQ = <<upQ[1]>>
        /\ apc \in {"openDown", "read"}
        /\ upQ[1].cmd = 2 => cmd[upQ[1].from] = 2
        /\ \A c \in Clients : cpc[c] \in Asking => cpc[c] = "await" /\ c = upQ[1].from

\* c's session is in the registry, or it is known why it is not.
Registered(c) ==
    \/ IdOf[c] \in sessions /\ owner[IdOf[c]] = c
    \/ c \in lapsed
    \/ \E d \in Clients \ {c} : IdOf[d] = IdOf[c] /\ cmd[d] = 2

\* Where the acceptor can be while a request of c is under way.
Stage(c) ==
    /\ cpc[c] \in {"openUp", "reopenUp"} => apc \in Idle /\ (c \in met => apc # "pause")
    /\ cpc[c] = "openDown" => apc \in Idle \ {"pause"} /\ (c \in met => apc # "openUp")
    /\ cpc[c] = "send" => apc \in {"openDown", "read"}
    /\ cpc[c] = "await" =>
          /\ apc \notin {"register", "killed"}
          /\ apc \in Serving => c = req.from
          /\ apc = "openPrivWrite" => Server \notin met
    /\ cpc[c] = "openPrivUp" =>
          /\ apc \in {"openPrivRead", "openPrivWrite"}
          /\ c = req.from
          /\ apc = "openPrivRead" => c \notin met
          /\ apc = "openPrivWrite" => Server \notin met
    /\ cpc[c] = "openPrivDown" =>
          \/ apc \in {"openPrivWrite", "register"} /\ c = req.from
          \/ apc \in Idle /\ Registered(c)

StageInv == \A c \in Clients : Stage(c)

\* OPENED is the last answer in the downstream FIFO, and the acceptor waits for
\* its requester at the private FIFOs: nobody else can take it.
OpenedInv ==
    \A k \in 1..Len(downQ) :
        downQ[k].ans = "OPENED" =>
            /\ k = Len(downQ)
            /\ apc \in {"openPrivRead", "openPrivWrite"}
            /\ apc = "openPrivWrite" => Server \notin met
            /\ \A c \in Clients : cpc[c] \in Asking => cpc[c] = "await"

ServeInv ==
    /\ apc \in Preparing => Id \in made /\ Id \notin sessions
    /\ apc \in Serving /\ req.cmd = 2 => cmd[req.from] = 2

\* A destructor's request is a client's last.
LastInv == \A c \in Clients : cpc[c] \in {"out", "joined"} => cmd[c] = 1

JoinedInv ==
    \A c \in Clients :
        cpc[c] = "joined" =>
            Registered(c) \/ (apc \in {"openPrivWrite", "register"} /\ c = req.from)

\* As long as no client has died, an answer in the FIFO is the one that the
\* client which awaits it has been given, and requests come from such a client.
NoneDied == \A c \in Clients : cpc[c] # "killed"
Fresh ==
    NoneDied =>
        /\ apc # "killed"
        /\ apc \in {"decide", "create"} => cpc[req.from] = "await"
        /\ upQ # <<>> => cpc[upQ[1].from] = "await"
        /\ downQ # <<>> =>
             /\ Len(downQ) = 1
             /\ upQ = <<>>
             /\ apc \notin {"decide", "create", "register"}
             /\ \E c \in Clients : cpc[c] = "await"

\* What is in the downstream FIFO is kept there by somebody who has it open.
DownHeld == downQ # <<>> => AcceptorDown \/ \E c \in Clients : HoldsDown(cpc[c])

IInv ==
    /\ TypeInv
    /\ OneAsks /\ UpInv /\ StageInv /\ OpenedInv
    /\ ServeInv /\ LastInv /\ JoinedInv /\ SwitchOnlyIfAccepted
    /\ Fresh /\ DownHeld

LEMMA InvInit == Init => IInv
<1> SUFFICES ASSUME Init PROVE IInv
    OBVIOUS
<1>1. TypeInv
      BY TypeInit
<1>2. /\ OneAsks /\ UpInv /\ StageInv
      /\ ServeInv /\ LastInv /\ JoinedInv /\ SwitchOnlyIfAccepted
      BY DEF Init, OneAsks, Asking, UpInv, StageInv, Stage, ServeInv, Serving, Preparing,
         LastInv, JoinedInv, SwitchOnlyIfAccepted
<1>3. OpenedInv /\ Fresh /\ DownHeld
      BY DEF Init, OpenedInv, Fresh, DownHeld
<1> QED BY <1>1, <1>2, <1>3 DEF IInv

LEMMA RequestKeeps ==
    ASSUME IInv, TypeInv', NEW c \in Clients, NEW k \in {1, 2}, Request(c, k), Alone'
    PROVE  IInv'
<1>a. Quiet
      BY DEF Request, Alone, IInv, TypeInv, TypeOK
<1>1. /\ apc \in {"pause", "openUp"} /\ \A d \in Clients : cpc[d] \notin Asking
      /\ cmd' = [cmd EXCEPT ![c] = k]
      /\ UNCHANGED <<apc, running, req, sessions, owner, lapsed, made, seq, upQ, downQ>>
      /\ met' = IF AcceptorUp THEN met \cup {c} ELSE met \ {c}
      BY <1>a DEF Request, Goto, serverVars, Quiet
<1>2. PICK pc \in {"openUp", "reopenUp"} :
         /\ cpc' = [cpc EXCEPT ![c] = pc]
         /\ cpc[c] \in StuckOnMain <=> pc = "reopenUp"
      BY DEF Request, Goto
<1>3. /\ cpc'[c] = pc /\ \A d \in Clients : d # c => cpc'[d] = cpc[d]
      /\ cpc[c] \in {"out", "joined"} \cup StuckOnMain
      /\ k = 1 => cpc[c] = "out"
      BY <1>2 DEF IInv, TypeInv, TypeOK, Request
<1>4. upQ = <<>>
      BY <1>1 DEF IInv, UpInv
<1>5. OneAsks' /\ UpInv'
      BY <1>1, <1>3, <1>4 DEF OneAsks, UpInv
<1>6. StageInv'
      BY <1>1, <1>2, <1>3 DEF StageInv, Stage, Asking, AcceptorUp, Idle
<1>7. OpenedInv' /\ ServeInv'
      BY <1>1 DEF IInv, OpenedInv, ServeInv, Serving, Preparing
<1>8. \A d \in Clients : cmd[d] = 2 => cmd'[d] = 2
      BY <1>1, <1>3 DEF IInv, TypeInv, TypeOK, LastInv
<1>9. LastInv'
      BY <1>1, <1>2, <1>3 DEF IInv, TypeInv, TypeOK, LastInv
<1>10. JoinedInv'
  <2>1. \A d \in Clients : Registered(d) => Registered(d)'
        BY <1>1, <1>8 DEF Registered
  <2> QED BY <1>1, <1>2, <1>3, <2>1 DEF IInv, JoinedInv
<1>11. SwitchOnlyIfAccepted'
      BY <1>1, <1>2, <1>3 DEF IInv, SwitchOnlyIfAccepted
<1>12. Fresh'
  <2>1. NoneDied' => NoneDied
        BY <1>3 DEF NoneDied, StuckOnMain
  <2>2. NoneDied => downQ = <<>>
        BY <1>1 DEF IInv, Fresh, Asking
  <2> QED BY <1>1, <1>4, <2>1, <2>2 DEF Fresh
<1>13. DownHeld'
  <2>1. \A d \in Clients : HoldsDown(cpc[d]) => HoldsDown(cpc'[d])
        BY <1>2, <1>3 DEF HoldsDown, Asking, StuckOnMain
  <2> QED BY <1>1, <2>1 DEF IInv, DownHeld, AcceptorDown
<1> QED BY <1>5, <1>6, <1>7, <1>9, <1>10, <1>11, <1>12, <1>13 DEF IInv

\* The two open() calls on the request FIFOs.
LEMMA OpenKeeps ==
    ASSUME IInv, TypeInv', NEW c \in Clients, OpenUp(c) \/ OpenDown(c)
    PROVE  IInv'
<1> USE DEF Asking
<1>1. /\ cpc[c] \in {"openUp", "reopenUp", "openDown"} /\ c \in met
      /\ UNCHANGED <<apc, running, req, sessions, owner, lapsed, made, cmd, seq, upQ, downQ>>
      BY DEF OpenUp, OpenDown, OpeningUp, At, Goto, others, serverVars
<1>2. PICK pc \in {"openDown", "send"} :
         /\ cpc' = [cpc EXCEPT ![c] = pc]
         /\ pc = "send" <=> cpc[c] = "openDown"
         /\ pc = "openDown" => (c \in met' <=> AcceptorDown)
      BY DEF OpenUp, OpenDown, OpeningUp, At, Goto
<1>3. cpc'[c] = pc /\ \A d \in Clients : d # c => cpc'[d] = cpc[d]
      BY <1>2 DEF IInv, TypeInv, TypeOK
<1>4. \A d \in Clients : d # c => cpc[d] \notin Asking
      BY <1>1 DEF IInv, OneAsks
<1>5. /\ upQ = <<>>
      /\ NoneDied => downQ = <<>>
      BY <1>1, <1>4 DEF IInv, UpInv, Fresh
<1>6. apc \in {"openUp", "openDown", "read"} /\ (cpc[c] = "openDown" => apc # "openUp")
      BY <1>1 DEF IInv, StageInv, Stage, Idle
<1>7. OneAsks' /\ UpInv'
      BY <1>1, <1>2, <1>3, <1>4, <1>5 DEF OneAsks, UpInv
<1>8. StageInv'
      BY <1>1, <1>2, <1>3, <1>4, <1>6 DEF StageInv, Stage, AcceptorDown, Idle
<1>9. OpenedInv' /\ ServeInv' /\ LastInv'
      BY <1>1, <1>2, <1>3, <1>6 DEF IInv, OpenedInv, ServeInv, LastInv, Serving, Preparing
<1>10. JoinedInv' /\ SwitchOnlyIfAccepted'
  <2>1. \A d \in Clients : Registered(d) => Registered(d)'
        BY <1>1 DEF Registered
  <2> QED BY <1>1, <1>2, <1>3, <2>1 DEF IInv, JoinedInv, SwitchOnlyIfAccepted
<1>11. Fresh'
  <2>1. NoneDied' => NoneDied
        BY <1>1, <1>3 DEF NoneDied
  <2> QED BY <1>1, <1>5, <1>6, <2>1 DEF Fresh
<1>12. DownHeld'
  <2>1. \A d \in Clients : HoldsDown(cpc[d]) => HoldsDown(cpc'[d])
        BY <1>2, <1>3 DEF HoldsDown, StuckOnMain
  <2> QED BY <1>1, <2>1 DEF IInv, DownHeld, AcceptorDown
<1> QED BY <1>7, <1>8, <1>9, <1>10, <1>11, <1>12 DEF IInv

\* The acceptor has the FIFO open when a client writes its request.
LEMMA SendKeeps ==
    ASSUME IInv, TypeInv', NEW c \in Clients, Send(c)
    PROVE  IInv'
<1> USE DEF Asking
<1>1. cpc[c] = "send" /\ apc \in {"openDown", "read"}
      BY DEF Send, IInv, StageInv, Stage
<1> DEFINE r == [from |-> c, cmd |-> cmd[c], seq |-> seq[c]]
<1>2. /\ upQ' = Append(upQ, r) /\ downQ' = downQ
      /\ cpc' = [cpc EXCEPT ![c] = "await"]
      /\ UNCHANGED <<apc, running, req, sessions, owner, lapsed, made, cmd, seq>>
      BY <1>1 DEF Send, Goto, others, serverVars, AcceptorUp
<1>3. cpc'[c] = "await" /\ \A d \in Clients : d # c => cpc'[d] = cpc[d]
      BY <1>2 DEF IInv, TypeInv, TypeOK
<1>4. \A d \in Clients : d # c => cpc[d] \notin Asking
      BY <1>1 DEF IInv, OneAsks
<1>5. /\ upQ = <<>>
      /\ NoneDied => downQ = <<>>
      BY <1>1, <1>4 DEF IInv, UpInv, Fresh
<1>6. upQ' = <<r>>
      BY <1>2, <1>5, OneElement
<1>7. upQ' = <<upQ'[1]>> /\ upQ'[1].from = c /\ upQ'[1].cmd = cmd[c]
      BY <1>6
<1> HIDE DEF r
<1>8. OneAsks' /\ UpInv'
      BY <1>1, <1>2, <1>3, <1>4, <1>7 DEF OneAsks, UpInv
<1>9. StageInv'
      BY <1>1, <1>2, <1>3, <1>4 DEF StageInv, Stage, Serving
<1>10. OpenedInv' /\ ServeInv' /\ LastInv'
      BY <1>1, <1>2, <1>3 DEF IInv, OpenedInv, ServeInv, LastInv, Serving, Preparing
<1>11. JoinedInv' /\ SwitchOnlyIfAccepted'
  <2>1. \A d \in Clients : Registered(d) => Registered(d)'
        BY <1>2 DEF Registered
  <2> QED BY <1>1, <1>2, <1>3, <2>1 DEF IInv, JoinedInv, SwitchOnlyIfAccepted
<1>12. Fresh'
  <2>1. NoneDied' => NoneDied
        BY <1>1, <1>3 DEF NoneDied
  <2> QED BY <1>1, <1>2, <1>3, <1>5, <1>7, <2>1 DEF Fresh
<1>13. DownHeld'
      BY <1>1, <1>2 DEF DownHeld, AcceptorDown
<1> QED BY <1>8, <1>9, <1>10, <1>11, <1>12, <1>13 DEF IInv

\* What is left of a FIFO when its first packet is taken or it is emptied.
LEMMA Shorter ==
    ASSUME NEW S, NEW q \in Seq(S), NEW r, r \in {q, <<>>} \/ (q # <<>> /\ r = Tail(q))
    PROVE  \A k \in 1..Len(r) : \E j \in 1..Len(q) :
              r[k] = q[j] /\ (j = Len(q) => k = Len(r))
<1>1. CASE r = q
      BY <1>1
<1>2. CASE r = <<>>
      BY <1>2
<1>3. CASE q # <<>> /\ r = Tail(q)
  <2>1. Len(r) = Len(q) - 1 /\ Len(q) \in Nat
        BY <1>3, TailFacts, EmptyFacts
  <2>2. \A k \in 1..Len(r) : k + 1 \in 1..Len(q) /\ r[k] = q[k + 1]
        BY <1>3, TailFacts
  <2>3. \A k \in 1..Len(r) : k + 1 = Len(q) => k = Len(r)
        BY <2>1
  <2> QED BY <2>2, <2>3
<1> QED BY <1>1, <1>2, <1>3

\* Emptied leaves something downstream only if somebody keeps it.
LEMMA EmptiedHeld ==
    ASSUME TypeOK, NEW c \in Clients, NEW pc, NEW down, Emptied(c, pc, down),
           cpc' = [cpc EXCEPT ![c] = pc], apc' = apc
    PROVE  DownHeld'
<1>1. cpc'[c] = pc /\ \A d \in Clients : d # c => cpc'[d] = cpc[d]
      BY DEF TypeOK
<1>2. downQ' # <<>> => AcceptorDown \/ HoldsDown(pc) \/ ClientsDown \ {c} # {}
      BY DEF Emptied
<1>3. ClientsDown \ {c} # {} => \E d \in Clients : d # c /\ HoldsDown(cpc[d])
      BY DEF ClientsDown
<1>4. HoldsDown(pc) => HoldsDown(cpc'[c])
      BY <1>1
<1>5. \A d \in Clients : d # c /\ HoldsDown(cpc[d]) => HoldsDown(cpc'[d])
      BY <1>1
<1>6. AcceptorDown' <=> AcceptorDown
      BY DEF AcceptorDown
<1> QED BY <1>2, <1>3, <1>4, <1>5, <1>6 DEF DownHeld

\* A client's request ends, or its process does, and it may have taken the
\* first answer: the steps of receive_packet, of the last open() and of death.
LEMMA DepartKeeps ==
    ASSUME IInv, TypeInv', NEW c \in Clients, NEW pc, NEW down,
           cpc[c] \in Asking \cup {"rejected"},
           pc \notin Asking /\ pc # "out",
           cpc' = [cpc EXCEPT ![c] = pc],
           met' \ {c} = met \ {c},
           Emptied(c, pc, down),
           down \in {downQ, <<>>} \/ (downQ # <<>> /\ down = Tail(downQ)),
           UNCHANGED others,
           pc = "joined" =>
              /\ cmd[c] = 1 /\ IdOf[c] \in made
              /\ Registered(c) \/ (apc \in {"openPrivWrite", "register"} /\ c = req.from),
           cpc[c] # "await" => down = downQ,
           NoneDied /\ cpc[c] = "await" /\ pc # "killed" =>
              apc \notin {"decide", "create"} /\ upQ = <<>> /\ down = <<>>
    PROVE  IInv'
<1>1. UNCHANGED <<apc, running, req, sessions, owner, lapsed, made, cmd, seq>>
      BY DEF others, serverVars
<1>2. cpc'[c] = pc /\ \A d \in Clients : d # c => cpc'[d] = cpc[d]
      BY DEF IInv, TypeInv, TypeOK
<1>3. \A d \in Clients : cpc'[d] \in Asking => d # c /\ cpc[d] \in Asking /\ cpc'[d] = cpc[d]
      BY <1>2
<1>4. upQ' \in {upQ, <<>>} /\ downQ' \in {down, <<>>}
      BY EmptiedChoices
<1>5. OneAsks' /\ UpInv'
      BY <1>1, <1>3, <1>4 DEF IInv, OneAsks, UpInv
<1>6. \A d \in Clients : Registered(d)' <=> Registered(d)
      BY <1>1 DEF Registered
<1>7. StageInv'
  <2>1. ASSUME NEW d \in Clients PROVE Stage(d)'
    <3>1. CASE cpc'[d] \notin Asking
          BY <3>1 DEF Stage, Asking
    <3>2. CASE cpc'[d] \in Asking
      <4>1. d # c /\ cpc'[d] = cpc[d]
            BY <1>3, <3>2
      <4>2. (d \in met' <=> d \in met) /\ (Server \in met' <=> Server \in met)
            BY <4>1, HandshakeAssumption
      <4>3. Stage(d)
            BY DEF IInv, StageInv
      <4> QED BY <1>1, <1>6, <4>1, <4>2, <4>3 DEF Stage
    <3> QED BY <3>1, <3>2
  <2> QED BY <2>1 DEF StageInv
<1>8. OpenedInv'
  <2>1. downQ \in Seq(Answers)
        BY DEF IInv, TypeInv, TypeOK
  <2>2. \A k \in 1..Len(downQ') : \E j \in 1..Len(downQ) :
           downQ'[k] = downQ[j] /\ (j = Len(downQ) => k = Len(downQ'))
    <3>1. downQ' \in {downQ, <<>>} \/ (downQ # <<>> /\ downQ' = Tail(downQ))
          BY <1>4
    <3> QED BY ONLY <2>1, <3>1, Shorter
  <2>3. Server \in met' <=> Server \in met
        BY HandshakeAssumption
  <2> QED BY <1>1, <1>3, <2>2, <2>3 DEF IInv, OpenedInv
<1>9. ServeInv' /\ LastInv'
      BY <1>1, <1>2 DEF IInv, ServeInv, LastInv, Id
<1>10. JoinedInv' /\ SwitchOnlyIfAccepted'
      BY <1>1, <1>2, <1>6 DEF IInv, JoinedInv, SwitchOnlyIfAccepted, Asking
<1>11. Fresh'
  <2> SUFFICES ASSUME NoneDied' PROVE Fresh'
      BY DEF Fresh
  <2>1. NoneDied /\ pc # "killed"
        BY <1>2 DEF NoneDied, Asking
  <2>2. CASE cpc[c] = "await"
        BY <1>1, <1>4, <2>1, <2>2 DEF IInv, Fresh
  <2>3. CASE cpc[c] # "await"
    <3>1. \A d \in Clients : cpc[d] = "await" => cpc'[d] = "await"
          BY <1>2, <2>3
    <3>2. upQ # <<>> => upQ[1].from \in Clients
          BY TailFacts DEF IInv, TypeInv, TypeOK, SentInv
    <3>3. apc \in {"decide", "create"} => req.from \in Clients
          BY DEF IInv, TypeInv, FromInv, Serving
    <3>4. downQ' \in {downQ, <<>>}
          BY <1>4, <2>3
    <3> QED BY <1>1, <1>4, <2>1, <3>1, <3>2, <3>3, <3>4 DEF IInv, Fresh
  <2> QED BY <2>2, <2>3
<1>12. DownHeld'
      BY <1>1, EmptiedHeld DEF IInv, TypeInv
<1> QED BY <1>5, <1>7, <1>8, <1>9, <1>10, <1>11, <1>12 DEF IInv

\* receive_packet of a client: OPENED is its own, and sends it to the private
\* FIFOs; anything else, or the end of file, ends the request.
LEMMA ReceiveKeeps ==
    ASSUME IInv, TypeInv', NEW c \in Clients, Receive(c)
    PROVE  IInv'
<1> DEFINE down == IF downQ = <<>> THEN <<>> ELSE Tail(downQ)
<1>1. /\ cpc[c] = "await" /\ (downQ # <<>> \/ ~AcceptorDown)
      /\ UNCHANGED others
      BY DEF Receive
<1>2. PICK end :
         /\ end \in {Ended(c, "rejected"), Ended(c, "unswitched"), Ended(c, "refused"),
                     "openPrivUp"}
         /\ end = "openPrivUp" => downQ # <<>> /\ Head(downQ).ans = "OPENED"
         /\ Goto(c, end, PrivateReader(IdOf[c]))
         /\ Emptied(c, end, down)
      BY DEF Receive, Ended
<1>3. cpc' = [cpc EXCEPT ![c] = end] /\ met' \ {c} = met \ {c}
         /\ (c \in met' <=> PrivateReader(IdOf[c]))
      BY <1>2 DEF Goto
<1>4. downQ \in Seq(Answers)
      BY DEF IInv, TypeInv, TypeOK
<1>5. CASE end # "openPrivUp"
  <2>1. end \notin Asking /\ end \notin {"out", "joined", "killed"}
        BY <1>2, <1>5 DEF Ended, Asking
  <2>2. ASSUME NoneDied PROVE apc \notin {"decide", "create"} /\ upQ = <<>> /\ down = <<>>
    <3>1. downQ # <<>> => Len(downQ) = 1 /\ upQ = <<>> /\ apc \notin {"decide", "create"}
          BY <2>2 DEF IInv, Fresh
    <3>2. downQ # <<>> => Tail(downQ) = <<>>
          BY <1>4, <3>1, TailOfOne
    <3>3. downQ = <<>> => upQ = <<>> /\ apc \notin {"decide", "create"}
          BY <1>1 DEF IInv, UpInv, AcceptorDown
    <3> QED BY <3>1, <3>2, <3>3
  <2>3. down \in {downQ, <<>>} \/ (downQ # <<>> /\ down = Tail(downQ))
        OBVIOUS
  <2>4. cpc[c] \in Asking \cup {"rejected"}
        BY <1>1 DEF Asking
  <2> HIDE DEF down
  <2> QED BY <1>1, <1>2, <1>3, <2>1, <2>2, <2>3, <2>4, DepartKeeps
<1>6. CASE end = "openPrivUp"
  <2> USE DEF Asking
  <2>1. /\ downQ # <<>> /\ downQ[1].ans = "OPENED" /\ 1 \in 1..Len(downQ)
        BY <1>2, <1>4, <1>6, TailFacts
  <2>2. /\ Len(downQ) = 1
        /\ apc \in {"openPrivRead", "openPrivWrite"}
        /\ apc = "openPrivWrite" => Server \notin met
        BY <2>1 DEF IInv, OpenedInv
  <2>3. /\ c = req.from /\ Id = IdOf[c] /\ Id \in made /\ Id \notin sessions
        BY <1>1, <2>2 DEF IInv, StageInv, Stage, ServeInv, Serving, Preparing, Id
  <2>4. /\ upQ = <<>> /\ upQ' = <<>> /\ downQ' = <<>>
    <3>1. Tail(downQ) = <<>>
          BY <1>4, <2>2, TailOfOne
    <3>2. upQ = <<>>
          BY <2>2 DEF IInv, UpInv
    <3> QED BY <1>2, <2>1, <3>1, <3>2 DEF Emptied
  <2>5. /\ cpc'[c] = "openPrivUp" /\ \A d \in Clients : d # c => cpc'[d] = cpc[d]
        /\ \A d \in Clients : d # c => cpc[d] \notin Asking
        BY <1>1, <1>3, <1>6 DEF IInv, TypeInv, TypeOK, OneAsks
  <2>6. UNCHANGED <<apc, running, req, sessions, owner, lapsed, made, cmd, seq>>
        BY <1>1 DEF others, serverVars
  <2>7. apc = "openPrivRead" => c \notin met'
        BY <1>3, <2>3 DEF PrivateReader
  <2>8. Server \in met' <=> Server \in met
        BY <1>3, HandshakeAssumption
  <2>9. OneAsks' /\ UpInv'
        BY <2>4, <2>5 DEF OneAsks, UpInv
  <2>10. StageInv'
        BY <2>2, <2>3, <2>5, <2>6, <2>7, <2>8 DEF StageInv, Stage
  <2>11. OpenedInv' /\ DownHeld'
        BY <2>4 DEF OpenedInv, DownHeld
  <2>12. ServeInv' /\ LastInv'
        BY <2>5, <2>6 DEF IInv, ServeInv, LastInv, Id
  <2>13. \A d \in Clients : Registered(d)' <=> Registered(d)
        BY <2>6 DEF Registered
  <2>14. JoinedInv' /\ SwitchOnlyIfAccepted'
        BY <2>3, <2>5, <2>6, <2>13 DEF IInv, JoinedInv, SwitchOnlyIfAccepted
  <2>15. Fresh'
        BY <2>2, <2>4, <2>6 DEF Fresh
  <2> QED BY <2>9, <2>10, <2>11, <2>12, <2>14, <2>15 DEF IInv
<1> QED BY <1>5, <1>6

\* The private FIFO exists, and the acceptor is at its other end.
LEMMA OpenPrivUpKeeps ==
    ASSUME IInv, TypeInv', NEW c \in Clients, OpenPrivUp(c)
    PROVE  IInv'
<1> USE DEF Asking
<1>1. cpc[c] = "openPrivUp" /\ (IdOf[c] \in made => c \in met)
      /\ UNCHANGED <<apc, running, req, sessions, owner, lapsed, made, cmd, seq>>
      BY DEF OpenPrivUp, others, serverVars
<1>2. IdOf[c] \in made
      BY <1>1 DEF IInv, SwitchOnlyIfAccepted
<1>3. apc = "openPrivWrite" /\ c = req.from
      BY <1>1, <1>2 DEF IInv, StageInv, Stage
<1>4. /\ cpc' = [cpc EXCEPT ![c] = "openPrivDown"]
      /\ Emptied(c, "openPrivDown", downQ)
      BY <1>2 DEF OpenPrivUp
<1>5. upQ' = upQ /\ downQ' = downQ
      BY <1>3, <1>4 DEF Emptied, AcceptorUp, AcceptorDown
<1>6. /\ cpc'[c] = "openPrivDown" /\ \A d \in Clients : d # c => cpc'[d] = cpc[d]
      /\ \A d \in Clients : d # c => cpc[d] \notin Asking
      BY <1>1, <1>4 DEF IInv, TypeInv, TypeOK, OneAsks
<1>7. upQ = <<>> /\ \A k \in 1..Len(downQ) : downQ[k].ans # "OPENED"
      BY <1>1, <1>3 DEF IInv, UpInv, OpenedInv
<1>8. OneAsks' /\ UpInv'
      BY <1>5, <1>6, <1>7 DEF OneAsks, UpInv
<1>9. StageInv'
      BY <1>1, <1>3, <1>6 DEF StageInv, Stage
<1>10. OpenedInv'
      BY <1>5, <1>7 DEF OpenedInv
<1>11. ServeInv' /\ LastInv'
      BY <1>1, <1>6 DEF IInv, ServeInv, LastInv, Id
<1>12. \A d \in Clients : Registered(d)' <=> Registered(d)
      BY <1>1 DEF Registered
<1>13. JoinedInv' /\ SwitchOnlyIfAccepted'
      BY <1>1, <1>2, <1>6, <1>12 DEF IInv, JoinedInv, SwitchOnlyIfAccepted
<1>14. Fresh'
  <2>1. NoneDied' => NoneDied
        BY <1>1, <1>6 DEF NoneDied
  <2>2. NoneDied => downQ = <<>>
        BY <1>1, <1>6 DEF IInv, Fresh
  <2> QED BY <1>1, <1>3, <1>5, <1>7, <2>1, <2>2 DEF Fresh
<1>15. DownHeld'
      BY <1>1, <1>3 DEF DownHeld, AcceptorDown
<1> QED BY <1>8, <1>9, <1>10, <1>11, <1>13, <1>14, <1>15 DEF IInv

LEMMA EndKeeps ==
    ASSUME IInv, TypeInv', NEW c \in Clients, OpenPrivDown(c) \/ Terminate(c) \/ Crash(c)
    PROVE  IInv'
<1>1. PICK pc : /\ cpc' = [cpc EXCEPT ![c] = pc] /\ met' \ {c} = met \ {c}
                /\ Emptied(c, pc, downQ)
                /\ pc \in {"gone", "killed"} \/ (pc = "joined" /\ OpenPrivDown(c) /\ cmd[c] # 2)
                /\ cpc[c] = "await" => pc = "killed"
      BY DEF OpenPrivDown, Terminate, Crash, Goto, Ended
<1>2. /\ cpc[c] \in Asking \cup {"rejected"}
      /\ UNCHANGED others
      BY DEF OpenPrivDown, Terminate, Crash, Asking
<1>3. pc \notin Asking /\ pc # "out"
      BY <1>1 DEF Asking
<1>4. ASSUME pc = "joined"
      PROVE  /\ cmd[c] = 1 /\ IdOf[c] \in made
             /\ Registered(c) \/ (apc \in {"openPrivWrite", "register"} /\ c = req.from)
  <2>1. cpc[c] = "openPrivDown" /\ cmd[c] # 2
        BY <1>1, <1>4 DEF OpenPrivDown
  <2> QED BY <2>1 DEF IInv, TypeInv, TypeOK, SwitchOnlyIfAccepted, StageInv, Stage
<1> QED BY <1>1, <1>2, <1>3, <1>4, DepartKeeps

LEMMA PushKeeps ==
    ASSUME IInv, TypeInv', NEW c \in Clients, Push(c)
    PROVE  IInv'
<1>1. UNCHANGED <<apc, running, req, sessions, owner, lapsed, made, cpc, cmd, met, upQ, downQ>>
      BY DEF Push, serverVars
<1>2. OneAsks' /\ UpInv' /\ OpenedInv' /\ ServeInv' /\ LastInv' /\ SwitchOnlyIfAccepted'
      BY <1>1 DEF IInv, OneAsks, UpInv, OpenedInv, ServeInv, LastInv, SwitchOnlyIfAccepted, Id
<1>3. StageInv' /\ JoinedInv'
      BY <1>1 DEF IInv, StageInv, Stage, JoinedInv, Registered
<1>4. Fresh' /\ DownHeld'
      BY <1>1 DEF IInv, Fresh, NoneDied, DownHeld, AcceptorDown
<1> QED BY <1>2, <1>3, <1>4 DEF IInv

-----------------------------------------------------------------------------
(* The acceptor *)

\* A step that adds no reason and takes no session leaves clients registered.
LEMMA StillRegistered ==
    ASSUME UNCHANGED <<sessions, owner, lapsed, cmd>>
    PROVE  \A c \in Clients : Registered(c)' <=> Registered(c)
BY DEF Registered

LEMMA AcceptKeeps ==
    ASSUME IInv, TypeInv', Accept \/ AcceptUp \/ AcceptDown
    PROVE  IInv'
<1> USE DEF Asking
<1>1. /\ UNCHANGED <<running, req, sessions, owner, lapsed, made, cpc, cmd, seq, upQ, downQ>>
      /\ \/ apc = "pause" /\ apc' = "openUp"
         \/ apc = "openUp" /\ apc' = "openDown"
         \/ apc = "openDown" /\ apc' = "read"
      BY DEF Accept, AcceptUp, AcceptDown, clientVars
<1>2. OneAsks' /\ UpInv' /\ LastInv' /\ SwitchOnlyIfAccepted'
      BY <1>1 DEF IInv, OneAsks, UpInv, LastInv, SwitchOnlyIfAccepted
<1>3. StageInv' /\ JoinedInv'
  <2>1. ASSUME NEW c \in Clients PROVE Stage(c)'
    <3>1. Stage(c) /\ (Registered(c)' <=> Registered(c))
          BY <1>1, StillRegistered DEF IInv, StageInv
    <3> QED BY <1>1, <3>1 DEF Stage, Idle, Serving
  <2> QED BY <1>1, <2>1, StillRegistered DEF IInv, StageInv, JoinedInv
<1>4. OpenedInv' /\ ServeInv'
      BY <1>1 DEF IInv, OpenedInv, ServeInv, Serving, Preparing
<1>5. Fresh' /\ DownHeld'
      BY <1>1 DEF IInv, Fresh, NoneDied, DownHeld, AcceptorDown
<1> QED BY <1>2, <1>3, <1>4, <1>5 DEF IInv

LEMMA ReadRequestKeeps ==
    ASSUME IInv, TypeInv', ReadRequest
    PROVE  IInv'
<1> USE DEF Asking
<1>1. /\ apc = "read" /\ apc' = "decide" /\ upQ # <<>>
      /\ req' = Head(upQ) /\ upQ' = Tail(upQ)
      /\ UNCHANGED <<running, sessions, owner, lapsed, made, cpc, cmd, seq, met, downQ>>
      BY DEF ReadRequest, clientVars
<1>2. /\ upQ = <<upQ[1]>> /\ (upQ[1].cmd = 2 => cmd[upQ[1].from] = 2)
      /\ \A c \in Clients : cpc[c] \in Asking => cpc[c] = "await" /\ c = upQ[1].from
      BY <1>1 DEF IInv, UpInv
<1>3. req' = upQ[1] /\ upQ' = <<>>
      BY <1>1, <1>2, OneElement
<1>4. OneAsks' /\ UpInv' /\ LastInv' /\ SwitchOnlyIfAccepted'
      BY <1>1, <1>3 DEF IInv, OneAsks, UpInv, LastInv, SwitchOnlyIfAccepted
<1>5. StageInv'
      BY <1>1, <1>2, <1>3 DEF StageInv, Stage
<1>6. JoinedInv'
      BY <1>1, StillRegistered DEF IInv, JoinedInv
<1>7. OpenedInv' /\ ServeInv'
      BY <1>1, <1>2, <1>3 DEF IInv, OpenedInv, ServeInv, Serving, Preparing
<1>8. Fresh' /\ DownHeld'
      BY <1>1, <1>3 DEF IInv, Fresh, NoneDied, DownHeld, AcceptorDown
<1> QED BY <1>4, <1>5, <1>6, <1>7, <1>8 DEF IInv

LEMMA ReadEofKeeps ==
    ASSUME IInv, TypeInv', ReadEof
    PROVE  IInv'
<1> USE DEF Asking
<1>1. /\ apc = "read" /\ apc' = "pause" /\ upQ = <<>> /\ upQ' = <<>>
      /\ downQ' = IF ClientsDown = {} THEN <<>> ELSE downQ
      /\ UNCHANGED <<running, req, sessions, owner, lapsed, made, cpc, cmd, seq, met>>
      BY DEF ReadEof, Return, clientVars
<1>2. \A c \in Clients : cpc[c] \in Asking => cpc[c] = "openPrivDown"
      BY DEF ReadEof, ClientsUp, HoldsUp
<1>3. OneAsks' /\ UpInv' /\ LastInv' /\ SwitchOnlyIfAccepted'
      BY <1>1 DEF IInv, OneAsks, UpInv, LastInv, SwitchOnlyIfAccepted
<1>4. StageInv'
  <2>1. ASSUME NEW c \in Clients PROVE Stage(c)'
    <3>1. Stage(c) /\ (Registered(c)' <=> Registered(c))
          BY <1>1, StillRegistered DEF IInv, StageInv
    <3> QED BY <1>1, <1>2, <3>1 DEF Stage, Idle
  <2> QED BY <2>1 DEF StageInv
<1>5. JoinedInv'
      BY <1>1, StillRegistered DEF IInv, JoinedInv
<1>6. OpenedInv' /\ ServeInv'
  <2>1. \A k \in 1..Len(downQ) : downQ[k].ans # "OPENED"
        BY <1>1 DEF IInv, OpenedInv
  <2>2. downQ' = downQ \/ downQ' = <<>>
        BY <1>1
  <2> QED BY <1>1, <2>1, <2>2 DEF OpenedInv, ServeInv, Serving, Preparing
<1>7. Fresh'
  <2>1. NoneDied => downQ = <<>>
        BY <1>2 DEF IInv, Fresh
  <2> QED BY <1>1, <2>1 DEF Fresh, NoneDied
<1>8. DownHeld'
      BY <1>1 DEF DownHeld, ClientsDown
<1> QED BY <1>3, <1>4, <1>5, <1>6, <1>7, <1>8 DEF IInv

\* accept_client returns after REMOVED or REJECTED: whoever still asks awaits
\* that answer.
LEMMA LeaveKeeps ==
    ASSUME IInv, TypeInv', Leave
    PROVE  IInv'
<1> USE DEF Asking
<1>1. /\ apc = "leave" /\ apc' = "pause"
      /\ downQ' = IF ClientsDown = {} THEN <<>> ELSE downQ
      /\ UNCHANGED <<running, req, sessions, owner, lapsed, made, cpc, cmd, seq, met>>
      BY DEF Leave, Return, clientVars
<1>2. upQ = <<>> /\ upQ' = <<>>
      BY <1>1 DEF IInv, UpInv, Leave, Return
<1>3. OneAsks' /\ UpInv' /\ LastInv' /\ SwitchOnlyIfAccepted'
      BY <1>1, <1>2 DEF IInv, OneAsks, UpInv, LastInv, SwitchOnlyIfAccepted
<1>4. StageInv'
  <2>1. ASSUME NEW c \in Clients PROVE Stage(c)'
    <3>1. Stage(c)
          BY DEF IInv, StageInv
    <3> QED BY <1>1, <3>1 DEF Stage, Idle, Serving
  <2> QED BY <2>1 DEF StageInv
<1>5. JoinedInv'
      BY <1>1, StillRegistered DEF IInv, JoinedInv
<1>6. OpenedInv' /\ ServeInv'
  <2>1. \A k \in 1..Len(downQ) : downQ[k].ans # "OPENED"
        BY <1>1 DEF IInv, OpenedInv
  <2>2. downQ' = downQ \/ downQ' = <<>>
        BY <1>1
  <2> QED BY <1>1, <2>1, <2>2 DEF OpenedInv, ServeInv, Serving, Preparing
<1>7. Fresh'
  <2>1. downQ' = downQ \/ downQ' = <<>>
        BY <1>1
  <2> QED BY <1>1, <1>2, <2>1 DEF IInv, Fresh, NoneDied
<1>8. DownHeld'
      BY <1>1 DEF DownHeld, ClientsDown
<1> QED BY <1>3, <1>4, <1>5, <1>6, <1>7, <1>8 DEF IInv

\* While the acceptor decides, whoever asks is the client it serves, and
\* awaits the answer.
LEMMA Deciding ==
    ASSUME IInv, apc \in {"decide", "create"}
    PROVE  /\ \A c \in Clients : cpc[c] \in Asking => cpc[c] = "await" /\ c = req.from
           /\ upQ = <<>> /\ req.from \in Clients
           /\ \A k \in 1..Len(downQ) : downQ[k].ans # "OPENED"
           /\ NoneDied => downQ = <<>> /\ cpc[req.from] = "await"
<1>1. \A c \in Clients : cpc[c] \in Asking => cpc[c] = "await" /\ c = req.from
      BY DEF IInv, StageInv, Stage, Asking, Idle, Serving
<1>2. upQ = <<>> /\ \A k \in 1..Len(downQ) : downQ[k].ans # "OPENED"
      BY DEF IInv, UpInv, OpenedInv
<1>3. req.from \in Clients
      BY DEF IInv, TypeInv, FromInv, Serving
<1> QED BY <1>1, <1>2, <1>3 DEF IInv, Fresh

\* The answer goes out, unless nobody reads: then a client has died.
LEMMA AnswerFacts ==
    ASSUME IInv, apc \in {"decide", "create"},
           NEW text \in {"OPENED", "REJECTED", "REMOVED"},
           NEW next \in {"leave", "openPrivRead"}, Answer(text, next)
    PROVE  /\ upQ' = <<>>
           /\ \/ /\ apc' = "killed" /\ downQ' = <<>> /\ ~NoneDied
                 /\ \A c \in Clients : cpc[c] \notin Asking
              \/ /\ apc' = next
                 /\ downQ' = Append(downQ, [ans |-> text, seq |-> req.seq])
                 /\ \E c \in Clients : HoldsDown(cpc[c])
<1>1. /\ upQ = <<>> /\ req.from \in Clients
      /\ \A c \in Clients : cpc[c] \in Asking => cpc[c] = "await"
      /\ NoneDied => cpc[req.from] = "await"
      BY Deciding
<1>2. upQ' = <<>>
      BY <1>1 DEF Answer
<1>3. CASE ClientsDown = {}
  <2>1. \A c \in Clients : ~HoldsDown(cpc[c])
        BY <1>3 DEF ClientsDown
  <2>2. \A c \in Clients : cpc[c] # "await"
        BY <2>1 DEF HoldsDown, Asking
  <2>3. apc' = "killed" /\ downQ' = <<>>
        BY <1>3 DEF Answer
  <2>4. ~NoneDied
        BY <1>1, <2>2, Zenon
  <2>5. \A c \in Clients : cpc[c] \notin Asking
        BY <1>1, <2>2, Zenon
  <2> QED BY <1>2, <2>3, <2>4, <2>5
<1>4. CASE ClientsDown # {}
      BY <1>2, <1>4 DEF Answer, ClientsDown
<1> QED BY <1>3, <1>4

\* REMOVED and REJECTED: the answer ends the request on the server's side.
LEMMA AnswerKeeps ==
    ASSUME IInv, TypeInv', Remove \/ Reject
    PROVE  IInv'
<1> USE DEF Asking
<1>1. PICK text \in {"REJECTED", "REMOVED"} : Answer(text, "leave")
      BY DEF Remove, Reject
<1>2. /\ apc = "decide"
      /\ UNCHANGED <<running, req, owner, lapsed, made, cpc, cmd, seq, met>>
      /\ \/ sessions' = sessions
         \/ sessions' = sessions \ {Id} /\ req.cmd = 2
      BY DEF Remove, Reject, clientVars
<1> DEFINE packet == [ans |-> text, seq |-> req.seq]
<1>3. packet.ans # "OPENED"
      OBVIOUS
<1> HIDE DEF packet
<1>4. /\ upQ' = <<>>
      /\ \/ /\ apc' = "killed" /\ downQ' = <<>> /\ ~NoneDied
            /\ \A c \in Clients : cpc[c] \notin Asking
         \/ /\ apc' = "leave" /\ downQ' = Append(downQ, packet)
            /\ \E c \in Clients : HoldsDown(cpc[c])
      BY <1>1, <1>2, AnswerFacts DEF packet
<1>5. /\ \A c \in Clients : cpc[c] \in Asking => cpc[c] = "await" /\ c = req.from
      /\ req.from \in Clients
      /\ \A k \in 1..Len(downQ) : downQ[k].ans # "OPENED"
      /\ NoneDied => downQ = <<>> /\ cpc[req.from] = "await"
      BY <1>2, Deciding
<1>6. downQ \in Seq(Answers) /\ packet \in Answers
      BY DEF IInv, TypeInv, TypeOK, Answers, Requests, packet
<1>7. OneAsks' /\ UpInv' /\ LastInv' /\ SwitchOnlyIfAccepted'
      BY <1>2, <1>4 DEF IInv, OneAsks, UpInv, LastInv, SwitchOnlyIfAccepted
<1>8. StageInv'
      BY <1>2, <1>4, <1>5 DEF StageInv, Stage, Idle, Serving
<1>9. OpenedInv'
  <2>1. \A k \in 1..Len(downQ') : downQ'[k].ans # "OPENED"
    <3>1. CASE downQ' = <<>>
          BY <3>1
    <3>2. CASE downQ' = Append(downQ, packet)
      <4>1. Len(downQ') = Len(downQ) + 1 /\ Len(downQ) \in Nat
            BY <1>6, <3>2, QueueFacts, EmptyFacts
      <4>2. \A k \in 1..Len(downQ') : k \in 1..Len(downQ) \/ k = Len(downQ) + 1
            BY <4>1
      <4>3. /\ \A k \in 1..Len(downQ) : downQ'[k] = downQ[k]
            /\ downQ'[Len(downQ) + 1] = packet
            BY <1>6, <3>2, QueueFacts
      <4> QED BY <1>3, <1>5, <4>2, <4>3
    <3> QED BY <1>4, <3>1, <3>2
  <2> QED BY <2>1 DEF OpenedInv
<1>10. ServeInv'
      BY <1>4 DEF ServeInv, Serving, Preparing
<1>11. JoinedInv'
  <2>1. ASSUME NEW c \in Clients, cpc'[c] = "joined" PROVE Registered(c)'
    <3>1. Registered(c) /\ cmd[c] = 1
          BY <1>2, <2>1 DEF IInv, JoinedInv, LastInv
    <3>2. CASE sessions' = sessions
          BY <1>2, <3>1, <3>2, StillRegistered
    <3>3. CASE sessions' = sessions \ {Id} /\ req.cmd = 2
      <4>1. cmd[req.from] = 2 /\ req.from \in Clients \ {c}
            BY <1>2, <1>5, <3>1, <3>3 DEF IInv, ServeInv, Serving
      <4> QED BY <1>2, <3>1, <3>3, <4>1 DEF Registered, Id
    <3> QED BY <1>2, <3>2, <3>3
  <2> QED BY <2>1 DEF JoinedInv
<1>12. Fresh'
  <2>1. NoneDied' <=> NoneDied
        BY <1>2 DEF NoneDied
  <2>2. CASE ~NoneDied
        BY <2>1, <2>2 DEF Fresh
  <2>3. CASE NoneDied
    <3>1. apc' = "leave" /\ downQ' = Append(<<>>, packet)
          BY <1>4, <1>5, <2>3
    <3>2. Len(downQ') = 1
          BY <3>1, OneElement
    <3>3. \E c \in Clients : cpc'[c] = "await"
          BY <1>2, <1>5, <2>3
    <3> QED BY <1>4, <3>1, <3>2, <3>3 DEF Fresh
  <2> QED BY <2>2, <2>3
<1>13. DownHeld'
      BY <1>2, <1>4 DEF DownHeld
<1> QED BY <1>7, <1>8, <1>9, <1>10, <1>11, <1>12, <1>13 DEF IInv

LEMMA CreateKeeps ==
    ASSUME IInv, TypeInv', Create
    PROVE  IInv'
<1> USE DEF Asking
<1>1. /\ apc = "decide" /\ apc' = "create" /\ Id \notin sessions /\ made' = made \cup {Id}
      /\ UNCHANGED <<running, req, sessions, owner, lapsed, cpc, cmd, seq, met, upQ, downQ>>
      BY DEF Create, clientVars
<1>2. OneAsks' /\ UpInv' /\ LastInv' /\ SwitchOnlyIfAccepted'
      BY <1>1 DEF IInv, OneAsks, UpInv, LastInv, SwitchOnlyIfAccepted
<1>3. StageInv'
      BY <1>1, Deciding DEF StageInv, Stage
<1>4. JoinedInv'
      BY <1>1, StillRegistered DEF IInv, JoinedInv
<1>5. OpenedInv'
      BY <1>1 DEF IInv, OpenedInv
<1>6. ServeInv'
      BY <1>1 DEF IInv, ServeInv, Serving, Preparing, Id
<1>7. Fresh' /\ DownHeld'
      BY <1>1 DEF IInv, Fresh, NoneDied, DownHeld, AcceptorDown
<1> QED BY <1>2, <1>3, <1>4, <1>5, <1>6, <1>7 DEF IInv

LEMMA OpenedKeeps ==
    ASSUME IInv, TypeInv', Opened
    PROVE  IInv'
<1> USE DEF Asking
<1>1. /\ apc = "create" /\ Answer("OPENED", "openPrivRead")
      /\ UNCHANGED <<running, req, sessions, owner, lapsed, made, cpc, cmd, seq, met>>
      BY DEF Opened, clientVars
<1> DEFINE packet == [ans |-> "OPENED", seq |-> req.seq]
<1>2. /\ upQ' = <<>>
      /\ \/ /\ apc' = "killed" /\ downQ' = <<>> /\ ~NoneDied
            /\ \A c \in Clients : cpc[c] \notin Asking
         \/ /\ apc' = "openPrivRead" /\ downQ' = Append(downQ, packet)
            /\ \E c \in Clients : HoldsDown(cpc[c])
      BY <1>1, AnswerFacts
<1>3. /\ \A c \in Clients : cpc[c] \in Asking => cpc[c] = "await" /\ c = req.from
      /\ req.from \in Clients
      /\ \A k \in 1..Len(downQ) : downQ[k].ans # "OPENED"
      /\ NoneDied => downQ = <<>> /\ cpc[req.from] = "await"
      BY <1>1, Deciding
<1>4. downQ \in Seq(Answers) /\ packet \in Answers
      BY DEF IInv, TypeInv, TypeOK, Answers, Requests
<1> HIDE DEF packet
<1>5. OneAsks' /\ UpInv' /\ LastInv' /\ SwitchOnlyIfAccepted'
      BY <1>1, <1>2 DEF IInv, OneAsks, UpInv, LastInv, SwitchOnlyIfAccepted
<1>6. StageInv'
      BY <1>1, <1>2, <1>3 DEF StageInv, Stage
<1>7. OpenedInv'
  <2>1. CASE downQ' = <<>>
        BY <2>1 DEF OpenedInv
  <2>2. CASE apc' = "openPrivRead" /\ downQ' = Append(downQ, packet)
    <3>1. Len(downQ') = Len(downQ) + 1 /\ Len(downQ) \in Nat
          BY <1>4, <2>2, QueueFacts, EmptyFacts
    <3>2. \A k \in 1..Len(downQ') : k \in 1..Len(downQ) \/ k = Len(downQ')
          BY <3>1
    <3>3. \A k \in 1..Len(downQ) : downQ'[k] = downQ[k]
          BY <1>4, <2>2, QueueFacts
    <3> QED BY <1>1, <1>3, <2>2, <3>2, <3>3 DEF OpenedInv
  <2> QED BY <1>2, <2>1, <2>2
<1>8. ServeInv'
      BY <1>1, <1>2 DEF IInv, ServeInv, Serving, Preparing, Id
<1>9. JoinedInv'
      BY <1>1, StillRegistered DEF IInv, JoinedInv
<1>10. Fresh'
  <2>1. NoneDied' <=> NoneDied
        BY <1>1 DEF NoneDied
  <2>2. CASE ~NoneDied
        BY <2>1, <2>2 DEF Fresh
  <2>3. CASE NoneDied
    <3>1. apc' = "openPrivRead" /\ downQ' = Append(<<>>, packet)
          BY <1>2, <1>3, <2>3
    <3>2. Len(downQ') = 1
          BY <3>1, OneElement
    <3>3. \E c \in Clients : cpc'[c] = "await"
          BY <1>1, <1>3, <2>3
    <3> QED BY <1>2, <3>1, <3>2, <3>3 DEF Fresh
  <2> QED BY <2>2, <2>3
<1>11. DownHeld'
      BY <1>1, <1>2 DEF DownHeld
<1> QED BY <1>5, <1>6, <1>7, <1>8, <1>9, <1>10, <1>11 DEF IInv

LEMMA OpenPrivateKeeps ==
    ASSUME IInv, TypeInv', OpenPrivate
    PROVE  IInv'
<1> USE DEF Asking
<1>1. /\ apc = "openPrivRead" /\ apc' = "openPrivWrite"
      /\ UNCHANGED <<running, req, sessions, owner, lapsed, made, cpc, cmd, seq, upQ, downQ>>
      BY DEF OpenPrivate, clientVars
<1>2. \A c \in Clients : cpc[c] \in Asking =>
         cpc[c] \in {"await", "openPrivUp"} /\ c = req.from
      BY <1>1 DEF IInv, StageInv, Stage, Idle, Serving
<1>3. Server \notin met'
      BY <1>2, HandshakeAssumption DEF OpenPrivate, At
<1>4. OneAsks' /\ UpInv' /\ LastInv' /\ SwitchOnlyIfAccepted'
      BY <1>1 DEF IInv, OneAsks, UpInv, LastInv, SwitchOnlyIfAccepted
<1>5. StageInv'
      BY <1>1, <1>2, <1>3 DEF StageInv, Stage
<1>6. JoinedInv'
      BY <1>1, StillRegistered DEF IInv, JoinedInv
<1>7. OpenedInv'
      BY <1>1, <1>3 DEF IInv, OpenedInv
<1>8. ServeInv'
      BY <1>1 DEF IInv, ServeInv, Serving, Preparing, Id
<1>9. Fresh' /\ DownHeld'
      BY <1>1 DEF IInv, Fresh, NoneDied, DownHeld, AcceptorDown
<1> QED BY <1>4, <1>5, <1>6, <1>7, <1>8, <1>9 DEF IInv

\* open() of the private FIFO returns only if the client has taken the answer.
LEMMA ClientJoinedKeeps ==
    ASSUME IInv, TypeInv', ClientJoined
    PROVE  IInv'
<1> USE DEF Asking
<1>1. /\ apc = "openPrivWrite" /\ Server \in met /\ apc' = "register"
      /\ UNCHANGED <<running, req, sessions, owner, lapsed, made, cpc, cmd, seq, met, upQ, downQ>>
      BY DEF ClientJoined, clientVars
<1>2. \A c \in Clients : cpc[c] \in Asking => cpc[c] = "openPrivDown" /\ c = req.from
      BY <1>1 DEF IInv, StageInv, Stage, Idle
<1>3. \A k \in 1..Len(downQ) : downQ[k].ans # "OPENED"
      BY <1>1 DEF IInv, OpenedInv
<1>4. OneAsks' /\ UpInv' /\ LastInv' /\ SwitchOnlyIfAccepted'
      BY <1>1 DEF IInv, OneAsks, UpInv, LastInv, SwitchOnlyIfAccepted
<1>5. StageInv'
      BY <1>1, <1>2 DEF StageInv, Stage
<1>6. JoinedInv'
      BY <1>1, StillRegistered DEF IInv, JoinedInv
<1>7. OpenedInv'
      BY <1>1, <1>3 DEF OpenedInv
<1>8. ServeInv'
      BY <1>1 DEF IInv, ServeInv, Serving, Preparing, Id
<1>9. Fresh' /\ DownHeld'
  <2>1. NoneDied => downQ = <<>>
        BY <1>2 DEF IInv, Fresh
  <2>2. UpInv /\ upQ = <<>>
        BY <1>1 DEF IInv, UpInv
  <2> QED BY <1>1, <2>1, <2>2 DEF Fresh, NoneDied, DownHeld, AcceptorDown
<1> QED BY <1>4, <1>5, <1>6, <1>7, <1>8, <1>9 DEF IInv

LEMMA RegisterKeeps ==
    ASSUME IInv, TypeInv', Register
    PROVE  IInv'
<1> USE DEF Asking
<1>1. /\ apc = "register" /\ apc' = "pause" /\ sessions' = sessions \cup {Id}
      /\ owner' = [owner EXCEPT ![Id] = req.from]
      /\ downQ' = IF ClientsDown = {} THEN <<>> ELSE downQ
      /\ UNCHANGED <<req, lapsed, made, cpc, cmd, seq, met>>
      BY DEF Register, Return, clientVars
<1>2. upQ' = <<>>
      BY <1>1 DEF IInv, UpInv, Register, Return
<1>3. \A c \in Clients : cpc[c] \in Asking => cpc[c] = "openPrivDown" /\ c = req.from
      BY <1>1 DEF IInv, StageInv, Stage, Idle
<1>4. Id \in Ids /\ Id \notin sessions /\ req.from \in Clients
      BY <1>1, IdIsId DEF IInv, TypeInv, FromInv, ServeInv, Serving, Preparing
<1>5. owner'[Id] = req.from /\ \A i \in Ids : i # Id => owner'[i] = owner[i]
      BY <1>1, <1>4 DEF IInv, TypeInv, TypeOK
<1>6. \A c \in Clients : Registered(c) \/ c = req.from => Registered(c)'
  <2>1. ASSUME NEW c \in Clients, Registered(c) PROVE Registered(c)'
    <3>1. IdOf[c] \in sessions /\ owner[IdOf[c]] = c
             => IdOf[c] \in sessions' /\ owner'[IdOf[c]] = c
          BY <1>1, <1>4, <1>5 DEF IInv, TypeInv, TypeOK
    <3> QED BY <1>1, <2>1, <3>1 DEF Registered
  <2>2. ASSUME NEW c \in Clients, c = req.from PROVE Registered(c)'
        BY <1>1, <1>5, <2>2 DEF Registered, Id
  <2> QED BY <2>1, <2>2
<1>7. OneAsks' /\ UpInv' /\ LastInv' /\ SwitchOnlyIfAccepted'
      BY <1>1, <1>2 DEF IInv, OneAsks, UpInv, LastInv, SwitchOnlyIfAccepted
<1>8. StageInv'
      BY <1>1, <1>3, <1>6 DEF StageInv, Stage, Idle
<1>9. JoinedInv'
      BY <1>1, <1>6 DEF IInv, JoinedInv
<1>10. OpenedInv' /\ ServeInv'
  <2>1. \A k \in 1..Len(downQ) : downQ[k].ans # "OPENED"
        BY <1>1 DEF IInv, OpenedInv
  <2>2. downQ' = downQ \/ downQ' = <<>>
        BY <1>1
  <2> QED BY <1>1, <2>1, <2>2 DEF OpenedInv, ServeInv, Serving, Preparing
<1>11. Fresh'
  <2>1. NoneDied => downQ = <<>>
        BY <1>1 DEF IInv, Fresh
  <2> QED BY <1>1, <1>2, <2>1 DEF Fresh, NoneDied
<1>12. DownHeld'
      BY <1>1 DEF DownHeld, ClientsDown
<1> QED BY <1>7, <1>8, <1>9, <1>10, <1>11, <1>12 DEF IInv

LEMMA ExpireKeeps ==
    ASSUME IInv, TypeInv', NEW i \in Ids, Expire(i)
    PROVE  IInv'
<1>1. /\ i \in sessions /\ sessions' = sessions \ {i} /\ lapsed' = lapsed \cup {owner[i]}
      /\ UNCHANGED <<apc, running, req, owner, made, cpc, cmd, seq, met, upQ, downQ>>
      BY DEF Expire, clientVars
<1>2. \A c \in Clients : Registered(c) => Registered(c)'
      BY <1>1 DEF Registered
<1>3. OneAsks' /\ UpInv' /\ LastInv' /\ SwitchOnlyIfAccepted'
      BY <1>1 DEF IInv, OneAsks, UpInv, LastInv, SwitchOnlyIfAccepted
<1>4. StageInv'
      BY <1>1, <1>2 DEF IInv, StageInv, Stage
<1>5. JoinedInv'
      BY <1>1, <1>2 DEF IInv, JoinedInv
<1>6. OpenedInv' /\ ServeInv'
      BY <1>1 DEF IInv, OpenedInv, ServeInv, Id
<1>7. Fresh' /\ DownHeld'
      BY <1>1 DEF IInv, Fresh, NoneDied, DownHeld, AcceptorDown
<1> QED BY <1>3, <1>4, <1>5, <1>6, <1>7 DEF IInv

\* A request that meets another is counted for ever.
LEMMA OnceOverlapped == ASSUME TypeInv, [Next]_vars, Alone' PROVE Alone
<1>1. ASSUME NEW c \in Clients, NEW k \in {1, 2}, Request(c, k) PROVE Alone
      BY <1>1 DEF Request, Alone, TypeInv, TypeOK
<1>2. ASSUME NEW c \in Clients, ClientStep(c) \/ Push(c) \/ Terminate(c) \/ Crash(c)
      PROVE  UNCHANGED overlaps
      BY <1>2 DEF ClientStep, OpenUp, OpenDown, Send, Receive, OpenPrivUp, OpenPrivDown,
         Push, Terminate, Crash, others
<1>3. ASSUME AcceptorStep \/ \E i \in Ids : Expire(i) PROVE UNCHANGED overlaps
  <2>1. UNCHANGED clientVars
        BY <1>3 DEF AcceptorStep, Accept, AcceptUp, AcceptDown, ReadRequest, ReadEof,
           Remove, Reject, Leave, Create, Opened, OpenPrivate, ClientJoined, Register, Expire
  <2> QED BY <2>1 DEF clientVars
<1> QED BY <1>1, <1>2, <1>3 DEF Next, vars, Alone

LEMMA InvStep == IInv /\ [Next]_vars /\ Alone' => IInv'
<1> SUFFICES ASSUME IInv, [Next]_vars, Alone' PROVE IInv'
    OBVIOUS
<1>a. TypeInv'
      BY TypeStep DEF IInv
<1>1. ASSUME NEW c \in Clients,
             Request(c, 1) \/ Request(c, 2) \/ ClientStep(c) \/ Push(c) \/ Terminate(c)
                \/ Crash(c)
      PROVE  IInv'
      BY <1>a, <1>1, RequestKeeps, OpenKeeps, SendKeeps, ReceiveKeeps, OpenPrivUpKeeps,
         EndKeeps, PushKeeps DEF ClientStep
<1>2. ASSUME AcceptorStep PROVE IInv'
      BY <1>a, <1>2, AcceptKeeps, ReadRequestKeeps, ReadEofKeeps, AnswerKeeps, LeaveKeeps, CreateKeeps,
         OpenedKeeps, OpenPrivateKeeps, ClientJoinedKeeps, RegisterKeeps DEF AcceptorStep
<1>3. CASE UNCHANGED vars
  <2>1. UNCHANGED <<apc, running, req, sessions, owner, lapsed, made, cpc, cmd, met, upQ, downQ>>
        BY <1>3 DEF vars
  <2>2. OneAsks' /\ UpInv' /\ OpenedInv' /\ ServeInv' /\ LastInv' /\ SwitchOnlyIfAccepted'
        BY <2>1 DEF IInv, OneAsks, UpInv, OpenedInv, ServeInv, LastInv, SwitchOnlyIfAccepted, Id
  <2>3. StageInv' /\ JoinedInv'
        BY <2>1 DEF IInv, StageInv, Stage, JoinedInv, Registered
  <2>4. Fresh' /\ DownHeld'
        BY <2>1 DEF IInv, Fresh, NoneDied, DownHeld, AcceptorDown
  <2> QED BY <1>a, <2>2, <2>3, <2>4 DEF IInv
<1> QED BY <1>a, <1>1, <1>2, <1>3, ExpireKeeps DEF Next

\* The inductive invariant: types, and IInv until two requests have met.
AloneInv == TypeInv /\ (Alone => IInv)

LEMMA AloneInit == Init => AloneInv
BY TypeInit, InvInit DEF AloneInv

LEMMA AloneStep == AloneInv /\ [Next]_vars => AloneInv'
BY TypeStep, OnceOverlapped, InvStep DEF AloneInv

\* As long as no request has begun while another was under way, a client goes
\* over to its private FIFOs only when accept_client has created them for it,
\* whatever crashed clients left in the FIFOs.
THEOREM NobodySwitchesUnasked == Spec => []AloneSwitchesIfAccepted
<1>1. AloneInv => AloneSwitchesIfAccepted
      BY DEF AloneInv, IInv, AloneSwitchesIfAccepted
<1> QED BY <1>1, AloneInit, AloneStep, PTL DEF Spec

\* As long as no request has begun while another was under way, the request
\* FIFOs are empty between two requests, unless a client died while a rejected
\* one kept them open.
THEOREM FifosLeftClean == Spec => []NothingLeftBehind
<1>1. AloneInv => NothingLeftBehind
  <2> SUFFICES ASSUME IInv, apc \in {"pause", "openUp"},
                      \A c \in Clients : cpc[c] \notin Asking,
                      ClientsDown = {} \/ At("killed") = {}
               PROVE  upQ = <<>> /\ downQ = <<>>
      BY DEF AloneInv, NothingLeftBehind, Quiet
  <2>1. upQ = <<>>
        BY DEF IInv, UpInv
  <2>2. CASE ClientsDown = {}
        BY <2>1, <2>2 DEF IInv, DownHeld, AcceptorDown, ClientsDown
  <2>3. CASE At("killed") = {}
    <3>1. NoneDied
          BY <2>3 DEF NoneDied, At
    <3> QED BY <2>1, <3>1 DEF IInv, Fresh, Asking
  <2> QED BY <2>1, <2>2, <2>3
<1> QED BY <1>1, AloneInit, AloneStep, PTL DEF Spec

\* As long as no request has begun while another was under way, in its client
\* or in accept_client, no write meets a closed FIFO (SIGPIPE): not a client's,
\* and not the acceptor's unless a client has died.
THEOREM NoSigpipe == Spec => []NobodyKilledWriting
<1>1. AloneInv => NobodyKilledWriting
  <2> SUFFICES ASSUME IInv
               PROVE  /\ apc = "killed" => At("killed") # {}
                      /\ \A c \in Clients : cpc[c] = "send" => AcceptorUp
      BY DEF AloneInv, NobodyKilledWriting
  <2>1. apc = "killed" => At("killed") # {}
        BY DEF IInv, Fresh, NoneDied, At
  <2>2. \A c \in Clients : cpc[c] = "send" => AcceptorUp
        BY DEF IInv, StageInv, Stage, AcceptorUp
  <2> QED BY <2>1, <2>2
<1> QED BY <1>1, AloneInit, AloneStep, PTL DEF Spec

\* As long as no request has begun while another was under way, a client that
\* has joined has its session in _client_registry, or is about to, or has lost
\* it for a known reason.
THEOREM JoinedHaveSessions == Spec => []JoinedIsRegistered
<1>1. AloneInv => JoinedIsRegistered
      BY DEF AloneInv, IInv, JoinedInv, Registered, JoinedIsRegistered
<1> QED BY <1>1, AloneInit, AloneStep, PTL DEF Spec

=============================================================================
