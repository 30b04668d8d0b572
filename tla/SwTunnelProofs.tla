--------------------------- MODULE SwTunnelProofs ---------------------------
(***************************************************************************)
(* Theorems about SwTunnel, for any number of connections and requests.    *)
(***************************************************************************)
EXTENDS SwTunnel, SequenceTheorems, TLAPS

-----------------------------------------------------------------------------
\* Facts about the wire: what sending and reading do to a queue of frames.

LEMMA FrameType ==
  ASSUME NEW type \in FrameTypes, NEW sid \in Nat,
         NEW key \in Conns \cup {"none"}, NEW body \in Bodies \cup {"none"}
  PROVE  /\ Frame(type, sid, key, body) \in Frames
         /\ Frame(type, sid, key, body).type = type
         /\ Frame(type, sid, key, body).sid = sid
         /\ Frame(type, sid, key, body).key = key
         /\ Frame(type, sid, key, body).body = body
BY DEF Frame, Frames

LEMMA HelloFrameType == HelloFrame \in Frames /\ HelloFrame.type = Hello
BY FrameType DEF HelloFrame, FrameTypes

LEMMA FrameFields ==
  ASSUME NEW f \in Frames
  PROVE  f.type \in FrameTypes /\ f.sid \in Nat /\ f.key \in Conns \cup {"none"}
         /\ f.body \in Bodies \cup {"none"}
BY DEF Frames

LEMMA SendType ==
  ASSUME NEW q \in [Conns -> Seq(Frames)], NEW c \in Conns, NEW f \in Frames
  PROVE  [q EXCEPT ![c] = Append(@, f)] \in [Conns -> Seq(Frames)]
<1>1. Append(q[c], f) \in Seq(Frames)
  OBVIOUS
<1> QED
  BY <1>1

LEMMA ConsumeType ==
  ASSUME NEW q \in [Conns -> Seq(Frames)], NEW c \in Conns, q[c] # <<>>
  PROVE  /\ [q EXCEPT ![c] = Tail(@)] \in [Conns -> Seq(Frames)]
         /\ Head(q[c]) \in Frames
         /\ Len(q[c]) \in Nat \ {0}
         /\ Head(q[c]) = q[c][1]
<1>1. q[c] \in Seq(Frames)
  OBVIOUS
<1>2. Tail(q[c]) \in Seq(Frames) /\ Head(q[c]) \in Frames
  BY <1>1
<1>3. Len(q[c]) \in Nat \ {0} /\ Head(q[c]) = q[c][1]
  BY <1>1
<1> QED
  BY <1>2, <1>3

LEMMA NodeSendType ==
  ASSUME NEW c \in Conns, NEW f \in Frames, down \in [Conns -> Seq(Frames)],
         NodeSend(c, f)
  PROVE  down' \in [Conns -> Seq(Frames)]
BY SendType DEF NodeSend

LEMMA DropType ==
  ASSUME NEW q \in [Conns -> Seq(Frames)], NEW c \in Conns
  PROVE  [q EXCEPT ![c] = <<>>] \in [Conns -> Seq(Frames)]
<1>1. <<>> \in Seq(Frames)
  OBVIOUS
<1> QED
  BY <1>1

LEMMA NextSidType == \A n \in Nat \ {0} : n + 1 \in Nat \ {0}
OBVIOUS

LEMMA RunType ==
  ASSUME runs \in [Reqs -> Nat], NEW r, Run(r)
  PROVE  runs' \in [Reqs -> Nat]
<1>1. CASE r \in Reqs
  BY <1>1 DEF Run
<1>2. CASE r \notin Reqs
  BY <1>2 DEF Run
<1> QED
  BY <1>1, <1>2

LEMMA TripFields ==
  ASSUME NEW c \in Conns, trips \in [Conns -> SUBSET Trips], NEW t \in trips[c]
  PROVE  /\ t \in Trips
         /\ t.sid \in Nat
         /\ t.req \in Bodies \cup {"none"}
         /\ [t EXCEPT !.read = TRUE] \in Trips
         /\ [t EXCEPT !.read = TRUE].sid = t.sid
         /\ [t EXCEPT !.read = TRUE].req = t.req
         /\ [t EXCEPT !.read = TRUE].read
<1>1. t \in Trips
  OBVIOUS
<1> QED
  BY <1>1 DEF Trips

-----------------------------------------------------------------------------
\* Type correctness.

LEMMA TypeConn ==
  ASSUME TypeOK, NEW c \in Conns, ConnNext(c)
  PROVE  TypeOK'
<1> USE DEF TypeOK, NodeTypeOK, SockStates, ConnStates, wireVars, nodeVars,
            clientVars, tunnelVars, reqVars
<1>1. CASE Dial(c)
  BY <1>1 DEF Dial
<1>2. CASE Opened(c)
  BY <1>2, SendType, HelloFrameType DEF Opened
<1>3. CASE HelloAnswered(c)
  BY <1>3, ConsumeType DEF HelloAnswered, IsHead
<1>4. CASE ConnectFails(c)
  BY <1>4 DEF ConnectFails
<1>5. CASE Install(c)
  BY <1>5 DEF Install
<1>6. CASE Closing(c)
  BY <1>6, DropType DEF Closing
<1>7. CASE OnClose(c)
  BY <1>7 DEF OnClose
<1>8. CASE OnMessage(c)
  BY <1>8, ConsumeType DEF OnMessage
<1> QED
  BY <1>1, <1>2, <1>3, <1>4, <1>5, <1>6, <1>7, <1>8 DEF ConnNext

LEMMA TypeOpened ==
  ASSUME TypeOK, NEW f \in opening, OpenedRes(f) \/ OpenedEnd(f)
  PROVE  TypeOK'
<1>1. f \in Frames
  BY DEF TypeOK
<1>2. CASE OpenedRes(f)
  <2>1. f.body \in Bodies \cup {"none"}
    BY <1>1, FrameFields
  <2>2. pending' \in SUBSET Entries
    <3>1. ASSUME NEW p \in pending
          PROVE  p \in Entries /\ [p EXCEPT !.res = f.body] \in Entries
      BY <2>1 DEF TypeOK, Entries
    <3> QED
      BY <1>2, <3>1 DEF OpenedRes
  <2> QED
    BY <1>2, <2>2 DEF OpenedRes, TypeOK, NodeTypeOK, wireVars, nodeVars, reqVars
<1>3. CASE OpenedEnd(f)
  <2>1. pending' \in SUBSET Entries
    BY <1>3 DEF OpenedEnd, TypeOK, Without
  <2>2. out' \in [Reqs -> Bodies \cup {"none", "null", "empty"}]
    <3>1. out \in [Reqs -> Bodies \cup {"none", "null", "empty"}]
      BY DEF TypeOK
    <3>2. ASSUME NEW p \in pending
          PROVE  p.res \in Bodies \cup {"none"}
      BY DEF TypeOK, Entries
    <3> QED
      BY <1>3, <3>1, <3>2 DEF OpenedEnd, Resolve
  <2> QED
    BY <1>3, <2>1, <2>2 DEF OpenedEnd, TypeOK, NodeTypeOK, wireVars, nodeVars
<1> QED
  BY <1>2, <1>3

LEMMA TypeReq ==
  ASSUME TypeOK, NEW r \in Reqs, ReqNext(r)
  PROVE  TypeOK'
<1> USE DEF TypeOK, NodeTypeOK, ReqStates, wireVars, nodeVars, tunnelVars
<1>1. ASSUME TunnelFetch(r)
      PROVE  /\ pc' \in [Reqs -> ReqStates]
             /\ nextSid' \in Nat \ {0}
             /\ pending' \in SUBSET Entries
             /\ sidOf' \in [Reqs -> Nat]
             /\ cap' \in [Reqs -> Conns \cup {"none"}]
             /\ timer' \in [Reqs -> BOOLEAN]
  <2>1. [sid |-> nextSid, req |-> r, res |-> "none"] \in Entries
    BY DEF Entries
  <2>2. CASE tunnelWs = "none" \/ sock[tunnelWs] # "open"
    BY <1>1, <2>2 DEF TunnelFetch, Goto
  <2>3. CASE ~(tunnelWs = "none" \/ sock[tunnelWs] # "open")
    <3>1. /\ nextSid' = nextSid + 1
          /\ pending' = Without(nextSid) \cup
                          {[sid |-> nextSid, req |-> r, res |-> "none"]}
      BY <1>1, <2>3 DEF TunnelFetch
    <3>2. Without(nextSid) \in SUBSET Entries
      BY DEF Without
    <3>3. nextSid' \in Nat \ {0}
      BY <3>1, NextSidType
    <3>4. pending' \in SUBSET Entries
      BY <2>1, <3>1, <3>2
    <3> QED
      BY <1>1, <2>3, <3>3, <3>4 DEF TunnelFetch, Goto
  <2> QED
    BY <2>2, <2>3
<1>2. CASE ProxyFetch(r)
  BY <1>1, <1>2 DEF ProxyFetch, Goto
<1>3. CASE BodyRead(r)
  BY <1>1, <1>3 DEF BodyRead
<1>4. ASSUME NEW f \in Frames, tunnelWs # "none", SocketSend(f)
      PROVE  up' \in [Conns -> Seq(Frames)]
  BY <1>4, SendType DEF SocketSend
<1>5. CASE SealedConnect(r)
  <2>1. Frame(CONNECT, sidOf[r], cap[r], "none") \in Frames
    BY FrameType DEF FrameTypes
  <2> QED
    BY <1>4, <1>5, <2>1 DEF SealedConnect, Goto
<1>6. CASE SealedReq(r)
  <2>1. Frame(REQ, sidOf[r], cap[r], r) \in Frames
    BY FrameType DEF FrameTypes, Bodies
  <2> QED
    BY <1>4, <1>6, <2>1 DEF SealedReq, Goto
<1>7. CASE TimerFires(r)
  BY <1>7 DEF TimerFires, Resolve, Without
<1>8. CASE Resume(r)
  BY <1>8 DEF Resume, Answer, Goto
<1>9. CASE LocalFetch(r)
  <2>1. runs' \in [Reqs -> Nat]
    BY <1>9, RunType DEF LocalFetch
  <2>2. PICK v \in {r, "bad gateway"} : Answer(r, v)
    BY <1>9 DEF LocalFetch
  <2> QED
    BY <1>9, <2>1, <2>2 DEF LocalFetch, Answer, Goto
<1> QED
  BY <1>2, <1>3, <1>5, <1>6, <1>7, <1>8, <1>9 DEF ReqNext

LEMMA TypeNode ==
  ASSUME TypeOK, NodeNext, UNCHANGED clientVars
  PROVE  TypeOK'
<1> USE DEF TypeOK, NodeTypeOK, nodeVars, clientVars, tunnelVars, reqVars
<1>1. ASSUME NEW c \in Conns, NodeHello(c)
      PROVE  TypeOK'
  BY <1>1, ConsumeType, NodeSendType, HelloFrameType
     DEF NodeHello, Consume, IsHead
<1>2. ASSUME NEW c \in Conns, NodeDrop(c)
      PROVE  TypeOK'
  BY <1>2, ConsumeType DEF NodeDrop, Consume
<1>3. ASSUME NEW c \in Conns, NodeConnect(c)
      PROVE  TypeOK'
  <2>1. up' \in [Conns -> Seq(Frames)] /\ Head(up[c]).sid \in Nat
    BY <1>3, ConsumeType, FrameFields DEF NodeConnect, Consume, IsHead
  <2> QED
    <3>1. streams' \in [Conns -> SUBSET Nat]
      <4>1. streams[c] \cup {Head(up[c]).sid} \in SUBSET Nat
        BY <2>1
      <4>2. \/ streams' = [streams EXCEPT ![c] = @ \cup {Head(up[c]).sid}]
            \/ streams' = streams
        BY <1>3 DEF NodeConnect
      <4>3. streams \in [Conns -> SUBSET Nat]
        OBVIOUS
      <4> QED
        BY <4>1, <4>2, <4>3
    <3> QED
      BY <1>3, <2>1, <3>1 DEF NodeConnect
<1>4. ASSUME NEW c \in Conns, NodeReq(c)
      PROVE  TypeOK'
  <2>1. up' \in [Conns -> Seq(Frames)] /\ Head(up[c]) \in Frames
    BY <1>4, ConsumeType DEF NodeReq, Consume, IsHead
  <2>2. [sid |-> Head(up[c]).sid, req |-> Head(up[c]).body, read |-> FALSE]
          \in Trips
    BY <2>1, FrameFields DEF Trips
  <2> QED
    BY <1>4, <2>1, <2>2 DEF NodeReq
<1>5. ASSUME NEW c \in Conns, NEW t \in trips[c], NodeRoundtrip(c, t)
      PROVE  TypeOK'
  <2>1. t \in Trips /\ [t EXCEPT !.read = TRUE] \in Trips
    BY TripFields
  <2>2. runs' \in [Reqs -> Nat]
    BY <1>5, RunType DEF NodeRoundtrip
  <2>3. ASSUME NEW b \in {t.req, "junk"}
        PROVE  Frame(RES, t.sid, c, b) \in Frames
    <3>1. t.sid \in Nat /\ b \in Bodies \cup {"none"}
      BY TripFields DEF Bodies
    <3> QED
      BY <3>1, FrameType DEF FrameTypes
  <2>4. down' \in [Conns -> Seq(Frames)]
    BY <1>5, <2>3, NodeSendType DEF NodeRoundtrip
  <2> QED
    BY <1>5, <2>1, <2>2, <2>4 DEF NodeRoundtrip
<1>6. ASSUME NEW c \in Conns, NEW t \in trips[c], NodeEnd(c, t)
      PROVE  TypeOK'
  <2>1. t.sid \in Nat
    BY TripFields
  <2>2. Frame(END, t.sid, c, "none") \in Frames
    BY <2>1, FrameType DEF FrameTypes
  <2>3. down' \in [Conns -> Seq(Frames)]
    BY <1>6, <2>2, NodeSendType DEF NodeEnd
  <2> QED
    BY <1>6, <2>3 DEF NodeEnd
<1> QED
  BY <1>1, <1>2, <1>3, <1>4, <1>5, <1>6 DEF NodeNext

LEMMA TypeStutter == TypeOK /\ UNCHANGED vars => TypeOK'
BY DEF TypeOK, NodeTypeOK, vars, wireVars, nodeVars, clientVars, tunnelVars,
       reqVars

\* Every variable of the worker, the wire and the node stays in its type.
THEOREM Typing == Spec => []TypeOK
<1>1. Init => TypeOK
  BY DEF Init, NodeInit, TypeOK, NodeTypeOK, SockStates, ConnStates, ReqStates
<1>2. TypeOK /\ [Next]_vars => TypeOK'
  BY TypeConn, TypeOpened, TypeReq, TypeNode, TypeStutter DEF Next
<1> QED
  BY <1>1, <1>2, PTL DEF Spec

-----------------------------------------------------------------------------
\* What a step does to the contents of the queues.

LEMMA SendContents ==
  ASSUME NEW q \in [Conns -> Seq(Frames)], NEW c \in Conns, NEW f \in Frames,
         NEW d \in Conns
  PROVE  Contents([q EXCEPT ![c] = Append(@, f)][d]) \subseteq
           Contents(q[d]) \cup {f}
<1>1. q[c] \in Seq(Frames)
  OBVIOUS
<1>2. Contents(Append(q[c], f)) \subseteq Contents(q[c]) \cup {f}
  <2> SUFFICES ASSUME NEW i \in 1..Len(Append(q[c], f))
               PROVE  Append(q[c], f)[i] \in Contents(q[c]) \cup {f}
    BY DEF Contents
  <2>1. CASE i \in 1..Len(q[c])
    BY <1>1, <2>1, AppendProperties DEF Contents
  <2>2. CASE i \notin 1..Len(q[c])
    BY <1>1, <2>2, AppendProperties
  <2> QED
    BY <2>1, <2>2
<1> QED
  BY <1>2

LEMMA ConsumeContents ==
  ASSUME NEW q \in [Conns -> Seq(Frames)], NEW c \in Conns, q[c] # <<>>,
         NEW d \in Conns
  PROVE  /\ Contents([q EXCEPT ![c] = Tail(@)][d]) \subseteq Contents(q[d])
         /\ Head(q[c]) \in Contents(q[c])
<1>1. q[c] \in Seq(Frames)
  OBVIOUS
<1>2. Contents(Tail(q[c])) \subseteq Contents(q[c])
  <2> SUFFICES ASSUME NEW i \in 1..Len(Tail(q[c]))
               PROVE  Tail(q[c])[i] \in Contents(q[c])
    BY DEF Contents
  <2>1. Tail(q[c])[i] = q[c][i+1] /\ i + 1 \in 1..Len(q[c])
    BY <1>1, HeadTailProperties
  <2> QED
    BY <2>1 DEF Contents
<1>3. Head(q[c]) \in Contents(q[c])
  BY ConsumeType DEF Contents
<1> QED
  BY <1>2, <1>3

LEMMA DropContents ==
  ASSUME NEW q \in [Conns -> Seq(Frames)], NEW c \in Conns, NEW d \in Conns
  PROVE  Contents([q EXCEPT ![c] = <<>>][d]) \subseteq Contents(q[d])
<1>1. Contents(<<>>) = {}
  BY DEF Contents
<1> QED
  BY <1>1

LEMMA NodeSendContents ==
  ASSUME NEW c \in Conns, NEW f \in Frames, down \in [Conns -> Seq(Frames)],
         NodeSend(c, f), NEW d \in Conns
  PROVE  Contents(down'[d]) \subseteq Contents(down[d]) \cup {f}
BY SendContents DEF NodeSend

\* A step of a connection moves frames along; the only one it makes is the
\* hello.
LEMMA ConnFrames ==
  ASSUME TypeOK, NEW c \in Conns, ConnNext(c)
  PROVE  /\ UNCHANGED <<trips, runs, reqVars, pending, nextSid>>
         /\ \A d \in Conns :
              /\ Contents(up'[d]) \subseteq Contents(up[d]) \cup {HelloFrame}
              /\ Contents(down'[d]) \subseteq Contents(down[d])
         /\ opening' \subseteq opening \cup Contents(down[c])
<1> USE DEF wireVars, nodeVars, clientVars, tunnelVars
<1>1. up \in [Conns -> Seq(Frames)] /\ down \in [Conns -> Seq(Frames)]
  BY DEF TypeOK, NodeTypeOK
<1>2. CASE Dial(c)
  BY <1>2 DEF Dial
<1>3. CASE Opened(c)
  BY <1>1, <1>3, SendContents, HelloFrameType DEF Opened
<1>4. CASE HelloAnswered(c)
  BY <1>1, <1>4, ConsumeContents DEF HelloAnswered, IsHead
<1>5. CASE ConnectFails(c)
  BY <1>5 DEF ConnectFails
<1>6. CASE Install(c)
  BY <1>6 DEF Install
<1>7. CASE Closing(c)
  BY <1>1, <1>7, DropContents DEF Closing
<1>8. CASE OnClose(c)
  BY <1>8 DEF OnClose
<1>9. CASE OnMessage(c)
  <2>1. down[c] # <<>> /\ down' = [down EXCEPT ![c] = Tail(@)]
    BY <1>9 DEF OnMessage
  <2>2. Head(down[c]) \in Contents(down[c])
    BY <1>1, <2>1, ConsumeContents
  <2>3. \A d \in Conns : Contents(down'[d]) \subseteq Contents(down[d])
    BY <1>1, <2>1, ConsumeContents
  <2> QED
    BY <1>9, <2>2, <2>3 DEF OnMessage
<1> QED
  BY <1>2, <1>3, <1>4, <1>5, <1>6, <1>7, <1>8, <1>9 DEF ConnNext

\* What the worker puts on the wire for a request.
LEMMA SocketSendContents ==
  ASSUME TypeOK, tunnelWs # "none", NEW f \in Frames, SocketSend(f),
         NEW d \in Conns
  PROVE  Contents(up'[d]) \subseteq Contents(up[d]) \cup {f}
<1>1. up \in [Conns -> Seq(Frames)] /\ tunnelWs \in Conns
  BY DEF TypeOK, NodeTypeOK
<1> QED
  BY <1>1, SendContents DEF SocketSend

LEMMA ConnectFrame ==
  ASSUME TypeOK, NEW r \in Reqs
  PROVE  /\ Frame(CONNECT, sidOf[r], cap[r], "none") \in Frames
         /\ Frame(CONNECT, sidOf[r], cap[r], "none").type = CONNECT
         /\ Frame(CONNECT, sidOf[r], cap[r], "none").key = cap[r]
<1>1. sidOf[r] \in Nat /\ cap[r] \in Conns \cup {"none"}
  BY DEF TypeOK
<1>2. CONNECT \in FrameTypes
  BY DEF FrameTypes
<1> QED
  BY <1>1, <1>2, FrameType

LEMMA ReqFrame ==
  ASSUME TypeOK, NEW r \in Reqs
  PROVE  /\ Frame(REQ, sidOf[r], cap[r], r) \in Frames
         /\ Frame(REQ, sidOf[r], cap[r], r).type = REQ
         /\ Frame(REQ, sidOf[r], cap[r], r).sid = sidOf[r]
         /\ Frame(REQ, sidOf[r], cap[r], r).key = cap[r]
         /\ Frame(REQ, sidOf[r], cap[r], r).body = r
<1>1. sidOf[r] \in Nat /\ cap[r] \in Conns \cup {"none"}
  BY DEF TypeOK
<1>2. REQ \in FrameTypes /\ r \in Bodies
  BY DEF FrameTypes, Bodies
<1> QED
  BY <1>1, <1>2 DEF Frame, Frames

\* The node only reads what is on its way up.
LEMMA NodeReads ==
  ASSUME TypeOK, NodeNext, NEW d \in Conns
  PROVE  Contents(up'[d]) \subseteq Contents(up[d])
<1>1. up \in [Conns -> Seq(Frames)]
  BY DEF TypeOK, NodeTypeOK
<1>2. ASSUME NEW c \in Conns, up[c] # <<>>, Consume(c)
      PROVE  Contents(up'[d]) \subseteq Contents(up[d])
  BY <1>1, <1>2, ConsumeContents DEF Consume
<1>3. PICK c \in Conns :
        \/ NodeHello(c) \/ NodeDrop(c) \/ NodeConnect(c) \/ NodeReq(c)
        \/ \E t \in trips[c] : NodeRoundtrip(c, t) \/ NodeEnd(c, t)
  BY DEF NodeNext
<1>4. CASE NodeHello(c) \/ NodeDrop(c) \/ NodeConnect(c) \/ NodeReq(c)
  BY <1>2, <1>4 DEF NodeHello, NodeDrop, NodeConnect, NodeReq, IsHead
<1>5. CASE \E t \in trips[c] : NodeRoundtrip(c, t) \/ NodeEnd(c, t)
  BY <1>5 DEF NodeRoundtrip, NodeEnd
<1> QED
  BY <1>3, <1>4, <1>5

-----------------------------------------------------------------------------
\* Nothing but the handshake leaves in the clear.

LEMMA KeyStep ==
  ASSUME TypeOK, KeyWithSocket, [Next]_vars
  PROVE  KeyWithSocket'
<1> USE DEF KeyWithSocket
<1>1. ASSUME NEW c \in Conns, ConnNext(c)
      PROVE  KeyWithSocket'
  <2>1. pc' = pc /\ cap' = cap
    BY <1>1, ConnFrames DEF reqVars
  <2>2. tunnelWs' = tunnelKey'
    <3>1. CASE Install(c)
      BY <3>1 DEF Install
    <3>4. CASE OnClose(c)
      BY <3>4 DEF OnClose
    <3>5. CASE OnMessage(c)
      BY <3>5 DEF OnMessage
    <3>2. CASE Dial(c) \/ Opened(c) \/ HelloAnswered(c)
      BY <3>2 DEF Dial, Opened, HelloAnswered, tunnelVars
    <3>3. CASE ConnectFails(c) \/ Closing(c)
      BY <3>3 DEF ConnectFails, Closing, clientVars, tunnelVars
    <3> QED
      BY <1>1, <3>1, <3>2, <3>3, <3>4, <3>5 DEF ConnNext
  <2> QED
    BY <2>1, <2>2
<1>2. ASSUME NEW f \in opening, OpenedRes(f) \/ OpenedEnd(f)
      PROVE  KeyWithSocket'
  BY <1>2 DEF OpenedRes, OpenedEnd, reqVars
<1>3. ASSUME NEW r \in Reqs, ReqNext(r)
      PROVE  KeyWithSocket'
  <2>1. tunnelWs' = tunnelWs /\ tunnelKey' = tunnelKey
    BY <1>3 DEF ReqNext, ProxyFetch, BodyRead, SealedConnect, SealedReq,
                TimerFires, Resume, LocalFetch, tunnelVars
  <2>2. pc \in [Reqs -> ReqStates] /\ cap \in [Reqs -> Conns \cup {"none"}]
    BY DEF TypeOK
  <2>3. ASSUME TunnelFetch(r), ProxyFetch(r) \/ BodyRead(r)
        PROVE  KeyWithSocket'
    BY <2>1, <2>2, <2>3 DEF TunnelFetch, Goto
  <2>4. CASE ProxyFetch(r) \/ BodyRead(r)
    BY <2>1, <2>2, <2>3, <2>4 DEF ProxyFetch, BodyRead, Goto
  <2>5. CASE SealedConnect(r)
    BY <2>1, <2>2, <2>5 DEF SealedConnect, Goto
  <2>6. CASE SealedReq(r)
    BY <2>1, <2>2, <2>6 DEF SealedReq, Goto
  <2>7. CASE TimerFires(r) \/ Resume(r) \/ LocalFetch(r)
    BY <2>1, <2>2, <2>7 DEF TimerFires, Resume, LocalFetch, Answer, Goto
  <2> QED
    BY <1>3, <2>4, <2>5, <2>6, <2>7 DEF ReqNext
<1>4. CASE UNCHANGED clientVars
  BY <1>4 DEF clientVars, tunnelVars, reqVars
<1> QED
  BY <1>1, <1>2, <1>3, <1>4 DEF Next, vars

LEMMA KeyAlways == Spec => []KeyWithSocket
<1>1. Init => KeyWithSocket
  BY DEF Init, KeyWithSocket
<1> QED
  BY <1>1, KeyStep, Typing, PTL DEF Spec

LEMMA SealedStep ==
  ASSUME TypeOK, KeyWithSocket, SealedOnWire, [Next]_vars
  PROVE  SealedOnWire'
<1> USE DEF SealedOnWire
<1>1. ASSUME NEW c \in Conns, ConnNext(c)
      PROVE  SealedOnWire'
  BY <1>1, ConnFrames, HelloFrameType
<1>2. ASSUME NEW f \in opening, OpenedRes(f) \/ OpenedEnd(f)
      PROVE  SealedOnWire'
  BY <1>2 DEF OpenedRes, OpenedEnd, wireVars
<1>3. ASSUME NEW r \in Reqs, ReqNext(r)
      PROVE  SealedOnWire'
  <2>1. CASE SealedConnect(r) /\ tunnelWs # "none"
    <3>1. cap[r] # "none"
      BY <2>1 DEF SealedConnect, KeyWithSocket
    <3> QED
      <4> DEFINE g == Frame(CONNECT, sidOf[r], cap[r], "none")
      <4>1. g \in Frames /\ g.key # "none" /\ SocketSend(g)
        BY <2>1, <3>1, ConnectFrame DEF SealedConnect
      <4>2. \A d \in Conns : Contents(up'[d]) \subseteq Contents(up[d]) \cup {g}
        BY <2>1, <4>1, SocketSendContents
      <4> QED
        BY <4>1, <4>2
  <2>2. CASE SealedReq(r) /\ tunnelWs # "none"
    <3>1. cap[r] # "none"
      BY <2>2 DEF SealedReq, KeyWithSocket
    <3> QED
      <4> DEFINE g == Frame(REQ, sidOf[r], cap[r], r)
      <4>1. g \in Frames /\ g.key # "none" /\ SocketSend(g)
        BY <2>2, <3>1, ReqFrame DEF SealedReq
      <4>2. \A d \in Conns : Contents(up'[d]) \subseteq Contents(up[d]) \cup {g}
        BY <2>2, <4>1, SocketSendContents
      <4> QED
        BY <4>1, <4>2
  <2>3. CASE up' = up
    BY <2>3
  <2> QED
    BY <1>3, <2>1, <2>2, <2>3
       DEF ReqNext, ProxyFetch, BodyRead, SealedConnect, SealedReq, TimerFires,
           Resume, LocalFetch, wireVars
<1>4. CASE NodeNext
  BY <1>4, NodeReads
<1>5. CASE UNCHANGED vars
  BY <1>5 DEF vars, wireVars
<1> QED
  BY <1>1, <1>2, <1>3, <1>4, <1>5 DEF Next

\* Every frame but the handshake is sealed under some connection's key when
\* it is handed to a socket, however connects and closes interleave with the
\* seals of tunnelSend.
THEOREM SealedAlways == Spec => []SealedOnWire
<1>1. Init => SealedOnWire
  BY DEF Init, NodeInit, SealedOnWire, Contents
<1> QED
  BY <1>1, KeyAlways, SealedStep, Typing, PTL DEF Spec

-----------------------------------------------------------------------------
\* The page gets the response to its own request.

\* Frames that are only moved keep their label while no request gets a sid.
LEMMA LabelsKept ==
  ASSUME FramesLabelled, UNCHANGED <<sidOf, trips>>,
         \A c \in Conns : \A f \in Contents(up'[c]) :
           f \in Contents(up[c]) \/ Labelled(f),
         \A c \in Conns : \A f \in Contents(down'[c]) :
           f \in Contents(down[c]) \/ Labelled(f),
         \A f \in opening' :
           f \in opening \/ \E c \in Conns : f \in Contents(down[c])
  PROVE  FramesLabelled'
BY DEF FramesLabelled, Labelled

LEMMA HelloLabelled == Labelled(HelloFrame)
BY HelloFrameType DEF Labelled, Hello, REQ, RES

LEMMA IdentityConn ==
  ASSUME TypeOK, StreamIdentity, NEW c \in Conns, ConnNext(c)
  PROVE  StreamIdentity'
<1>1. /\ UNCHANGED <<trips, runs, reqVars, pending, nextSid>>
      /\ \A d \in Conns :
           /\ Contents(up'[d]) \subseteq Contents(up[d]) \cup {HelloFrame}
           /\ Contents(down'[d]) \subseteq Contents(down[d])
      /\ opening' \subseteq opening \cup Contents(down[c])
  BY ConnFrames
<1>2. FramesLabelled'
  BY <1>1, LabelsKept, HelloLabelled DEF StreamIdentity, reqVars
<1>3. SidsUnique'
  BY <1>1 DEF StreamIdentity, SidsUnique, reqVars
<1>4. EntriesOwned'
  BY <1>1 DEF StreamIdentity, EntriesOwned, reqVars
<1>5. ResultsOwned'
  BY <1>1 DEF StreamIdentity, ResultsOwned, OwnResponse, reqVars
<1> QED
  BY <1>2, <1>3, <1>4, <1>5 DEF StreamIdentity

LEMMA IdentityOpened ==
  ASSUME TypeOK, StreamIdentity, NEW f \in opening, OpenedRes(f) \/ OpenedEnd(f)
  PROVE  StreamIdentity'
<1>1. /\ UNCHANGED <<up, down, trips, nextSid, pc, sidOf, ans>>
      /\ opening' \subseteq opening
  BY DEF OpenedRes, OpenedEnd, wireVars, nodeVars, reqVars
<1>2. FramesLabelled'
  BY <1>1, LabelsKept DEF StreamIdentity
<1>3. SidsUnique'
  BY <1>1 DEF StreamIdentity, SidsUnique
<1>4. \A p \in pending : /\ p \in Entries
                         /\ p.sid = sidOf[p.req] /\ p.sid # 0
                         /\ p.res \in {"none", "junk", p.req}
  BY DEF StreamIdentity, EntriesOwned, TypeOK
<1>5. CASE OpenedRes(f)
  <2>1. Labelled(f) /\ f.type = RES
    BY <1>5 DEF StreamIdentity, FramesLabelled, OpenedRes
  <2>2. f.body \in Bodies
    BY <2>1 DEF Labelled
  <2>3. f.body \in Reqs => f.sid = sidOf[f.body] /\ f.sid # 0
    BY <2>1 DEF Labelled
  <2>4. ASSUME NEW p \in pending, p.sid = f.sid
        PROVE  /\ [p EXCEPT !.res = f.body].sid = sidOf[p.req]
               /\ [p EXCEPT !.res = f.body].req = p.req
               /\ [p EXCEPT !.res = f.body].sid # 0
               /\ [p EXCEPT !.res = f.body].res \in {"none", "junk", p.req}
    <3>1. f.body \in {"junk", p.req}
      <4>1. p.req \in Reqs
        BY <1>4 DEF Entries
      <4>2. CASE f.body \in Reqs
        BY <1>4, <2>3, <2>4, <4>1, <4>2 DEF StreamIdentity, SidsUnique
      <4> QED
        BY <2>2, <4>2 DEF Bodies
    <3> QED
      BY <1>4, <3>1 DEF Entries
  <2>5. EntriesOwned'
    <3> SUFFICES ASSUME NEW e \in pending'
                 PROVE  /\ e.sid = sidOf[e.req] /\ e.sid # 0
                        /\ e.res \in {"none", "junk", e.req}
      BY <1>1 DEF EntriesOwned
    <3>1. PICK p \in pending :
            e = IF p.sid = f.sid THEN [p EXCEPT !.res = f.body] ELSE p
      BY <1>5 DEF OpenedRes
    <3> QED
      BY <1>4, <2>4, <3>1
  <2>6. ResultsOwned'
    BY <1>1, <1>5 DEF OpenedRes, StreamIdentity, ResultsOwned, OwnResponse,
                      reqVars
  <2> QED
    BY <1>2, <1>3, <2>5, <2>6 DEF StreamIdentity
<1>6. CASE OpenedEnd(f)
  <2>1. EntriesOwned'
    BY <1>1, <1>4, <1>6 DEF OpenedEnd, EntriesOwned, Without
  <2>2. ASSUME NEW p \in pending, p.sid = f.sid,
               Resolve(p.req, IF p.res = "none" THEN "empty" ELSE p.res)
        PROVE  \A r \in Reqs : out'[r] \in {"none", "null", "empty", "junk", r}
    <3>1. p.res \in {"none", "junk", p.req} /\ p.req \in Reqs
      BY <1>4 DEF Entries
    <3>2. \A r \in Reqs : out[r] \in {"none", "null", "empty", "junk", r}
      BY DEF StreamIdentity, ResultsOwned
    <3>3. out \in [Reqs -> Bodies \cup {"none", "null", "empty"}]
      BY DEF TypeOK
    <3> QED
      BY <2>2, <3>1, <3>2, <3>3 DEF Resolve
  <2>3. \A r \in Reqs : out'[r] \in {"none", "null", "empty", "junk", r}
    <3>1. CASE \E p \in pending : p.sid = f.sid
      BY <1>6, <2>2, <3>1 DEF OpenedEnd
    <3>2. CASE ~\E p \in pending : p.sid = f.sid
      BY <1>6, <3>2 DEF OpenedEnd, StreamIdentity, ResultsOwned
    <3> QED
      BY <3>1, <3>2
  <2>4. ResultsOwned'
    BY <1>1, <2>3 DEF StreamIdentity, ResultsOwned, OwnResponse
  <2> QED
    BY <1>2, <1>3, <2>1, <2>4 DEF StreamIdentity
<1> QED
  BY <1>5, <1>6

LEMMA LaterSid == \A n \in Nat : n < n + 1 /\ \A m \in Nat : m < n => m < n + 1 /\ m # n
OBVIOUS

\* tunnelFetch takes the next sid, which no frame, entry or request bears.
LEMMA IdentityTunnelFetch ==
  ASSUME TypeOK, StreamIdentity, NEW r \in Reqs, TunnelFetch(r),
         pc[r] \in {"new", "body"}, UNCHANGED <<up, down, trips, opening, out, ans>>
  PROVE  StreamIdentity'
<1>1. /\ pc \in [Reqs -> ReqStates] /\ sidOf \in [Reqs -> Nat]
      /\ nextSid \in Nat \ {0} /\ pending \in SUBSET Entries
  BY DEF TypeOK
<1>2. SidsUnique /\ sidOf[r] = 0 /\ \A q \in Reqs : sidOf[q] < nextSid
  BY DEF StreamIdentity, SidsUnique
<1>3. ResultsOwned'
  BY DEF StreamIdentity, ResultsOwned, OwnResponse
<1>4. CASE UNCHANGED <<sidOf, nextSid, pending>> /\ Goto(r, "local")
  <2>1. SidsUnique'
    BY <1>1, <1>2, <1>4 DEF SidsUnique, Goto
  <2>2. FramesLabelled'
    BY <1>4, LabelsKept DEF StreamIdentity
  <2>3. EntriesOwned'
    BY <1>4 DEF StreamIdentity, EntriesOwned
  <2> QED
    BY <1>3, <2>1, <2>2, <2>3 DEF StreamIdentity
<1>5. CASE /\ Goto(r, "seal CONNECT")
           /\ sidOf' = [sidOf EXCEPT ![r] = nextSid]
           /\ nextSid' = nextSid + 1
           /\ pending' = Without(nextSid) \cup
                           {[sid |-> nextSid, req |-> r, res |-> "none"]}
  <2>1. sidOf'[r] = nextSid /\ \A q \in Reqs \ {r} : sidOf'[q] = sidOf[q]
    BY <1>1, <1>5
  <2>2. SidsUnique'
    <3>1. \A q \in Reqs : sidOf'[q] < nextSid'
      <4>1. nextSid' = nextSid + 1
        BY <1>5
      <4> QED
        BY <1>1, <1>2, <2>1, <4>1, LaterSid
    <3>2. \A p, q \in Reqs : sidOf'[p] = sidOf'[q] /\ sidOf'[p] # 0 => p = q
      <4>1. \A q \in Reqs : sidOf[q] # nextSid
        BY <1>1, <1>2, LaterSid
      <4>2. \A p, q \in Reqs : sidOf[p] = sidOf[q] /\ sidOf[p] # 0 => p = q
        BY <1>2 DEF SidsUnique
      <4> QED
        BY <2>1, <4>1, <4>2
    <3>3. \A q \in Reqs : pc'[q] \in {"new", "body"} => sidOf'[q] = 0
      BY <1>1, <1>2, <1>5, <2>1 DEF SidsUnique, Goto
    <3>4. \A q \in Reqs : pc'[q] \in {"seal CONNECT", "seal REQ"} => sidOf'[q] # 0
      BY <1>1, <1>2, <1>5, <2>1 DEF SidsUnique, Goto
    <3> QED
      BY <3>1, <3>2, <3>3, <3>4 DEF SidsUnique
  <2>3. FramesLabelled'
    <3>1. ASSUME NEW f, Labelled(f)
          PROVE  Labelled(f)'
      BY <1>2, <2>1, <3>1 DEF Labelled
    <3>2. ASSUME NEW c \in Conns, NEW t \in trips[c]
          PROVE  t.req \in Reqs /\ t.sid = sidOf'[t.req] /\ t.sid # 0
      BY <1>2, <2>1 DEF StreamIdentity, FramesLabelled
    <3> QED
      BY <3>1, <3>2 DEF StreamIdentity, FramesLabelled
  <2>4. EntriesOwned'
    <3> SUFFICES ASSUME NEW e \in pending'
                 PROVE  /\ e.sid = sidOf'[e.req] /\ e.sid # 0
                        /\ e.res \in {"none", "junk", e.req}
      BY DEF EntriesOwned
    <3>1. CASE e \in pending
      <4>1. /\ e.req \in Reqs /\ e.sid = sidOf[e.req] /\ e.sid # 0
            /\ e.res \in {"none", "junk", e.req}
        BY <1>1, <3>1 DEF StreamIdentity, EntriesOwned, Entries
      <4> QED
        BY <1>2, <2>1, <4>1
    <3>2. CASE e = [sid |-> nextSid, req |-> r, res |-> "none"]
      BY <1>1, <2>1, <3>2
    <3> QED
      BY <1>5, <3>1, <3>2 DEF Without
  <2> QED
    BY <1>3, <2>2, <2>3, <2>4 DEF StreamIdentity
<1> QED
  BY <1>4, <1>5 DEF TunnelFetch

LEMMA IdentityReq ==
  ASSUME TypeOK, StreamIdentity, NEW r \in Reqs, ReqNext(r)
  PROVE  StreamIdentity'
<1> USE DEF wireVars, nodeVars, tunnelVars
<1>1. /\ pc \in [Reqs -> ReqStates] /\ sidOf \in [Reqs -> Nat]
      /\ out \in [Reqs -> Bodies \cup {"none", "null", "empty"}]
      /\ ans \in [Reqs -> Reqs \cup {"none", "bad gateway"}]
  BY DEF TypeOK
<1>2. SidsUnique /\ FramesLabelled /\ EntriesOwned /\ ResultsOwned
  BY DEF StreamIdentity
\* Leaving a state other than the seals, for one other than the seals.
<1>3. ASSUME NEW s \in {"local", "wait", "done"}, Goto(r, s),
             UNCHANGED <<sidOf, nextSid>>
      PROVE  SidsUnique'
  BY <1>1, <1>2, <1>3 DEF SidsUnique, Goto
<1>4. CASE ProxyFetch(r)
  <2>1. CASE tunnelWs # "none" /\ r \in Bodied
    <3>1. /\ Goto(r, "body") /\ pc[r] = "new"
          /\ UNCHANGED <<up, down, trips, opening, nextSid, pending, sidOf, out,
                         ans>>
      BY <1>4, <2>1 DEF ProxyFetch
    <3>2. SidsUnique'
      BY <1>1, <1>2, <3>1 DEF SidsUnique, Goto
    <3>3. FramesLabelled' /\ EntriesOwned' /\ ResultsOwned'
      BY <1>2, <3>1, LabelsKept DEF EntriesOwned, ResultsOwned, OwnResponse
    <3> QED
      BY <3>2, <3>3 DEF StreamIdentity
  <2>2. CASE ~(tunnelWs # "none" /\ r \in Bodied)
    BY <1>4, <2>2, IdentityTunnelFetch DEF ProxyFetch
  <2> QED
    BY <2>1, <2>2
<1>5. CASE BodyRead(r)
  BY <1>5, IdentityTunnelFetch DEF BodyRead
<1>6. CASE SealedConnect(r) \/ SealedReq(r)
  <2>1. /\ UNCHANGED <<down, trips, opening, nextSid, pending, sidOf, out, ans>>
        /\ pc[r] \in {"seal CONNECT", "seal REQ"}
        /\ \E s \in {"local", "seal REQ", "wait"} : Goto(r, s)
    BY <1>6 DEF SealedConnect, SealedReq
  <2>2. SidsUnique'
    BY <1>1, <1>2, <2>1 DEF SidsUnique, Goto
  <2>3. \A c \in Conns : \A f \in Contents(up'[c]) :
          f \in Contents(up[c]) \/ Labelled(f)
    <3>1. CASE up' = up
      BY <3>1
    <3>2. CASE SealedConnect(r) /\ tunnelWs # "none"
      <4> DEFINE g == Frame(CONNECT, sidOf[r], cap[r], "none")
      <4>1. g \in Frames /\ g.type = CONNECT /\ SocketSend(g)
        BY <3>2, ConnectFrame DEF SealedConnect
      <4>2. Labelled(g)
        BY <4>1 DEF Labelled, CONNECT, REQ, RES
      <4>3. \A c \in Conns : Contents(up'[c]) \subseteq Contents(up[c]) \cup {g}
        BY <3>2, <4>1, SocketSendContents
      <4> QED
        BY <4>2, <4>3
    <3>3. CASE SealedReq(r) /\ tunnelWs # "none"
      <4> DEFINE g == Frame(REQ, sidOf[r], cap[r], r)
      <4>1. g \in Frames /\ SocketSend(g)
        BY <3>3, ReqFrame DEF SealedReq
      <4>2. g.type = REQ /\ g.sid = sidOf[r] /\ g.body = r /\ sidOf[r] # 0
        BY <1>2, <3>3, ReqFrame DEF SealedReq, SidsUnique
      <4>3. Labelled(g)
        BY <4>2 DEF Labelled, REQ, RES
      <4>4. \A c \in Conns : Contents(up'[c]) \subseteq Contents(up[c]) \cup {g}
        BY <3>3, <4>1, SocketSendContents
      <4> QED
        BY <4>3, <4>4
    <3> QED
      BY <1>6, <3>1, <3>2, <3>3 DEF SealedConnect, SealedReq
  <2>4. FramesLabelled'
    BY <1>2, <2>1, <2>3, LabelsKept
  <2>5. EntriesOwned' /\ ResultsOwned'
    BY <1>2, <2>1 DEF EntriesOwned, ResultsOwned, OwnResponse
  <2> QED
    BY <2>2, <2>4, <2>5 DEF StreamIdentity
<1>7. CASE TimerFires(r)
  <2>1. UNCHANGED <<up, down, trips, opening, nextSid, pc, sidOf, ans>>
    BY <1>7 DEF TimerFires
  <2>2. pending' \subseteq pending /\ (out' = out \/ Resolve(r, "null"))
    BY <1>7 DEF TimerFires, Without
  <2>3. EntriesOwned'
    BY <1>2, <2>1, <2>2 DEF EntriesOwned
  <2>4. ResultsOwned'
    BY <1>1, <1>2, <2>1, <2>2 DEF ResultsOwned, OwnResponse, Resolve
  <2>5. FramesLabelled' /\ SidsUnique'
    BY <1>2, <2>1, LabelsKept DEF SidsUnique
  <2> QED
    BY <2>3, <2>4, <2>5 DEF StreamIdentity
<1>8. CASE Resume(r) \/ LocalFetch(r)
  <2>1. UNCHANGED <<up, down, trips, opening, nextSid, pending, sidOf, out>>
    BY <1>8 DEF Resume, LocalFetch
  <2>2. \/ Goto(r, "local") /\ ans' = ans
        \/ \E v \in {r, "bad gateway"} : Answer(r, v)
    <3>1. CASE Resume(r) /\ out[r] \in Reqs
      <4>1. out[r] = r
        BY <1>2, <3>1, TokensAssumption DEF ResultsOwned
      <4> QED
        BY <3>1, <4>1 DEF Resume
    <3>2. CASE Resume(r) /\ out[r] \notin Reqs
      BY <3>2 DEF Resume
    <3>3. CASE LocalFetch(r)
      BY <3>3 DEF LocalFetch
    <3> QED
      BY <1>8, <3>1, <3>2, <3>3
  <2>3. SidsUnique'
    BY <1>3, <2>1, <2>2 DEF Answer
  <2>4. ResultsOwned'
    <3>1. ASSUME NEW q \in Reqs
          PROVE  ans'[q] \in {ans[q], q, "bad gateway"}
      <4>1. CASE ans' = ans
        BY <4>1
      <4>2. ASSUME NEW v \in {r, "bad gateway"}, ans' = [ans EXCEPT ![r] = v]
            PROVE  ans'[q] \in {ans[q], q, "bad gateway"}
        <5>1. CASE q = r
          BY <1>1, <4>2, <5>1
        <5>2. CASE q # r
          BY <1>1, <4>2, <5>2
        <5> QED
          BY <5>1, <5>2
      <4> QED
        BY <2>2, <4>1, <4>2 DEF Answer
    <3> QED
      BY <1>2, <2>1, <3>1 DEF ResultsOwned, OwnResponse
  <2>5. FramesLabelled' /\ EntriesOwned'
    BY <1>2, <2>1, LabelsKept DEF EntriesOwned
  <2> QED
    BY <2>3, <2>4, <2>5 DEF StreamIdentity
<1> QED
  BY <1>4, <1>5, <1>6, <1>7, <1>8 DEF ReqNext

LEMMA IdentityNode ==
  ASSUME TypeOK, StreamIdentity, NodeNext, UNCHANGED clientVars
  PROVE  StreamIdentity'
<1>1. UNCHANGED <<nextSid, pending, opening, pc, sidOf, out, ans>>
  BY DEF clientVars, tunnelVars, reqVars
<1>2. SidsUnique' /\ EntriesOwned' /\ ResultsOwned'
  BY <1>1 DEF StreamIdentity, SidsUnique, EntriesOwned, ResultsOwned, OwnResponse
<1>3. \A c \in Conns : Contents(up'[c]) \subseteq Contents(up[c])
  BY NodeReads
<1>4. FramesLabelled /\ down \in [Conns -> Seq(Frames)]
      /\ up \in [Conns -> Seq(Frames)] /\ trips \in [Conns -> SUBSET Trips]
  BY DEF StreamIdentity, TypeOK, NodeTypeOK
\* It is enough that what the node adds, a frame or a trip, is labelled.
<1>5. ASSUME \A c \in Conns : \A f \in Contents(down'[c]) :
               f \in Contents(down[c]) \/ Labelled(f),
             \A c \in Conns : \A t \in trips'[c] :
               t.req \in Reqs /\ t.sid = sidOf[t.req] /\ t.sid # 0
      PROVE  FramesLabelled'
  BY <1>1, <1>3, <1>4, <1>5 DEF FramesLabelled, Labelled
<1>6. ASSUME NEW c \in Conns, NEW f \in Frames, Labelled(f), NodeSend(c, f)
      PROVE  \A d \in Conns : \A g \in Contents(down'[d]) :
               g \in Contents(down[d]) \/ Labelled(g)
  BY <1>4, <1>6, NodeSendContents
<1>7. ASSUME NEW c \in Conns, NEW t \in trips[c]
      PROVE  t.req \in Reqs /\ t.sid = sidOf[t.req] /\ t.sid # 0
  BY <1>4 DEF FramesLabelled
<1>8. ASSUME NEW c \in Conns, NodeHello(c)
      PROVE  FramesLabelled'
  <2>1. NodeSend(c, HelloFrame) /\ trips' = trips
    BY <1>8 DEF NodeHello
  <2> QED
    BY <1>5, <1>6, <1>7, <2>1, HelloLabelled, HelloFrameType
<1>9. ASSUME NEW c \in Conns, NodeDrop(c) \/ NodeConnect(c)
      PROVE  FramesLabelled'
  BY <1>5, <1>7, <1>9 DEF NodeDrop, NodeConnect, nodeVars
<1>10. ASSUME NEW c \in Conns, NodeReq(c)
       PROVE  FramesLabelled'
  <2> DEFINE f == Head(up[c])
             new == [sid |-> f.sid, req |-> f.body, read |-> FALSE]
  <2>1. f \in Contents(up[c]) /\ f.type = REQ
    BY <1>4, <1>10, ConsumeContents DEF NodeReq, IsHead
  <2>2. Labelled(f)
    BY <1>4, <2>1 DEF FramesLabelled
  <2>3. f.body \in Reqs /\ f.sid = sidOf[f.body] /\ f.sid # 0
    BY <2>1, <2>2 DEF Labelled
  <2>4. \A d \in Conns : trips'[d] \subseteq trips[d] \cup {new}
    BY <1>4, <1>10 DEF NodeReq
  <2>5. new.req \in Reqs /\ new.sid = sidOf[new.req] /\ new.sid # 0
    BY <2>3
  <2>6. down' = down
    BY <1>10 DEF NodeReq
  <2> HIDE DEF new
  <2> QED
    BY <1>5, <1>7, <2>4, <2>5, <2>6
<1>11. ASSUME NEW c \in Conns, NEW t \in trips[c], NodeRoundtrip(c, t)
       PROVE  FramesLabelled'
  <2> DEFINE new == [t EXCEPT !.read = TRUE]
  <2>1. new.sid = t.sid /\ new.req = t.req /\ t.sid \in Nat
    BY <1>4, TripFields
  <2>2. \A d \in Conns : trips'[d] \subseteq trips[d] \cup {new}
    BY <1>4, <1>11 DEF NodeRoundtrip
  <2>3. \A d \in Conns : \A u \in trips'[d] :
          u.req \in Reqs /\ u.sid = sidOf[u.req] /\ u.sid # 0
    <3> HIDE DEF new
    <3> QED
      BY <1>7, <2>1, <2>2
  <2>4. CASE UNCHANGED down
    BY <1>5, <2>3, <2>4
  <2>5. ASSUME NEW b \in {t.req, "junk"}, NodeSend(c, Frame(RES, t.sid, c, b))
        PROVE  FramesLabelled'
    <3> DEFINE f == Frame(RES, t.sid, c, b)
    <3>1. b \in Bodies
      BY <1>7 DEF Bodies
    <3>2. f \in Frames /\ f.type = RES /\ f.sid = t.sid /\ f.body = b
      BY <2>1, <3>1, FrameType DEF FrameTypes
    <3>3. Labelled(f)
      BY <1>7, <3>1, <3>2, TokensAssumption DEF Labelled, RES, REQ
    <3> QED
      BY <1>5, <1>6, <2>3, <2>5, <3>2, <3>3
  <2> QED
    BY <1>11, <2>4, <2>5 DEF NodeRoundtrip
<1>12. ASSUME NEW c \in Conns, NEW t \in trips[c], NodeEnd(c, t)
       PROVE  FramesLabelled'
  <2> DEFINE f == Frame(END, t.sid, c, "none")
  <2>1. \A d \in Conns : trips'[d] \subseteq trips[d]
    BY <1>4, <1>12 DEF NodeEnd
  <2>2. t.sid \in Nat
    BY <1>4, TripFields
  <2>3. f \in Frames /\ f.type = END
    BY <2>2, FrameType DEF FrameTypes
  <2>4. Labelled(f)
    BY <2>3 DEF Labelled, END, REQ, RES
  <2>5. NodeSend(c, f)
    BY <1>12 DEF NodeEnd
  <2> QED
    BY <1>5, <1>6, <1>7, <2>1, <2>3, <2>4, <2>5
<1>13. FramesLabelled'
  BY <1>8, <1>9, <1>10, <1>11, <1>12 DEF NodeNext
<1> QED
  BY <1>2, <1>13 DEF StreamIdentity

LEMMA IdentityStep ==
  ASSUME TypeOK, StreamIdentity, [Next]_vars
  PROVE  StreamIdentity'
<1>1. CASE UNCHANGED vars
  <2>1. UNCHANGED <<up, down, trips, opening, nextSid, pending, pc, sidOf, out,
                    ans>>
    BY <1>1 DEF vars, wireVars, nodeVars, clientVars, tunnelVars, reqVars
  <2> QED
    BY <2>1, LabelsKept DEF StreamIdentity, SidsUnique, EntriesOwned,
                            ResultsOwned, OwnResponse
<1> QED
  BY <1>1, IdentityConn, IdentityOpened, IdentityReq, IdentityNode DEF Next

LEMMA IdentityAlways == Spec => []StreamIdentity
<1>1. Init => StreamIdentity
  BY DEF Init, NodeInit, StreamIdentity, SidsUnique, FramesLabelled,
         EntriesOwned, ResultsOwned, OwnResponse, Contents
<1>2. TypeOK /\ StreamIdentity /\ [Next]_vars => StreamIdentity'
  BY IdentityStep
<1> QED
  BY <1>1, <1>2, Typing, PTL DEF Spec

\* No response ever reaches another request than the one it answers, whatever
\* the number of tunnels opened, replaced and lost meanwhile.
THEOREM OwnResponseAlways == Spec => []OwnResponse
<1>1. StreamIdentity => OwnResponse
  BY DEF StreamIdentity, ResultsOwned
<1> QED
  BY <1>1, IdentityAlways, PTL

-----------------------------------------------------------------------------
\* The tunnel carries a request at most once.

\* REQ frames only move towards the head of their queue, or leave it.
UpKept ==
  \A d \in Conns : \E k \in Nat : \A i \in 1..Len(up'[d]) :
    up'[d][i].type = REQ => i + k \in 1..Len(up[d]) /\ up'[d][i] = up[d][i + k]

LEMMA KeptWhenSent ==
  ASSUME up \in [Conns -> Seq(Frames)], NEW c \in Conns, NEW f \in Frames,
         f.type # REQ, up' = [up EXCEPT ![c] = Append(@, f)]
  PROVE  UpKept
<1> SUFFICES ASSUME NEW d \in Conns, NEW i \in 1..Len(up'[d]),
                    up'[d][i].type = REQ
             PROVE  i + 0 \in 1..Len(up[d]) /\ up'[d][i] = up[d][i + 0]
  BY DEF UpKept
<1>1. up[c] \in Seq(Frames) /\ i \in Nat
  OBVIOUS
<1>2. CASE d = c
  <2>1. up'[d] = Append(up[c], f)
    BY <1>2
  <2>2. i \in 1..Len(up[c])
    BY <1>1, <2>1, AppendProperties
  <2> QED
    BY <1>1, <1>2, <2>1, <2>2, AppendProperties
<1>3. CASE d # c
  BY <1>3
<1> QED
  BY <1>2, <1>3

LEMMA KeptWhenConsumed ==
  ASSUME up \in [Conns -> Seq(Frames)], NEW c \in Conns, up[c] # <<>>, Consume(c)
  PROVE  /\ UpKept
         /\ \A i \in 1..Len(up'[c]) :
              i + 1 \in 1..Len(up[c]) /\ up'[c][i] = up[c][i + 1]
         /\ \A d \in Conns \ {c} : up'[d] = up[d]
<1>1. up[c] \in Seq(Frames) /\ up'[c] = Tail(up[c])
  BY DEF Consume
<1>2. \A d \in Conns \ {c} : up'[d] = up[d]
  BY DEF Consume
<1>3. \A i \in 1..Len(up'[c]) :
        i + 1 \in 1..Len(up[c]) /\ up'[c][i] = up[c][i + 1]
  BY <1>1, HeadTailProperties
<1>4. ASSUME NEW d \in Conns, d # c, NEW i \in 1..Len(up'[d])
      PROVE  i + 0 \in 1..Len(up[d]) /\ up'[d][i] = up[d][i + 0]
  BY <1>2, <1>4
<1>5. UpKept
  <2> SUFFICES ASSUME NEW d \in Conns
               PROVE  \E k \in Nat : \A i \in 1..Len(up'[d]) :
                        i + k \in 1..Len(up[d]) /\ up'[d][i] = up[d][i + k]
    BY DEF UpKept
  <2>1. 0 \in Nat /\ 1 \in Nat
    OBVIOUS
  <2> QED
    BY <1>3, <1>4, <2>1
<1> QED
  BY <1>2, <1>3, <1>5

LEMMA KeptWhenUnchanged ==
  ASSUME up \in [Conns -> Seq(Frames)], up' = up
  PROVE  UpKept
<1> SUFFICES ASSUME NEW d \in Conns, NEW i \in 1..Len(up[d])
             PROVE  i + 0 \in 1..Len(up[d]) /\ up[d][i] = up[d][i + 0]
  BY DEF UpKept
<1> QED
  OBVIOUS

LEMMA KeptWhenDropped ==
  ASSUME up \in [Conns -> Seq(Frames)], NEW c \in Conns,
         up' = [up EXCEPT ![c] = <<>>]
  PROVE  UpKept
<1> SUFFICES ASSUME NEW d \in Conns, NEW i \in 1..Len(up'[d])
             PROVE  i + 0 \in 1..Len(up[d]) /\ up'[d][i] = up[d][i + 0]
  BY DEF UpKept
<1> QED
  OBVIOUS

LEMMA KeptContents ==
  ASSUME UpKept, NEW d \in Conns, NEW f \in Contents(up'[d]), f.type = REQ
  PROVE  f \in Contents(up[d])
BY DEF UpKept, Contents

\* A step that moves REQ frames along, makes no round trip and lets nobody
\* hand over a request again keeps the bound.
LEMMA OnceKept ==
  ASSUME TunnelOnce, UpKept, runs' = runs, runs \in [Reqs -> Nat],
         \A c \in Conns : \A t \in trips'[c] : ~t.read => t \in trips[c],
         \A r \in Reqs : pc'[r] \in Unsent => pc[r] \in Unsent,
         \A r \in Reqs : pc[r] = "done" => pc'[r] = "done"
  PROVE  TunnelOnce'
<1>1. ASSUME NEW r \in Reqs, Carried(r)'
      PROVE  Carried(r)
  BY <1>1, KeptContents DEF Carried, Carries, Makes
<1>2. \A r \in Reqs : /\ Local(r) \in {0, 1} /\ Local(r)' \in {0, 1}
                      /\ Local(r) = 1 => Local(r)' = 1
  BY DEF Local
<1>3. RunsBounded'
  <2> SUFFICES ASSUME NEW r \in Reqs
               PROVE  /\ pc'[r] \in Unsent => ~Carried(r)' /\ runs'[r] = 0
                      /\ Carried(r)' => runs'[r] <= Local(r)'
                      /\ runs'[r] <= Local(r)' + 1
    BY DEF RunsBounded, Unsent
  <2>1. /\ pc[r] \in Unsent => ~Carried(r) /\ runs[r] = 0
        /\ Carried(r) => runs[r] <= Local(r)
        /\ runs[r] <= Local(r) + 1
    BY DEF TunnelOnce, RunsBounded
  <2>2. runs[r] \in Nat
    OBVIOUS
  <2>3. pc'[r] \in Unsent => ~Carried(r)' /\ runs'[r] = 0
    BY <1>1, <2>1
  <2>4. Carried(r)' => runs'[r] <= Local(r)'
    BY <1>1, <1>2, <2>1, <2>2
  <2>5. runs'[r] <= Local(r)' + 1
    BY <1>2, <2>1, <2>2
  <2> QED
    BY <2>3, <2>4, <2>5
<1>4. OneCarrier'
  <2> SUFFICES ASSUME NEW r \in Reqs, NEW c \in Conns, NEW d \in Conns
               PROVE  /\ \A i \in 1..Len(up'[c]), j \in 1..Len(up'[d]) :
                           Carries(up'[c][i], r) /\ Carries(up'[d][j], r)
                             => c = d /\ i = j
                      /\ \A f \in Contents(up'[c]), t \in trips'[d] :
                           ~(Carries(f, r) /\ Makes(t, r))
                      /\ \A t \in trips'[c], u \in trips'[d] :
                           Makes(t, r) /\ Makes(u, r) => c = d /\ t = u
    BY DEF OneCarrier, Carries, Makes
  <2>1. /\ \A i \in 1..Len(up[c]), j \in 1..Len(up[d]) :
             Carries(up[c][i], r) /\ Carries(up[d][j], r) => c = d /\ i = j
        /\ \A f \in Contents(up[c]), t \in trips[d] :
             ~(Carries(f, r) /\ Makes(t, r))
        /\ \A t \in trips[c], u \in trips[d] :
             Makes(t, r) /\ Makes(u, r) => c = d /\ t = u
    BY DEF TunnelOnce, OneCarrier
  <2>2. ASSUME NEW i \in 1..Len(up'[c]), NEW j \in 1..Len(up'[d]),
               Carries(up'[c][i], r), Carries(up'[d][j], r)
        PROVE  c = d /\ i = j
    <3>1. PICK k \in Nat : \A x \in 1..Len(up'[c]) :
            up'[c][x].type = REQ
              => x + k \in 1..Len(up[c]) /\ up'[c][x] = up[c][x + k]
      BY DEF UpKept
    <3>2. PICK m \in Nat : \A x \in 1..Len(up'[d]) :
            up'[d][x].type = REQ
              => x + m \in 1..Len(up[d]) /\ up'[d][x] = up[d][x + m]
      BY DEF UpKept
    <3>3. i + k \in 1..Len(up[c]) /\ up'[c][i] = up[c][i + k]
      BY <2>2, <3>1 DEF Carries
    <3>4. j + m \in 1..Len(up[d]) /\ up'[d][j] = up[d][j + m]
      BY <2>2, <3>2 DEF Carries
    <3>5. c = d
      BY <2>1, <2>2, <3>3, <3>4
    <3>6. j + k \in 1..Len(up[d]) /\ up'[d][j] = up[d][j + k]
      BY <2>2, <3>1, <3>5 DEF Carries
    <3>7. i + k = j + k
      BY <2>1, <2>2, <3>3, <3>6
    <3>8. i \in Int /\ j \in Int
      OBVIOUS
    <3> QED
      BY <3>5, <3>7, <3>8
  <2>3. \A f \in Contents(up'[c]), t \in trips'[d] :
          ~(Carries(f, r) /\ Makes(t, r))
    BY <2>1, KeptContents DEF Carries, Makes
  <2>4. \A t \in trips'[c], u \in trips'[d] :
          Makes(t, r) /\ Makes(u, r) => c = d /\ t = u
    BY <2>1 DEF Makes
  <2> QED
    BY <2>2, <2>3, <2>4
<1> QED
  BY <1>3, <1>4 DEF TunnelOnce

LEMMA OnceConn ==
  ASSUME TypeOK, TunnelOnce, NEW c \in Conns, ConnNext(c)
  PROVE  TunnelOnce'
<1>1. UNCHANGED <<trips, runs, pc>>
  BY ConnFrames DEF reqVars
<1>2. up \in [Conns -> Seq(Frames)] /\ runs \in [Reqs -> Nat]
  BY DEF TypeOK, NodeTypeOK
<1>3. UpKept
  <2>1. CASE Opened(c)
    <3>1. HelloFrame.type # REQ
      BY HelloFrameType DEF Hello, REQ
    <3> QED
      BY <1>2, <2>1, <3>1, HelloFrameType, KeptWhenSent DEF Opened
  <2>2. CASE Closing(c)
    BY <1>2, <2>2, KeptWhenDropped DEF Closing
  <2>3. CASE up' = up
    BY <1>2, <2>3, KeptWhenUnchanged
  <2> QED
    BY <2>1, <2>2, <2>3
       DEF ConnNext, Dial, HelloAnswered, ConnectFails, Install, OnClose,
           OnMessage, wireVars
<1> QED
  BY <1>1, <1>2, <1>3, OnceKept

LEMMA OnceReq ==
  ASSUME TypeOK, TunnelOnce, NEW r \in Reqs, ReqNext(r)
  PROVE  TunnelOnce'
<1> USE DEF wireVars, nodeVars, tunnelVars
<1>1. /\ up \in [Conns -> Seq(Frames)] /\ runs \in [Reqs -> Nat]
      /\ pc \in [Reqs -> ReqStates]
  BY DEF TypeOK, NodeTypeOK
<1>2. trips' = trips
  BY DEF ReqNext, ProxyFetch, BodyRead, SealedConnect, SealedReq, TimerFires,
         Resume, LocalFetch
\* A request that moves on without a REQ frame or an execution.
<1>3. ASSUME UpKept, runs' = runs, NEW s, Goto(r, s),
             s \in Unsent => pc[r] \in Unsent, pc[r] # "done"
      PROVE  TunnelOnce'
  <2>1. /\ \A q \in Reqs : pc'[q] \in Unsent => pc[q] \in Unsent
        /\ \A q \in Reqs : pc[q] = "done" => pc'[q] = "done"
    BY <1>1, <1>3 DEF Goto
  <2> QED
    BY <1>1, <1>2, <1>3, <2>1, OnceKept
<1>4. CASE ProxyFetch(r) \/ BodyRead(r)
  <2>1. pc[r] \in {"new", "body"} /\ UNCHANGED <<up, runs>>
    BY <1>4 DEF ProxyFetch, BodyRead
  <2>2. \E s \in {"body", "local", "seal CONNECT"} : Goto(r, s)
    BY <1>4 DEF ProxyFetch, BodyRead, TunnelFetch
  <2>3. UpKept
    BY <1>1, <2>1, KeptWhenUnchanged
  <2> QED
    BY <1>3, <2>1, <2>2, <2>3 DEF Unsent
<1>5. CASE SealedConnect(r)
  <2>1. pc[r] = "seal CONNECT" /\ runs' = runs
    BY <1>5 DEF SealedConnect
  <2>2. \E s \in {"local", "seal REQ"} : Goto(r, s)
    BY <1>5 DEF SealedConnect
  <2>3. UpKept
    <3>1. CASE up' = up
      BY <1>1, <3>1, KeptWhenUnchanged
    <3>2. CASE up' # up
      <4> DEFINE g == Frame(CONNECT, sidOf[r], cap[r], "none")
      <4>1. tunnelWs \in Conns
        BY <1>5, <3>2 DEF SealedConnect, TypeOK
      <4>2. g \in Frames /\ g.type = CONNECT
        BY ConnectFrame
      <4>3. g.type # REQ
        BY <4>2 DEF CONNECT, REQ
      <4>4. up' = [up EXCEPT ![tunnelWs] = Append(@, g)]
        BY <1>5, <3>2 DEF SealedConnect, SocketSend
      <4> HIDE DEF g
      <4> QED
        BY <1>1, <4>1, <4>2, <4>3, <4>4, KeptWhenSent
    <3> QED
      BY <3>1, <3>2
  <2> QED
    BY <1>3, <2>1, <2>2, <2>3 DEF Unsent
<1>6. CASE SealedReq(r)
  <2>1. pc[r] = "seal REQ" /\ runs' = runs
    BY <1>6 DEF SealedReq
  <2>2. \E s \in {"local", "wait"} : Goto(r, s)
    BY <1>6 DEF SealedReq
  <2>3. CASE up' = up
    BY <1>1, <1>3, <2>1, <2>2, <2>3, KeptWhenUnchanged DEF Unsent
  <2>4. CASE up' # up
    <3> DEFINE g == Frame(REQ, sidOf[r], cap[r], r)
               w == tunnelWs
    <3>1. w \in Conns /\ up' = [up EXCEPT ![w] = Append(@, g)]
      BY <1>6, <2>4 DEF SealedReq, SocketSend, TypeOK
    <3>2. g \in Frames /\ g.type = REQ /\ g.body = r
      BY ReqFrame
    <3>3. pc' = [pc EXCEPT ![r] = "wait"]
      BY <1>6, <2>4 DEF SealedReq, Goto
    <3>4. ~Carried(r) /\ runs[r] = 0
      BY <2>1 DEF TunnelOnce, RunsBounded, Unsent
    <3> HIDE DEF g, w
    <3>5. ASSUME NEW d \in Conns, NEW i \in 1..Len(up'[d])
          PROVE  \/ i \in 1..Len(up[d]) /\ up'[d][i] = up[d][i]
                 \/ d = w /\ i = Len(up[w]) + 1 /\ up'[d][i] = g
      <4>1. up[w] \in Seq(Frames)
        BY <1>1, <3>1
      <4>2. CASE d = w
        <5>1. up'[d] = Append(up[w], g)
          BY <1>1, <3>1, <4>2
        <5>2. i \in 1..Len(up[w]) \/ i = Len(up[w]) + 1
          BY <3>2, <4>1, <5>1, AppendProperties
        <5> QED
          BY <3>2, <4>1, <4>2, <5>1, <5>2, AppendProperties
      <4>3. CASE d # w
        BY <1>1, <3>1, <4>3
      <4> QED
        BY <4>2, <4>3
    <3>6. ASSUME NEW d \in Conns, NEW f \in Contents(up'[d])
          PROVE  f \in Contents(up[d]) \/ f = g
      BY <3>5 DEF Contents
    <3>7. RunsBounded'
      <4> SUFFICES ASSUME NEW q \in Reqs
                   PROVE  /\ pc'[q] \in Unsent => ~Carried(q)' /\ runs'[q] = 0
                          /\ Carried(q)' => runs'[q] <= Local(q)'
                          /\ runs'[q] <= Local(q)' + 1
        BY DEF RunsBounded, Unsent
      <4>1. CASE q = r
        <5>1. pc'[q] = "wait" /\ Local(q)' = 0 /\ runs'[q] = 0
          BY <1>1, <2>1, <3>3, <3>4, <4>1 DEF Local
        <5> QED
          BY <5>1 DEF Unsent
      <4>2. CASE q # r
        <5>1. Carried(q)' => Carried(q)
          BY <1>2, <3>2, <3>6, <4>2 DEF Carried, Carries, Makes
        <5>2. pc'[q] = pc[q] /\ Local(q)' = Local(q)
          BY <1>1, <3>3, <4>2 DEF Local
        <5> QED
          BY <2>1, <5>1, <5>2 DEF TunnelOnce, RunsBounded
      <4> QED
        BY <4>1, <4>2
    <3>8. OneCarrier'
      <4> SUFFICES ASSUME NEW q \in Reqs, NEW c \in Conns, NEW d \in Conns
                   PROVE  /\ \A i \in 1..Len(up'[c]), j \in 1..Len(up'[d]) :
                               Carries(up'[c][i], q) /\ Carries(up'[d][j], q)
                                 => c = d /\ i = j
                          /\ \A f \in Contents(up'[c]), t \in trips[d] :
                               ~(Carries(f, q) /\ Makes(t, q))
                          /\ \A t \in trips[c], u \in trips[d] :
                               Makes(t, q) /\ Makes(u, q) => c = d /\ t = u
        BY <1>2 DEF OneCarrier, Carries, Makes
      <4>1. /\ \A i \in 1..Len(up[c]), j \in 1..Len(up[d]) :
                 Carries(up[c][i], q) /\ Carries(up[d][j], q) => c = d /\ i = j
            /\ \A f \in Contents(up[c]), t \in trips[d] :
                 ~(Carries(f, q) /\ Makes(t, q))
            /\ \A t \in trips[c], u \in trips[d] :
                 Makes(t, q) /\ Makes(u, q) => c = d /\ t = u
        BY DEF TunnelOnce, OneCarrier
      <4>2. CASE q = r
        <5>1. ASSUME NEW e \in Conns, NEW i \in 1..Len(up'[e]),
                     Carries(up'[e][i], r)
              PROVE  e = w /\ i = Len(up[w]) + 1
          BY <3>4, <3>5, <5>1 DEF Carried, Contents
        <5>2. \A i \in 1..Len(up'[c]), j \in 1..Len(up'[d]) :
                Carries(up'[c][i], q) /\ Carries(up'[d][j], q)
                  => c = d /\ i = j
          BY <4>2, <5>1
        <5>3. \A t \in trips[d] : ~Makes(t, q)
          BY <3>4, <4>2 DEF Carried
        <5> QED
          BY <4>1, <5>2, <5>3
      <4>3. CASE q # r
        <5>1. ~Carries(g, q)
          BY <3>2, <4>3 DEF Carries
        <5>2. \A i \in 1..Len(up'[c]), j \in 1..Len(up'[d]) :
                Carries(up'[c][i], q) /\ Carries(up'[d][j], q)
                  => c = d /\ i = j
          BY <3>5, <4>1, <5>1
        <5>3. \A f \in Contents(up'[c]), t \in trips[d] :
                ~(Carries(f, q) /\ Makes(t, q))
          BY <3>6, <4>1, <5>1
        <5> QED
          BY <4>1, <5>2, <5>3
      <4> QED
        BY <4>2, <4>3
    <3> QED
      BY <3>7, <3>8 DEF TunnelOnce
  <2> QED
    BY <2>3, <2>4
<1>7. CASE TimerFires(r)
  <2>1. UNCHANGED <<up, runs, pc>>
    BY <1>7 DEF TimerFires
  <2> QED
    BY <1>1, <1>2, <2>1, KeptWhenUnchanged, OnceKept
<1>8. CASE Resume(r)
  <2>1. pc[r] = "wait" /\ UNCHANGED <<up, runs>>
    BY <1>8 DEF Resume
  <2>2. \E s \in {"local", "done"} : Goto(r, s)
    BY <1>8 DEF Resume, Answer
  <2> QED
    BY <1>1, <1>3, <2>1, <2>2, KeptWhenUnchanged DEF Unsent
<1>9. CASE LocalFetch(r)
  <2>1. pc[r] = "local" /\ up' = up /\ Goto(r, "done")
    BY <1>9 DEF LocalFetch, Answer
  <2>2. UpKept
    BY <1>1, <2>1, KeptWhenUnchanged
  <2>3. CASE runs' = runs
    BY <1>3, <2>1, <2>2, <2>3 DEF Unsent
  <2>4. CASE r \notin Bodied /\ Run(r)
    <3>1. pc' = [pc EXCEPT ![r] = "done"] /\ runs' = [runs EXCEPT ![r] = @ + 1]
      BY <2>1, <2>4 DEF Goto, Run
    <3>2. \A q \in Reqs : Carried(q)' <=> Carried(q)
      BY <1>2, <2>1 DEF Carried
    <3>3. RunsBounded'
      <4> SUFFICES ASSUME NEW q \in Reqs
                   PROVE  /\ pc'[q] \in Unsent => ~Carried(q)' /\ runs'[q] = 0
                          /\ Carried(q)' => runs'[q] <= Local(q)'
                          /\ runs'[q] <= Local(q)' + 1
        BY DEF RunsBounded, Unsent
      <4>1. /\ pc[q] \in Unsent => ~Carried(q) /\ runs[q] = 0
            /\ Carried(q) => runs[q] <= Local(q)
            /\ runs[q] <= Local(q) + 1
            /\ runs[q] \in Nat
        BY <1>1 DEF TunnelOnce, RunsBounded
      <4>2. CASE q = r
        <5>1. Local(q) = 0 /\ Local(q)' = 1 /\ pc'[q] = "done"
          BY <1>1, <2>1, <2>4, <3>1, <4>2 DEF Local
        <5>2. runs'[q] = runs[q] + 1
          BY <1>1, <3>1, <4>2
        <5>3. pc'[q] \notin Unsent
          BY <5>1 DEF Unsent
        <5> QED
          BY <3>2, <4>1, <5>1, <5>2, <5>3
      <4>3. CASE q # r
        <5>1. Local(q)' = Local(q) /\ pc'[q] = pc[q] /\ runs'[q] = runs[q]
          BY <1>1, <3>1, <4>3 DEF Local
        <5> QED
          BY <3>2, <4>1, <5>1
      <4> QED
        BY <4>2, <4>3
    <3>4. OneCarrier'
      BY <1>2, <2>1 DEF TunnelOnce, OneCarrier, Carries, Makes
    <3> QED
      BY <3>3, <3>4 DEF TunnelOnce
  <2> QED
    BY <1>9, <2>3, <2>4 DEF LocalFetch
<1> QED
  BY <1>4, <1>5, <1>6, <1>7, <1>8, <1>9 DEF ReqNext

LEMMA OnceNode ==
  ASSUME TypeOK, TunnelOnce, NodeNext, UNCHANGED clientVars
  PROVE  TunnelOnce'
<1>1. /\ up \in [Conns -> Seq(Frames)] /\ runs \in [Reqs -> Nat]
      /\ trips \in [Conns -> SUBSET Trips]
  BY DEF TypeOK, NodeTypeOK
<1>2. pc' = pc
  BY DEF clientVars, reqVars
<1>3. \A q \in Reqs : Local(q)' = Local(q)
  BY <1>2 DEF Local
<1>4. ASSUME NEW c \in Conns, NodeHello(c) \/ NodeDrop(c) \/ NodeConnect(c)
      PROVE  TunnelOnce'
  <2>1. up[c] # <<>> /\ Consume(c) /\ UNCHANGED <<trips, runs>>
    BY <1>4 DEF NodeHello, NodeDrop, NodeConnect, IsHead, nodeVars
  <2> QED
    BY <1>1, <1>2, <2>1, KeptWhenConsumed, OnceKept
<1>5. ASSUME NEW c \in Conns, NodeReq(c)
      PROVE  TunnelOnce'
  <2> DEFINE f == Head(up[c])
             new == [sid |-> f.sid, req |-> f.body, read |-> FALSE]
  <2>1. up[c] # <<>> /\ Consume(c) /\ runs' = runs
    BY <1>5 DEF NodeReq, IsHead
  <2>2. UpKept
    BY <1>1, <2>1, KeptWhenConsumed
  <2>3. CASE trips' = trips
    BY <1>1, <1>2, <2>1, <2>2, <2>3, OnceKept
  <2>4. CASE trips' = [trips EXCEPT ![c] = @ \cup {new}]
    <3>1. f = up[c][1] /\ f \in Contents(up[c]) /\ 1 \in 1..Len(up[c])
      BY <1>1, <2>1, ConsumeType, ConsumeContents
    <3>2. f.type = REQ
      BY <1>5 DEF NodeReq, IsHead
    <3>3. /\ \A i \in 1..Len(up'[c]) :
               i + 1 \in 1..Len(up[c]) /\ up'[c][i] = up[c][i + 1]
          /\ \A d \in Conns \ {c} : up'[d] = up[d]
      BY <1>1, <2>1, KeptWhenConsumed
    <3>4. new.req = f.body /\ ~new.read
      OBVIOUS
    <3> HIDE DEF f, new
    <3>5. \A d \in Conns : \A t \in trips'[d] :
            t \in trips[d] \/ (d = c /\ t = new)
      BY <1>1, <2>4
    <3>6. ASSUME NEW q \in Reqs, Carried(q)'
          PROVE  Carried(q)
      <4>1. CASE \E d \in Conns : \E g \in Contents(up'[d]) : Carries(g, q)
        BY <2>2, <4>1, KeptContents DEF Carries, Carried
      <4>2. CASE \E d \in Conns : \E t \in trips'[d] : Makes(t, q)
        BY <3>1, <3>2, <3>4, <3>5, <4>2 DEF Makes, Carries, Carried
      <4> QED
        BY <3>6, <4>1, <4>2 DEF Carried, Carries, Makes
    <3>7. RunsBounded'
      BY <1>2, <1>3, <2>1, <3>6 DEF TunnelOnce, RunsBounded, Unsent
    <3>8. OneCarrier'
      <4> SUFFICES ASSUME NEW q \in Reqs, NEW a \in Conns, NEW d \in Conns
                   PROVE  /\ \A i \in 1..Len(up'[a]), j \in 1..Len(up'[d]) :
                               Carries(up'[a][i], q) /\ Carries(up'[d][j], q)
                                 => a = d /\ i = j
                          /\ \A g \in Contents(up'[a]), t \in trips'[d] :
                               ~(Carries(g, q) /\ Makes(t, q))
                          /\ \A t \in trips'[a], u \in trips'[d] :
                               Makes(t, q) /\ Makes(u, q) => a = d /\ t = u
        BY DEF OneCarrier, Carries, Makes
      <4>1. \A x, y \in Conns :
              /\ \A i \in 1..Len(up[x]), j \in 1..Len(up[y]) :
                   Carries(up[x][i], q) /\ Carries(up[y][j], q)
                     => x = y /\ i = j
              /\ \A g \in Contents(up[x]), t \in trips[y] :
                   ~(Carries(g, q) /\ Makes(t, q))
              /\ \A t \in trips[x], u \in trips[y] :
                   Makes(t, q) /\ Makes(u, q) => x = y /\ t = u
        BY DEF TunnelOnce, OneCarrier
      \* Frames only moved: two of them were two before.
      <4>2. ASSUME NEW i \in 1..Len(up'[a]), NEW j \in 1..Len(up'[d]),
                   Carries(up'[a][i], q), Carries(up'[d][j], q)
            PROVE  a = d /\ i = j
        <5>1. CASE a = c /\ d = c
          <6>1. i + 1 = j + 1
            BY <3>3, <4>1, <4>2, <5>1
          <6>2. i \in Int /\ j \in Int
            OBVIOUS
          <6> QED
            BY <5>1, <6>1, <6>2
        <5>2. CASE a = c /\ d # c
          BY <3>3, <4>1, <4>2, <5>2
        <5>3. CASE a # c /\ d = c
          BY <3>3, <4>1, <4>2, <5>3
        <5>4. CASE a # c /\ d # c
          BY <3>3, <4>1, <4>2, <5>4
        <5> QED
          BY <5>1, <5>2, <5>3, <5>4
      \* The frame that became a trip was the only one of its request.
      <4>3. ASSUME NEW e \in Conns, NEW g \in Contents(up'[e]), Carries(g, q)
            PROVE  q # f.body
        <5> SUFFICES ASSUME Carries(f, q)
                     PROVE  FALSE
          BY <3>2, <4>3 DEF Carries
        <5>1. PICK i \in 1..Len(up'[e]) : up'[e][i] = g
          BY <4>3 DEF Contents
        <5>2. CASE e = c
          <6>1. i + 1 = 1
            BY <3>1, <3>3, <4>1, <4>3, <5>1, <5>2
          <6>2. i \in Nat \ {0}
            OBVIOUS
          <6> QED
            BY <6>1, <6>2
        <5>3. CASE e # c
          BY <3>1, <3>3, <4>1, <4>3, <5>1, <5>3
        <5> QED
          BY <5>2, <5>3
      <4>4. \A g \in Contents(up'[a]), t \in trips'[d] :
              ~(Carries(g, q) /\ Makes(t, q))
        BY <2>2, <3>4, <3>5, <4>1, <4>3, KeptContents DEF Carries, Makes
      <4>5. Carries(f, q) => \A e \in Conns : \A t \in trips[e] : ~Makes(t, q)
        BY <3>1, <4>1
      <4>6. \A t \in trips'[a], u \in trips'[d] :
              Makes(t, q) /\ Makes(u, q) => a = d /\ t = u
        BY <3>2, <3>4, <3>5, <4>1, <4>5 DEF Carries, Makes
      <4> QED
        BY <4>2, <4>4, <4>6
    <3> QED
      BY <3>7, <3>8 DEF TunnelOnce
  <2> QED
    BY <1>5, <2>3, <2>4 DEF NodeReq
<1>6. ASSUME NEW c \in Conns, NEW t \in trips[c], NodeRoundtrip(c, t)
      PROVE  TunnelOnce'
  <2>1. ~t.read /\ up' = up /\ (runs' = runs \/ Run(t.req))
    BY <1>6 DEF NodeRoundtrip
  <2>2. [t EXCEPT !.read = TRUE].read
    BY <1>1, TripFields
  <2>3. \A d \in Conns : \A u \in trips'[d] :
          ~u.read => u \in trips[d] /\ ~(d = c /\ u = t)
    BY <1>1, <1>6, <2>1, <2>2 DEF NodeRoundtrip
  <2>4. UpKept
    BY <1>1, <2>1, KeptWhenUnchanged
  <2>5. CASE runs' = runs
    BY <1>1, <1>2, <2>3, <2>4, <2>5, OnceKept
  <2>6. CASE Run(t.req) /\ t.req \notin Reqs
    <3>1. runs' = runs
      BY <1>1, <2>6 DEF Run
    <3> QED
      BY <1>1, <1>2, <2>3, <2>4, <3>1, OnceKept
  <2>7. CASE Run(t.req) /\ t.req \in Reqs
    <3>1. ASSUME NEW q \in Reqs, Carried(q)'
          PROVE  Carried(q) /\ q # t.req
      <4>1. CASE \E d \in Conns : \E g \in Contents(up[d]) : Carries(g, q)
        <5>1. ~Makes(t, q)
          BY <4>1 DEF TunnelOnce, OneCarrier
        <5> QED
          BY <2>1, <4>1, <5>1 DEF Makes, Carried
      <4>2. CASE \E d \in Conns : \E u \in trips'[d] : Makes(u, q)
        <5>1. PICK d \in Conns : \E u \in trips'[d] : Makes(u, q)
          BY <4>2
        <5>2. PICK u \in trips'[d] : Makes(u, q)
          BY <5>1
        <5>3. u \in trips[d] /\ ~(d = c /\ u = t)
          BY <2>3, <5>2 DEF Makes
        <5>4. ~Makes(t, q)
          BY <5>2, <5>3 DEF TunnelOnce, OneCarrier
        <5> QED
          BY <2>1, <5>2, <5>3, <5>4 DEF Makes, Carried
      <4> QED
        BY <2>1, <3>1, <4>1, <4>2 DEF Carried, Carries, Makes
    <3>2. Carried(t.req)
      BY <2>1 DEF Carried, Makes
    <3>3. RunsBounded'
      <4> SUFFICES ASSUME NEW q \in Reqs
                   PROVE  /\ pc[q] \in Unsent => ~Carried(q)' /\ runs'[q] = 0
                          /\ Carried(q)' => runs'[q] <= Local(q)
                          /\ runs'[q] <= Local(q) + 1
        BY <1>2, <1>3 DEF RunsBounded, Unsent
      <4>1. /\ pc[q] \in Unsent => ~Carried(q) /\ runs[q] = 0
            /\ Carried(q) => runs[q] <= Local(q)
            /\ runs[q] <= Local(q) + 1
            /\ runs[q] \in Nat /\ Local(q) \in {0, 1}
        BY <1>1 DEF TunnelOnce, RunsBounded, Local
      <4>2. CASE q = t.req
        <5>1. runs'[q] = runs[q] + 1
          BY <1>1, <2>7, <4>2 DEF Run
        <5>2. ~Carried(q)' /\ Carried(q)
          BY <3>1, <3>2, <4>2
        <5> QED
          BY <4>1, <5>1, <5>2
      <4>3. CASE q # t.req
        <5>1. runs'[q] = runs[q]
          BY <1>1, <2>7, <4>3 DEF Run
        <5> QED
          BY <3>1, <4>1, <5>1
      <4> QED
        BY <4>2, <4>3
    <3>4. OneCarrier'
      BY <2>1, <2>3 DEF TunnelOnce, OneCarrier, Carries, Makes
    <3> QED
      BY <3>3, <3>4 DEF TunnelOnce
  <2> QED
    BY <2>1, <2>5, <2>6, <2>7
<1>7. ASSUME NEW c \in Conns, NEW t \in trips[c], NodeEnd(c, t)
      PROVE  TunnelOnce'
  <2>1. UNCHANGED <<up, runs>> /\ \A d \in Conns : trips'[d] \subseteq trips[d]
    BY <1>1, <1>7 DEF NodeEnd
  <2> QED
    BY <1>1, <1>2, <2>1, KeptWhenUnchanged, OnceKept
<1> QED
  BY <1>4, <1>5, <1>6, <1>7 DEF NodeNext

LEMMA OnceStep ==
  ASSUME TypeOK, TunnelOnce, [Next]_vars
  PROVE  TunnelOnce'
<1>1. up \in [Conns -> Seq(Frames)] /\ runs \in [Reqs -> Nat]
  BY DEF TypeOK, NodeTypeOK
<1>2. ASSUME NEW f \in opening, OpenedRes(f) \/ OpenedEnd(f)
      PROVE  TunnelOnce'
  <2>1. UNCHANGED <<up, trips, runs, pc>>
    BY <1>2 DEF OpenedRes, OpenedEnd, wireVars, nodeVars, reqVars
  <2> QED
    BY <1>1, <2>1, KeptWhenUnchanged, OnceKept
<1>3. CASE UNCHANGED vars
  <2>1. UNCHANGED <<up, trips, runs, pc>>
    BY <1>3 DEF vars, wireVars, nodeVars, clientVars, reqVars
  <2> QED
    BY <1>1, <2>1, KeptWhenUnchanged, OnceKept
<1> QED
  BY <1>2, <1>3, OnceConn, OnceReq, OnceNode DEF Next

LEMMA OnceAlways == Spec => []TunnelOnce
<1>1. Init => TunnelOnce
  <2> SUFFICES ASSUME Init
               PROVE  TunnelOnce
    OBVIOUS
  <2>1. /\ \A c \in Conns : Contents(up[c]) = {} /\ Len(up[c]) = 0 /\ trips[c] = {}
        /\ \A r \in Reqs : pc[r] = "new" /\ runs[r] = 0
    BY DEF Init, NodeInit, Contents
  <2>2. \A r \in Reqs : ~Carried(r) /\ Local(r) = 0
    BY <2>1 DEF Carried, Local
  <2> QED
    BY <2>1, <2>2 DEF TunnelOnce, RunsBounded, OneCarrier
<1> QED
  BY <1>1, OnceStep, Typing, PTL DEF Spec

\* The origin receives a request with a body at most once, even when the
\* worker has given up on a tunnel that is still at work on it.
THEOREM BodyOnceAlways == Spec => []BodyOnce
<1>1. TypeOK /\ TunnelOnce => BodyOnce
  <2> SUFFICES ASSUME TypeOK, TunnelOnce, NEW r \in Bodied
               PROVE  runs[r] <= 1
    BY DEF BodyOnce
  <2>1. r \in Reqs /\ Local(r) = 0
    BY BodiedAssumption DEF Local
  <2> QED
    BY <2>1 DEF TunnelOnce, RunsBounded
<1> QED
  BY <1>1, OnceAlways, Typing, PTL

-----------------------------------------------------------------------------
\* A response exists only for a request the origin received.

LEMMA RunAdds ==
  ASSUME runs \in [Reqs -> Nat], NEW r \in Reqs, Run(r)
  PROVE  runs'[r] = runs[r] + 1 /\ runs'[r] > 0
<1>1. runs[r] \in Nat
  OBVIOUS
<1>2. runs'[r] = runs[r] + 1
  BY DEF Run
<1> QED
  BY <1>1, <1>2

\* Earned, of a value of the next state.
EarnedThen(b) == b \in Reqs => runs'[b] > 0

LEMMA EarnedGrows ==
  ASSUME NEW b, Earned(b), runs \in [Reqs -> Nat],
         runs' = runs \/ \E r : Run(r)
  PROVE  EarnedThen(b)
<1>1. CASE runs' = runs
  BY <1>1 DEF Earned, EarnedThen
<1>2. CASE \E r : Run(r)
  <2>1. ASSUME b \in Reqs
        PROVE  runs'[b] > 0
    <3>1. runs[b] \in Nat /\ runs[b] > 0
      BY <2>1 DEF Earned
    <3>2. runs'[b] = runs[b] \/ runs'[b] = runs[b] + 1
      BY <1>2, <2>1 DEF Run
    <3> QED
      BY <3>1, <3>2
  <2> QED
    BY <2>1 DEF EarnedThen
<1> QED
  BY <1>1, <1>2

\* It is enough to show that what is new is earned.
LEMMA EarnedKept ==
  ASSUME TypeOK, ResponsesEarned, runs' = runs \/ \E r : Run(r),
         \A c \in Conns : \A f \in Contents(down'[c]) :
           f \in Contents(down[c]) \/ (f.type = RES => EarnedThen(f.body)),
         \A f \in opening' :
           f \in opening \/ \E c \in Conns : f \in Contents(down[c]),
         \A p \in pending' : p \in pending \/ EarnedThen(p.res),
         \A r \in Reqs : out'[r] = out[r] \/ EarnedThen(out'[r]),
         \A r \in Reqs : ans'[r] = ans[r] \/ EarnedThen(ans'[r])
  PROVE  ResponsesEarned'
<1>1. runs \in [Reqs -> Nat]
  BY DEF TypeOK, NodeTypeOK
<1>2. \A b : Earned(b) => EarnedThen(b)
  BY <1>1, EarnedGrows
<1>3. \A c \in Conns : \A f \in Contents(down'[c]) :
        f.type = RES => EarnedThen(f.body)
  BY <1>2 DEF ResponsesEarned
<1>4. \A f \in opening' : f.type = RES => EarnedThen(f.body)
  BY <1>2 DEF ResponsesEarned
<1>5. \A p \in pending' : EarnedThen(p.res)
  BY <1>2 DEF ResponsesEarned
<1>6. \A r \in Reqs : EarnedThen(out'[r]) /\ EarnedThen(ans'[r])
  BY <1>2 DEF ResponsesEarned
<1> QED
  BY <1>3, <1>4, <1>5, <1>6 DEF ResponsesEarned, Earned, EarnedThen

LEMMA EarnedStep ==
  ASSUME TypeOK, StreamIdentity, TunnelOnce, ResponsesEarned, [Next]_vars
  PROVE  ResponsesEarned'
<1> USE DEF wireVars, nodeVars, clientVars, tunnelVars, reqVars
<1>1. /\ runs \in [Reqs -> Nat] /\ pending \in SUBSET Entries
      /\ out \in [Reqs -> Bodies \cup {"none", "null", "empty"}]
      /\ ans \in [Reqs -> Reqs \cup {"none", "bad gateway"}]
      /\ down \in [Conns -> Seq(Frames)] /\ trips \in [Conns -> SUBSET Trips]
  BY DEF TypeOK, NodeTypeOK
<1>2. \A b : Earned(b) /\ (runs' = runs \/ \E r : Run(r)) => EarnedThen(b)
  BY <1>1, EarnedGrows
<1>3. ASSUME NEW v, v \notin Reqs
      PROVE  EarnedThen(v)
  BY <1>3 DEF EarnedThen
<1>4. ASSUME NEW c \in Conns, ConnNext(c)
      PROVE  ResponsesEarned'
  <2>1. /\ UNCHANGED <<runs, pending, out, ans>>
        /\ \A d \in Conns : Contents(down'[d]) \subseteq Contents(down[d])
        /\ opening' \subseteq opening \cup Contents(down[c])
    BY <1>4, ConnFrames
  <2> QED
    BY <2>1, EarnedKept
<1>5. ASSUME NEW f \in opening, OpenedRes(f)
      PROVE  ResponsesEarned'
  <2>1. UNCHANGED <<runs, down, out, ans>> /\ opening' \subseteq opening
    BY <1>5 DEF OpenedRes
  <2>2. Earned(f.body)
    BY <1>5 DEF OpenedRes, ResponsesEarned
  <2>3. ASSUME NEW e \in pending'
        PROVE  e \in pending \/ e.res = f.body
    BY <1>1, <1>5 DEF OpenedRes, Entries
  <2>4. EarnedThen(f.body)
    BY <1>2, <2>1, <2>2
  <2> QED
    BY <2>1, <2>3, <2>4, EarnedKept
<1>6. ASSUME NEW f \in opening, OpenedEnd(f)
      PROVE  ResponsesEarned'
  <2>1. /\ UNCHANGED <<runs, down, ans>> /\ opening' \subseteq opening
        /\ pending' \subseteq pending
    BY <1>6 DEF OpenedEnd, Without
  <2>2. \A r \in Reqs : out'[r] = out[r] \/ EarnedThen(out'[r])
    <3>1. CASE out' = out
      BY <3>1
    <3>2. CASE \E p \in pending :
                 Resolve(p.req, IF p.res = "none" THEN "empty" ELSE p.res)
      <4>1. PICK p \in pending :
              Resolve(p.req, IF p.res = "none" THEN "empty" ELSE p.res)
        BY <3>2
      <4>2. EarnedThen(p.res)
        BY <1>2, <2>1 DEF ResponsesEarned
      <4>3. EarnedThen("empty")
        BY <1>3, TokensAssumption
      <4> QED
        BY <1>1, <4>1, <4>2, <4>3 DEF Resolve
    <3> QED
      BY <1>6, <3>1, <3>2 DEF OpenedEnd
  <2> QED
    BY <2>1, <2>2, EarnedKept
<1>7. ASSUME NEW r \in Reqs, ReqNext(r)
      PROVE  ResponsesEarned'
  <2>1. UNCHANGED <<down, opening>>
    BY <1>7 DEF ReqNext, ProxyFetch, BodyRead, TunnelFetch, SealedConnect,
                SealedReq, TimerFires, Resume, LocalFetch
  <2>2. CASE ProxyFetch(r) \/ BodyRead(r)
    <3>1. UNCHANGED <<runs, out, ans>>
      BY <2>2 DEF ProxyFetch, BodyRead
    <3>2. pending' \subseteq
            pending \cup {[sid |-> nextSid, req |-> r, res |-> "none"]}
      BY <2>2 DEF ProxyFetch, BodyRead, TunnelFetch, Without
    <3>3. EarnedThen("none")
      BY <1>3, TokensAssumption
    <3> QED
      BY <2>1, <3>1, <3>2, <3>3, EarnedKept
  <2>3. CASE SealedConnect(r) \/ SealedReq(r)
    <3>1. UNCHANGED <<runs, pending, out, ans>>
      BY <2>3 DEF SealedConnect, SealedReq
    <3> QED
      BY <2>1, <3>1, EarnedKept
  <2>4. CASE TimerFires(r)
    <3>1. UNCHANGED <<runs, ans>> /\ pending' \subseteq pending
      BY <2>4 DEF TimerFires, Without
    <3>2. EarnedThen("null")
      BY <1>3, TokensAssumption
    <3>3. \A q \in Reqs : out'[q] = out[q] \/ out'[q] = "null"
      BY <1>1, <2>4 DEF TimerFires, Resolve
    <3> QED
      BY <2>1, <3>1, <3>2, <3>3, EarnedKept
  <2>5. CASE Resume(r)
    <3>1. UNCHANGED <<runs, pending, out>>
      BY <2>5 DEF Resume
    <3>2. EarnedThen(out[r])
      BY <1>2, <3>1 DEF ResponsesEarned
    <3>3. \A q \in Reqs : ans'[q] = ans[q] \/ ans'[q] = out[r]
      BY <1>1, <2>5 DEF Resume, Answer
    <3> QED
      BY <2>1, <3>1, <3>2, <3>3, EarnedKept
  <2>6. CASE LocalFetch(r)
    <3>1. UNCHANGED <<pending, out>> /\ (runs' = runs \/ Run(r))
      BY <2>6 DEF LocalFetch
    <3>2. EarnedThen("bad gateway")
      BY <1>3, TokensAssumption
    <3>3. CASE Run(r) /\ Answer(r, r)
      <4>1. runs'[r] > 0
        BY <1>1, <3>3, RunAdds
      <4>2. EarnedThen(r)
        BY <4>1 DEF EarnedThen
      <4>3. \A q \in Reqs : ans'[q] = ans[q] \/ ans'[q] = r
        BY <1>1, <3>3 DEF Answer
      <4> QED
        BY <2>1, <3>1, <4>2, <4>3, EarnedKept
    <3>4. CASE Answer(r, "bad gateway")
      <4>1. \A q \in Reqs : ans'[q] = ans[q] \/ ans'[q] = "bad gateway"
        BY <1>1, <3>4 DEF Answer
      <4> QED
        BY <2>1, <3>1, <3>2, <4>1, EarnedKept
    <3> QED
      BY <2>6, <3>3, <3>4 DEF LocalFetch
  <2> QED
    BY <1>7, <2>2, <2>3, <2>4, <2>5, <2>6 DEF ReqNext
<1>8. ASSUME NodeNext, UNCHANGED clientVars
      PROVE  ResponsesEarned'
  <2>1. UNCHANGED <<opening, pending, out, ans>>
    BY <1>8
  <2>2. ASSUME NEW c \in Conns, NEW f \in Frames, NodeSend(c, f),
               f.type = RES => EarnedThen(f.body),
               runs' = runs \/ \E r : Run(r)
        PROVE  ResponsesEarned'
    <3>1. \A d \in Conns : Contents(down'[d]) \subseteq Contents(down[d]) \cup {f}
      BY <1>1, <2>2, NodeSendContents
    <3> QED
      BY <2>1, <2>2, <3>1, EarnedKept
  <2>3. ASSUME NEW c \in Conns, NodeHello(c)
        PROVE  ResponsesEarned'
    <3>1. HelloFrame \in Frames /\ HelloFrame.type # RES
      BY HelloFrameType DEF Hello, RES
    <3> QED
      BY <2>2, <2>3, <3>1 DEF NodeHello
  <2>4. ASSUME NEW c \in Conns, NodeDrop(c) \/ NodeConnect(c) \/ NodeReq(c)
        PROVE  ResponsesEarned'
    <3>1. UNCHANGED <<down, runs>>
      BY <2>4 DEF NodeDrop, NodeConnect, NodeReq
    <3> QED
      BY <2>1, <3>1, EarnedKept
  <2>5. ASSUME NEW c \in Conns, NEW t \in trips[c], NodeRoundtrip(c, t)
        PROVE  ResponsesEarned'
    <3>1. t.req \in Reqs /\ t.sid \in Nat
      BY <1>1, TripFields DEF StreamIdentity, FramesLabelled
    <3>2. CASE UNCHANGED down
      BY <2>1, <2>5, <3>2, EarnedKept DEF NodeRoundtrip
    <3>3. ASSUME NEW b \in {t.req, "junk"}, Run(t.req),
                 NodeSend(c, Frame(RES, t.sid, c, b))
          PROVE  ResponsesEarned'
      <4> DEFINE f == Frame(RES, t.sid, c, b)
      <4>1. b \in Bodies
        BY <3>1 DEF Bodies
      <4>2. f \in Frames /\ f.body = b
        BY <3>1, <4>1, FrameType DEF FrameTypes
      <4>3. runs'[t.req] > 0
        <5>1. t.req \in Reqs
          BY <3>1
        <5> QED
          BY <1>1, <3>3, <5>1, RunAdds
      <4>4. EarnedThen(b)
        BY <1>3, <4>3, TokensAssumption DEF EarnedThen
      <4> HIDE DEF f
      <4> QED
        BY <2>2, <3>3, <4>2, <4>4 DEF f
    <3> QED
      BY <2>5, <3>2, <3>3 DEF NodeRoundtrip
  <2>6. ASSUME NEW c \in Conns, NEW t \in trips[c], NodeEnd(c, t)
        PROVE  ResponsesEarned'
    <3> DEFINE f == Frame(END, t.sid, c, "none")
    <3>1. t.sid \in Nat
      BY <1>1, TripFields
    <3>2. f \in Frames /\ f.type = END
      BY <3>1, FrameType DEF FrameTypes
    <3>3. f.type # RES
      BY <3>2 DEF END, RES
    <3>4. NodeSend(c, f) /\ runs' = runs
      BY <2>6 DEF NodeEnd
    <3> QED
      BY <2>2, <3>2, <3>3, <3>4
  <2> QED
    BY <1>8, <2>3, <2>4, <2>5, <2>6 DEF NodeNext
<1>9. CASE UNCHANGED vars
  BY <1>9, EarnedKept DEF vars
<1> QED
  BY <1>4, <1>5, <1>6, <1>7, <1>8, <1>9 DEF Next

LEMMA EarnedAlways == Spec => []ResponsesEarned
<1>1. Init => ResponsesEarned
  <2> SUFFICES ASSUME Init
               PROVE  ResponsesEarned
    OBVIOUS
  <2>1. /\ \A c \in Conns : Contents(down[c]) = {}
        /\ opening = {} /\ pending = {}
        /\ \A r \in Reqs : out[r] = "none" /\ ans[r] = "none"
    BY DEF Init, NodeInit, Contents
  <2>2. Earned("none")
    BY TokensAssumption DEF Earned
  <2> QED
    BY <2>1, <2>2 DEF ResponsesEarned
<1> QED
  BY <1>1, EarnedStep, Typing, IdentityAlways, OnceAlways, PTL DEF Spec

-----------------------------------------------------------------------------
\* Whoever waits for the tunnel will be settled.

\* A request that neither moves, loses its entry nor its timer, nor forgets
\* what it was resolved with is as well off as before.
LEMMA WaiterKept ==
  ASSUME NoOrphan, NEW r \in Reqs, pc'[r] = pc[r], sidOf'[r] = sidOf[r],
         timer'[r] = timer[r], out'[r] = out[r] \/ out'[r] # "none",
         \A p \in pending : p.sid = sidOf[r] /\ p.req = r
           => \E e \in pending' : e.sid = p.sid /\ e.req = p.req
  PROVE  (pc'[r] \in {"seal CONNECT", "seal REQ", "wait"} /\ out'[r] = "none")
           => /\ timer'[r]
              /\ \E p \in pending' : p.sid = sidOf'[r] /\ p.req = r
<1> SUFFICES ASSUME pc'[r] \in {"seal CONNECT", "seal REQ", "wait"},
                    out'[r] = "none"
             PROVE  /\ timer'[r]
                    /\ \E p \in pending' : p.sid = sidOf'[r] /\ p.req = r
  OBVIOUS
<1>1. timer[r] /\ \E p \in pending : p.sid = sidOf[r] /\ p.req = r
  BY DEF NoOrphan
<1>2. PICK p \in pending : p.sid = sidOf[r] /\ p.req = r
  BY <1>1
<1>3. PICK e \in pending' : e.sid = p.sid /\ e.req = p.req
  BY <1>2
<1> QED
  BY <1>1, <1>2, <1>3

LEMMA WaitersOpened ==
  ASSUME TypeOK, StreamIdentity, NoOrphan, NEW f \in opening,
         OpenedRes(f) \/ OpenedEnd(f)
  PROVE  NoOrphan'
<1> SUFFICES ASSUME NEW r \in Reqs
             PROVE  (pc'[r] \in {"seal CONNECT", "seal REQ", "wait"}
                       /\ out'[r] = "none")
                      => /\ timer'[r]
                         /\ \E p \in pending' : p.sid = sidOf'[r] /\ p.req = r
  BY DEF NoOrphan
<1>1. pc' = pc /\ sidOf' = sidOf /\ timer' = timer
  BY DEF OpenedRes, OpenedEnd, reqVars
<1>2. out \in [Reqs -> Bodies \cup {"none", "null", "empty"}]
  BY DEF TypeOK
<1>3. CASE OpenedRes(f)
  <2>1. out' = out
    BY <1>3 DEF OpenedRes, reqVars
  <2>2. ASSUME NEW p \in pending
        PROVE  \E e \in pending' : e.sid = p.sid /\ e.req = p.req
    <3> DEFINE e == IF p.sid = f.sid THEN [p EXCEPT !.res = f.body] ELSE p
    <3>1. e \in pending'
      BY <1>3 DEF OpenedRes
    <3>2. e.sid = p.sid /\ e.req = p.req
      BY DEF TypeOK, Entries
    <3> QED
      BY <3>1, <3>2
  <2> QED
    BY <1>1, <2>1, <2>2, WaiterKept
<1>4. CASE OpenedEnd(f) /\ ~\E p \in pending : p.sid = f.sid
  BY <1>1, <1>4, WaiterKept DEF OpenedEnd
<1>5. CASE OpenedEnd(f) /\ \E p \in pending : p.sid = f.sid
  <2>1. PICK p \in pending :
          /\ p.sid = f.sid
          /\ pending' = Without(f.sid)
          /\ Resolve(p.req, IF p.res = "none" THEN "empty" ELSE p.res)
    BY <1>5 DEF OpenedEnd
  <2>2. p.req \in Reqs /\ p.sid = sidOf[p.req] /\ p.sid # 0
    BY DEF TypeOK, Entries, StreamIdentity, EntriesOwned
  <2>3. CASE r = p.req
    <3>1. out'[r] # "none"
      BY <1>2, <2>1, <2>2, <2>3 DEF Resolve
    <3> QED
      BY <3>1
  <2>4. CASE r # p.req
    <3>1. out'[r] = out[r]
      BY <1>2, <2>1, <2>2, <2>4 DEF Resolve
    <3>2. sidOf[r] # f.sid
      BY <2>1, <2>2, <2>4 DEF StreamIdentity, SidsUnique
    <3>3. \A e \in pending : e.sid = sidOf[r] => e \in pending'
      BY <2>1, <3>2 DEF Without
    <3> QED
      BY <1>1, <3>1, <3>3, WaiterKept
  <2> QED
    BY <2>3, <2>4
<1> QED
  BY <1>3, <1>4, <1>5

LEMMA WaitersReq ==
  ASSUME TypeOK, StreamIdentity, NoOrphan, NEW q \in Reqs, ReqNext(q)
  PROVE  NoOrphan'
<1> SUFFICES ASSUME NEW r \in Reqs
             PROVE  (pc'[r] \in {"seal CONNECT", "seal REQ", "wait"}
                       /\ out'[r] = "none")
                      => /\ timer'[r]
                         /\ \E p \in pending' : p.sid = sidOf'[r] /\ p.req = r
  BY DEF NoOrphan
<1>1. /\ pc \in [Reqs -> ReqStates] /\ sidOf \in [Reqs -> Nat]
      /\ timer \in [Reqs -> BOOLEAN]
      /\ out \in [Reqs -> Bodies \cup {"none", "null", "empty"}]
  BY DEF TypeOK
<1>2. CASE TunnelFetch(q) /\ out' = out
  <2>1. CASE tunnelWs = "none" \/ sock[tunnelWs] # "open"
    <3>1. Goto(q, "local") /\ UNCHANGED <<pending, sidOf, timer>>
      BY <1>2, <2>1 DEF TunnelFetch
    <3> QED
      BY <1>1, <1>2, <3>1, WaiterKept DEF Goto
  <2>2. CASE ~(tunnelWs = "none" \/ sock[tunnelWs] # "open")
    <3>1. /\ Goto(q, "seal CONNECT")
          /\ sidOf' = [sidOf EXCEPT ![q] = nextSid]
          /\ pending' = Without(nextSid) \cup
                          {[sid |-> nextSid, req |-> q, res |-> "none"]}
          /\ timer' = [timer EXCEPT ![q] = TRUE]
      BY <1>2, <2>2 DEF TunnelFetch
    <3>2. CASE r = q
      <4> DEFINE e == [sid |-> nextSid, req |-> q, res |-> "none"]
      <4>1. timer'[r] /\ sidOf'[r] = nextSid
        BY <1>1, <3>1, <3>2
      <4>2. e \in pending' /\ e.sid = nextSid /\ e.req = r
        BY <3>1, <3>2
      <4> HIDE DEF e
      <4> QED
        BY <4>1, <4>2
    <3>3. CASE r # q
      <4>1. pc'[r] = pc[r] /\ sidOf'[r] = sidOf[r] /\ timer'[r] = timer[r]
        BY <1>1, <3>1, <3>3 DEF Goto
      <4>2. sidOf[r] # nextSid
        <5>1. sidOf[r] < nextSid /\ nextSid \in Nat
          BY DEF StreamIdentity, SidsUnique, TypeOK
        <5> QED
          BY <1>1, <5>1
      <4>3. \A e \in pending : e.sid = sidOf[r] => e \in pending'
        BY <3>1, <4>2 DEF Without
      <4> QED
        BY <1>2, <4>1, <4>3, WaiterKept
    <3> QED
      BY <3>2, <3>3
  <2> QED
    BY <2>1, <2>2
<1>3. CASE ProxyFetch(q) \/ BodyRead(q)
  <2>1. out' = out
    BY <1>3 DEF ProxyFetch, BodyRead
  <2>2. CASE ~TunnelFetch(q)
    <3>1. Goto(q, "body") /\ UNCHANGED <<pending, sidOf, timer>>
      BY <1>3, <2>2 DEF ProxyFetch, BodyRead
    <3> QED
      BY <1>1, <2>1, <3>1, WaiterKept DEF Goto
  <2> QED
    BY <1>2, <2>1, <2>2
<1>4. CASE SealedConnect(q) \/ SealedReq(q)
  <2>1. /\ pc[q] \in {"seal CONNECT", "seal REQ"}
        /\ \E s : Goto(q, s)
        /\ UNCHANGED <<pending, sidOf, timer, out>>
    BY <1>4 DEF SealedConnect, SealedReq, tunnelVars
  <2>2. pc'[r] = pc[r] \/ r = q
    BY <1>1, <2>1 DEF Goto
  <2> QED
    BY <2>1, <2>2 DEF NoOrphan
<1>5. CASE TimerFires(q)
  <2>1. UNCHANGED <<pc, sidOf>> /\ timer' = [timer EXCEPT ![q] = FALSE]
    BY <1>5 DEF TimerFires
  <2>2. CASE ~\E p \in pending : p.sid = sidOf[q]
    <3>1. UNCHANGED <<pending, out>>
      BY <1>5, <2>2 DEF TimerFires
    <3>2. CASE r = q
      BY <2>1, <2>2, <3>1, <3>2 DEF NoOrphan
    <3>3. CASE r # q
      BY <1>1, <2>1, <3>1, <3>3, WaiterKept
    <3> QED
      BY <3>2, <3>3
  <2>3. CASE \E p \in pending : p.sid = sidOf[q]
    <3>1. pending' = Without(sidOf[q]) /\ Resolve(q, "null")
      BY <1>5, <2>3 DEF TimerFires
    <3>2. CASE r = q
      <4>1. out'[r] # "none"
        BY <1>1, <3>1, <3>2 DEF Resolve
      <4> QED
        BY <4>1
    <3>3. CASE r # q
      <4>1. out'[r] = out[r] /\ timer'[r] = timer[r]
        BY <1>1, <2>1, <3>1, <3>3 DEF Resolve
      <4>2. sidOf[q] # 0
        BY <2>3 DEF StreamIdentity, EntriesOwned
      <4>3. sidOf[r] # sidOf[q]
        BY <3>3, <4>2 DEF StreamIdentity, SidsUnique
      <4>4. \A e \in pending : e.sid = sidOf[r] => e \in pending'
        BY <3>1, <4>3 DEF Without
      <4> QED
        BY <2>1, <4>1, <4>4, WaiterKept
    <3> QED
      BY <3>2, <3>3
  <2> QED
    BY <2>2, <2>3
<1>6. CASE Resume(q) \/ LocalFetch(q)
  <2>1. /\ \E s \in {"local", "done"} : Goto(q, s)
        /\ UNCHANGED <<pending, sidOf, timer, out>>
    BY <1>6 DEF Resume, LocalFetch, Answer, tunnelVars
  <2>2. pc'[r] = pc[r] \/ pc'[r] \in {"local", "done"}
    BY <1>1, <2>1 DEF Goto
  <2> QED
    BY <2>1, <2>2 DEF NoOrphan
<1> QED
  BY <1>3, <1>4, <1>5, <1>6 DEF ReqNext

LEMMA WaitersStep ==
  ASSUME TypeOK, StreamIdentity, NoOrphan, [Next]_vars
  PROVE  NoOrphan'
<1>1. CASE UNCHANGED <<pending, reqVars>>
  BY <1>1 DEF NoOrphan, reqVars
<1>2. ASSUME NEW c \in Conns, ConnNext(c)
      PROVE  NoOrphan'
  BY <1>1, <1>2, ConnFrames
<1>3. CASE UNCHANGED clientVars
  BY <1>1, <1>3 DEF clientVars, tunnelVars
<1> QED
  BY <1>2, <1>3, WaitersOpened, WaitersReq DEF Next, vars

\* No order of messages, closes, reconnects and timers leaves a request that
\* waits for the tunnel without the entry and the timer that will settle it.
THEOREM NoOrphanAlways == Spec => []NoOrphan
<1>1. Init => NoOrphan
  BY DEF Init, NoOrphan
<1> QED
  BY <1>1, WaitersStep, Typing, IdentityAlways, PTL DEF Spec

-----------------------------------------------------------------------------
\* A stream is asked for once, served once and ended once.

\* A step that sends no REQ and no END, starts no round trip and takes no sid
\* from a request that was handed over.
LEMMA ServedKept ==
  ASSUME ServedOnce,
         \A c \in Conns : \A t \in trips'[c] :
           \E u \in trips[c] : u.sid = t.sid /\ u.req = t.req,
         \A c, d \in Conns : \A t \in trips'[c], u \in trips'[d] :
           t.sid = u.sid => c = d /\ t = u,
         \A c \in Conns : \A f \in Contents(up'[c]) :
           f.type = REQ => f \in Contents(up[c]),
         \A c \in Conns : \A f \in Contents(down'[c]) :
           f.type = END => f \in Contents(down[c]),
         \A c \in Conns : \A t \in trips[c] : t.req \in Reqs,
         \A q \in Reqs : pc[q] \notin Unsent
           => pc'[q] \notin Unsent /\ sidOf'[q] = sidOf[q]
  PROVE  ServedOnce'
<1> SUFFICES ASSUME NEW c \in Conns, NEW d \in Conns
    PROVE
    /\ \A t \in trips'[c] : pc'[t.req] \notin Unsent
    /\ \A f \in Contents(down'[c]) : f.type = END =>
         \E r \in Reqs : f.sid = sidOf'[r] /\ f.sid # 0 /\ pc'[r] \notin Unsent
    /\ \A f \in Contents(up'[c]) : f.type = REQ =>
         /\ \A t \in trips'[d] : t.sid # f.sid
         /\ \A g \in Contents(down'[d]) : g.type = END => g.sid # f.sid
    /\ \A t \in trips'[c] :
         /\ \A u \in trips'[d] : t.sid = u.sid => c = d /\ t = u
         /\ \A g \in Contents(down'[d]) : g.type = END => g.sid # t.sid
  BY DEF ServedOnce, Unsent
<1>1. /\ \A t \in trips[c] : pc[t.req] \notin Unsent
      /\ \A f \in Contents(down[c]) : f.type = END =>
           \E r \in Reqs : f.sid = sidOf[r] /\ f.sid # 0 /\ pc[r] \notin Unsent
      /\ \A f \in Contents(up[c]) : f.type = REQ =>
           /\ \A t \in trips[d] : t.sid # f.sid
           /\ \A g \in Contents(down[d]) : g.type = END => g.sid # f.sid
      /\ \A t \in trips[c] :
           \A g \in Contents(down[d]) : g.type = END => g.sid # t.sid
  BY DEF ServedOnce
<1>2. \A t \in trips'[c] : pc'[t.req] \notin Unsent
  BY <1>1
<1>3. \A f \in Contents(down'[c]) : f.type = END =>
         \E r \in Reqs : f.sid = sidOf'[r] /\ f.sid # 0 /\ pc'[r] \notin Unsent
  BY <1>1
<1>4. \A f \in Contents(up'[c]) : f.type = REQ =>
         /\ \A t \in trips'[d] : t.sid # f.sid
         /\ \A g \in Contents(down'[d]) : g.type = END => g.sid # f.sid
  BY <1>1
<1>5. \A t \in trips'[c] :
         /\ \A u \in trips'[d] : t.sid = u.sid => c = d /\ t = u
         /\ \A g \in Contents(down'[d]) : g.type = END => g.sid # t.sid
  BY <1>1
<1> QED
  BY <1>2, <1>3, <1>4, <1>5

LEMMA TripsNamed ==
  ASSUME StreamIdentity, NEW c \in Conns, NEW t \in trips[c]
  PROVE  t.req \in Reqs /\ t.sid = sidOf[t.req] /\ t.sid # 0
BY DEF StreamIdentity, FramesLabelled

LEMMA ServedConn ==
  ASSUME TypeOK, StreamIdentity, ServedOnce, NEW c \in Conns, ConnNext(c)
  PROVE  ServedOnce'
<1>1. /\ UNCHANGED <<trips, pc, sidOf>>
      /\ \A d \in Conns :
           /\ Contents(up'[d]) \subseteq Contents(up[d]) \cup {HelloFrame}
           /\ Contents(down'[d]) \subseteq Contents(down[d])
  BY ConnFrames DEF reqVars
<1>2. HelloFrame.type # REQ
  BY HelloFrameType DEF Hello, REQ
<1>3. \A e, d \in Conns : \A t \in trips[e], u \in trips[d] :
        t.sid = u.sid => e = d /\ t = u
  BY DEF ServedOnce
<1> QED
  BY <1>1, <1>2, <1>3, TripsNamed, ServedKept

\* A step that leaves the wire and the node alone.
LEMMA ServedAside ==
  ASSUME StreamIdentity, ServedOnce, UNCHANGED <<trips, up, down>>,
         \A q \in Reqs : pc[q] \notin Unsent
           => pc'[q] \notin Unsent /\ sidOf'[q] = sidOf[q]
  PROVE  ServedOnce'
<1>1. \A e, d \in Conns : \A t \in trips[e], u \in trips[d] :
        t.sid = u.sid => e = d /\ t = u
  BY DEF ServedOnce
<1> QED
  BY <1>1, TripsNamed, ServedKept

LEMMA ServedReq ==
  ASSUME TypeOK, StreamIdentity, ServedOnce, NEW r \in Reqs, ReqNext(r)
  PROVE  ServedOnce'
<1> USE DEF wireVars, nodeVars, tunnelVars
<1>1. pc \in [Reqs -> ReqStates] /\ sidOf \in [Reqs -> Nat]
  BY DEF TypeOK
<1>2. UNCHANGED <<trips, down>>
  BY DEF ReqNext, ProxyFetch, BodyRead, SealedConnect, SealedReq, TimerFires,
         Resume, LocalFetch
<1>3. \A e, d \in Conns : \A t \in trips[e], u \in trips[d] :
        t.sid = u.sid => e = d /\ t = u
  BY DEF ServedOnce
<1>4. CASE ProxyFetch(r) \/ BodyRead(r)
  <2>1. pc[r] \in {"new", "body"} /\ UNCHANGED up
    BY <1>4 DEF ProxyFetch, BodyRead
  <2>2. /\ \E s : Goto(r, s)
        /\ sidOf' = sidOf \/ sidOf' = [sidOf EXCEPT ![r] = nextSid]
    BY <1>4 DEF ProxyFetch, BodyRead, TunnelFetch
  <2>3. \A q \in Reqs \ {r} : pc'[q] = pc[q] /\ sidOf'[q] = sidOf[q]
    BY <1>1, <2>2 DEF Goto
  <2> QED
    BY <1>2, <2>1, <2>3, ServedAside DEF Unsent
<1>5. CASE SealedConnect(r)
  <2> DEFINE g == Frame(CONNECT, sidOf[r], cap[r], "none")
  <2>1. /\ pc[r] = "seal CONNECT" /\ \E s : Goto(r, s)
        /\ sidOf' = sidOf
    BY <1>5 DEF SealedConnect
  <2>2. \A q \in Reqs : pc[q] \notin Unsent
          => pc'[q] \notin Unsent /\ sidOf'[q] = sidOf[q]
    BY <1>1, <2>1 DEF Unsent, Goto
  <2>3. CASE up' = up
    BY <1>2, <2>2, <2>3, ServedAside
  <2>4. CASE up' # up
    <3>1. tunnelWs # "none" /\ SocketSend(g)
      BY <1>5, <2>4 DEF SealedConnect
    <3>2. g \in Frames /\ g.type # REQ
      BY ConnectFrame DEF CONNECT, REQ
    <3>3. \A d \in Conns : Contents(up'[d]) \subseteq Contents(up[d]) \cup {g}
      BY <3>1, <3>2, SocketSendContents
    <3> HIDE DEF g
    <3> QED
      BY <1>2, <1>3, <2>2, <3>2, <3>3, TripsNamed, ServedKept
  <2> QED
    BY <2>3, <2>4
<1>6. CASE SealedReq(r)
  <2> DEFINE g == Frame(REQ, sidOf[r], cap[r], r)
  <2>1. /\ pc[r] = "seal REQ" /\ \E s \in {"local", "wait"} : Goto(r, s)
        /\ sidOf' = sidOf
    BY <1>6 DEF SealedReq
  <2>2. \A q \in Reqs : pc[q] \notin Unsent
          => pc'[q] \notin Unsent /\ sidOf'[q] = sidOf[q]
    BY <1>1, <2>1 DEF Unsent, Goto
  <2>3. CASE up' = up
    BY <1>2, <2>2, <2>3, ServedAside
  <2>4. CASE up' # up
    <3>1. tunnelWs # "none" /\ SocketSend(g)
      BY <1>6, <2>4 DEF SealedReq
    <3>2. g \in Frames /\ g.sid = sidOf[r]
      BY ReqFrame
    <3>3. \A d \in Conns : Contents(up'[d]) \subseteq Contents(up[d]) \cup {g}
      BY <3>1, <3>2, SocketSendContents
    <3>4. pc[r] \in Unsent /\ sidOf[r] # 0
      BY <2>1 DEF Unsent, StreamIdentity, SidsUnique
    <3>5. \A q \in Reqs : pc[q] \notin Unsent => sidOf[q] # sidOf[r]
      BY <3>4 DEF StreamIdentity, SidsUnique
    <3> HIDE DEF g
    <3>6. \A d \in Conns :
            /\ \A t \in trips[d] : t.sid # g.sid
            /\ \A h \in Contents(down[d]) : h.type = END => h.sid # g.sid
      BY <3>2, <3>5, TripsNamed DEF ServedOnce
    <3>7. \A c, d \in Conns : \A f \in Contents(up'[c]) : f.type = REQ =>
            /\ \A t \in trips[d] : t.sid # f.sid
            /\ \A h \in Contents(down[d]) : h.type = END => h.sid # f.sid
      BY <3>3, <3>6 DEF ServedOnce
    <3>8. ASSUME NEW x \in Conns, NEW y \in Conns
          PROVE
          /\ \A t \in trips[x] : pc'[t.req] \notin Unsent
          /\ \A f \in Contents(down[x]) : f.type = END =>
               \E q \in Reqs : f.sid = sidOf'[q] /\ f.sid # 0
                               /\ pc'[q] \notin Unsent
          /\ \A t \in trips[x] :
               /\ \A u \in trips[y] : t.sid = u.sid => x = y /\ t = u
               /\ \A h \in Contents(down[y]) : h.type = END => h.sid # t.sid
      <4>1. /\ \A t \in trips[x] : pc[t.req] \notin Unsent
            /\ \A f \in Contents(down[x]) : f.type = END =>
                 \E q \in Reqs : f.sid = sidOf[q] /\ f.sid # 0
                                 /\ pc[q] \notin Unsent
            /\ \A t \in trips[x] :
                 /\ \A u \in trips[y] : t.sid = u.sid => x = y /\ t = u
                 /\ \A h \in Contents(down[y]) : h.type = END => h.sid # t.sid
        BY DEF ServedOnce
      <4> QED
        BY <2>2, <4>1, TripsNamed
    <3> QED
      <4> SUFFICES ASSUME NEW x \in Conns, NEW y \in Conns
          PROVE
          /\ \A t \in trips'[x] : pc'[t.req] \notin Unsent
          /\ \A f \in Contents(down'[x]) : f.type = END =>
               \E q \in Reqs : f.sid = sidOf'[q] /\ f.sid # 0
                               /\ pc'[q] \notin Unsent
          /\ \A f \in Contents(up'[x]) : f.type = REQ =>
               /\ \A t \in trips'[y] : t.sid # f.sid
               /\ \A h \in Contents(down'[y]) : h.type = END => h.sid # f.sid
          /\ \A t \in trips'[x] :
               /\ \A u \in trips'[y] : t.sid = u.sid => x = y /\ t = u
               /\ \A h \in Contents(down'[y]) : h.type = END => h.sid # t.sid
        BY DEF ServedOnce, Unsent
      <4> QED
        BY <1>2, <3>7, <3>8
  <2> QED
    BY <2>3, <2>4
<1>7. CASE TimerFires(r)
  BY <1>2, <1>7, ServedAside DEF TimerFires
<1>8. CASE Resume(r) \/ LocalFetch(r)
  <2>1. \E s \in {"local", "done"} : Goto(r, s)
    BY <1>8 DEF Resume, LocalFetch, Answer
  <2>2. \A q \in Reqs : pc[q] \notin Unsent => pc'[q] \notin Unsent
    BY <1>1, <2>1 DEF Unsent, Goto
  <2> QED
    BY <1>2, <1>8, <2>2, ServedAside DEF Resume, LocalFetch
<1> QED
  BY <1>4, <1>5, <1>6, <1>7, <1>8 DEF ReqNext

\* The REQ frame the node takes off a queue was the only one of its stream.
LEMMA TakenReqAlone ==
  ASSUME TypeOK, StreamIdentity, TunnelOnce, NEW c \in Conns,
         IsHead(up[c], REQ), Consume(c),
         NEW d \in Conns, NEW g \in Contents(up'[d]), g.type = REQ
  PROVE  g.sid # Head(up[c]).sid
<1> DEFINE f == Head(up[c])
<1> SUFFICES ASSUME g.sid = f.sid
             PROVE  FALSE
  OBVIOUS
<1>1. up \in [Conns -> Seq(Frames)] /\ up[c] # <<>> /\ f.type = REQ
  BY DEF TypeOK, NodeTypeOK, IsHead
<1>2. f = up[c][1] /\ f \in Contents(up[c]) /\ 1 \in 1..Len(up[c])
  BY <1>1, ConsumeType, ConsumeContents
<1>3. /\ \A i \in 1..Len(up'[c]) :
           i + 1 \in 1..Len(up[c]) /\ up'[c][i] = up[c][i + 1]
      /\ \A e \in Conns \ {c} : up'[e] = up[e]
  BY <1>1, KeptWhenConsumed
<1>4. g \in Contents(up[d])
  BY <1>1, KeptWhenConsumed, KeptContents
<1> HIDE DEF f
<1>5. f.body \in Reqs /\ g.body = f.body
  <2>1. Labelled(f) /\ Labelled(g)
    BY <1>2, <1>4 DEF StreamIdentity, FramesLabelled
  <2>2. /\ f.body \in Reqs /\ f.sid = sidOf[f.body] /\ f.sid # 0
        /\ g.body \in Reqs /\ g.sid = sidOf[g.body]
    BY <1>1, <2>1 DEF Labelled
  <2> QED
    BY <2>2 DEF StreamIdentity, SidsUnique
<1>6. \A x, y \in Conns : \A i \in 1..Len(up[x]), j \in 1..Len(up[y]) :
        Carries(up[x][i], f.body) /\ Carries(up[y][j], f.body) => x = y /\ i = j
  BY <1>5 DEF TunnelOnce, OneCarrier
<1>7. PICK i \in 1..Len(up'[d]) : up'[d][i] = g
  BY DEF Contents
<1>8. CASE d = c
  <2>1. i + 1 = 1
    BY <1>1, <1>2, <1>3, <1>5, <1>6, <1>7, <1>8 DEF Carries
  <2>2. i \in Nat \ {0}
    OBVIOUS
  <2> QED
    BY <2>1, <2>2
<1>9. CASE d # c
  BY <1>1, <1>2, <1>3, <1>5, <1>6, <1>7, <1>9 DEF Carries
<1> QED
  BY <1>8, <1>9

LEMMA ServedNode ==
  ASSUME TypeOK, StreamIdentity, TunnelOnce, ServedOnce, NodeNext,
         UNCHANGED clientVars
  PROVE  ServedOnce'
<1>1. UNCHANGED <<pc, sidOf>>
  BY DEF clientVars, reqVars
<1>2. /\ down \in [Conns -> Seq(Frames)] /\ up \in [Conns -> Seq(Frames)]
      /\ trips \in [Conns -> SUBSET Trips]
  BY DEF TypeOK, NodeTypeOK
<1>3. \A d \in Conns : Contents(up'[d]) \subseteq Contents(up[d])
  BY NodeReads
<1>4. \A e, d \in Conns : \A t \in trips[e], u \in trips[d] :
        t.sid = u.sid => e = d /\ t = u
  BY DEF ServedOnce
\* What the node sends, as long as it is no END.
<1>5. ASSUME NEW c \in Conns, NEW f \in Frames, f.type # END, NodeSend(c, f),
             NEW d \in Conns, NEW g \in Contents(down'[d]), g.type = END
      PROVE  g \in Contents(down[d])
  <2>1. Contents(down'[d]) \subseteq Contents(down[d]) \cup {f}
    BY <1>2, <1>5, NodeSendContents
  <2> QED
    BY <1>5, <2>1
<1>6. ASSUME NEW c \in Conns, NodeHello(c) \/ NodeDrop(c) \/ NodeConnect(c)
      PROVE  ServedOnce'
  <2>1. trips' = trips
    BY <1>6 DEF NodeHello, NodeDrop, NodeConnect, nodeVars
  <2>2. HelloFrame.type # END
    BY HelloFrameType DEF Hello, END
  <2>3. \A d \in Conns : \A f \in Contents(down'[d]) :
          f.type = END => f \in Contents(down[d])
    BY <1>5, <1>6, <2>2, HelloFrameType DEF NodeHello, NodeDrop, NodeConnect
  <2> QED
    BY <1>1, <1>3, <1>4, <2>1, <2>3, TripsNamed, ServedKept
<1>7. ASSUME NEW c \in Conns, NodeReq(c)
      PROVE  ServedOnce'
  <2> DEFINE f == Head(up[c])
             new == [sid |-> f.sid, req |-> f.body, read |-> FALSE]
  <2>1. IsHead(up[c], REQ) /\ Consume(c) /\ down' = down
    BY <1>7 DEF NodeReq
  <2>2. CASE trips' = trips
    BY <1>1, <1>3, <1>4, <2>1, <2>2, TripsNamed, ServedKept
  <2>3. CASE trips' = [trips EXCEPT ![c] = @ \cup {new}]
    <3>1. f \in Contents(up[c]) /\ f.type = REQ
      BY <1>2, <2>1, ConsumeContents DEF IsHead
    <3>2. \A d \in Conns : \A g \in Contents(up'[d]) :
            g.type = REQ => g.sid # f.sid
      BY <2>1, TakenReqAlone
    <3>3. pc[f.body] \notin Unsent
      <4>1. Labelled(f)
        BY <3>1 DEF StreamIdentity, FramesLabelled
      <4>2. f.body \in Reqs
        BY <3>1, <4>1 DEF Labelled
      <4>3. Carried(f.body)
        BY <3>1 DEF Carried, Carries
      <4> QED
        BY <4>2, <4>3 DEF TunnelOnce, RunsBounded
    <3>4. \A d \in Conns :
            /\ \A t \in trips[d] : t.sid # f.sid
            /\ \A g \in Contents(down[d]) : g.type = END => g.sid # f.sid
      BY <3>1 DEF ServedOnce
    <3>5. new.sid = f.sid /\ new.req = f.body
      OBVIOUS
    <3> HIDE DEF f, new
    <3>6. \A d \in Conns : \A t \in trips'[d] :
            t \in trips[d] \/ (d = c /\ t = new)
      BY <1>2, <2>3
    <3> SUFFICES ASSUME NEW x \in Conns, NEW y \in Conns
        PROVE
        /\ \A t \in trips'[x] : pc'[t.req] \notin Unsent
        /\ \A g \in Contents(down'[x]) : g.type = END =>
             \E r \in Reqs : g.sid = sidOf'[r] /\ g.sid # 0 /\ pc'[r] \notin Unsent
        /\ \A g \in Contents(up'[x]) : g.type = REQ =>
             /\ \A t \in trips'[y] : t.sid # g.sid
             /\ \A h \in Contents(down'[y]) : h.type = END => h.sid # g.sid
        /\ \A t \in trips'[x] :
             /\ \A u \in trips'[y] : t.sid = u.sid => x = y /\ t = u
             /\ \A h \in Contents(down'[y]) : h.type = END => h.sid # t.sid
      BY DEF ServedOnce, Unsent
    <3>7. /\ \A t \in trips[x] : pc[t.req] \notin Unsent
          /\ \A g \in Contents(down[x]) : g.type = END =>
               \E r \in Reqs : g.sid = sidOf[r] /\ g.sid # 0 /\ pc[r] \notin Unsent
          /\ \A g \in Contents(up[x]) : g.type = REQ =>
               /\ \A t \in trips[y] : t.sid # g.sid
               /\ \A h \in Contents(down[y]) : h.type = END => h.sid # g.sid
          /\ \A t \in trips[x] :
               \A h \in Contents(down[y]) : h.type = END => h.sid # t.sid
      BY DEF ServedOnce
    <3>8. \A t \in trips'[x] : pc[t.req] \notin Unsent
      BY <3>3, <3>5, <3>6, <3>7
    <3>9. \A g \in Contents(up'[x]) : g.type = REQ =>
            /\ \A t \in trips'[y] : t.sid # g.sid
            /\ \A h \in Contents(down[y]) : h.type = END => h.sid # g.sid
      BY <1>3, <3>2, <3>5, <3>6, <3>7
    <3>10. \A t \in trips'[x] :
             /\ \A u \in trips'[y] : t.sid = u.sid => x = y /\ t = u
             /\ \A h \in Contents(down[y]) : h.type = END => h.sid # t.sid
      BY <1>4, <3>4, <3>5, <3>6, <3>7
    <3> QED
      BY <1>1, <2>1, <3>7, <3>8, <3>9, <3>10
  <2> QED
    BY <1>7, <2>2, <2>3 DEF NodeReq
<1>8. ASSUME NEW c \in Conns, NEW t \in trips[c], NodeRoundtrip(c, t)
      PROVE  ServedOnce'
  <2> DEFINE new == [t EXCEPT !.read = TRUE]
  <2>1. /\ new.sid = t.sid /\ new.req = t.req /\ t.sid \in Nat
        /\ t.req \in Bodies \cup {"none"}
    BY <1>2, TripFields
  <2>2. /\ \A d \in Conns \ {c} : trips'[d] = trips[d]
        /\ trips'[c] = (trips[c] \ {t}) \cup {new}
    BY <1>2, <1>8 DEF NodeRoundtrip
  <2>3. \A d \in Conns : \A f \in Contents(down'[d]) :
          f.type = END => f \in Contents(down[d])
    <3>1. CASE UNCHANGED down
      BY <3>1
    <3>2. ASSUME NEW b \in {t.req, "junk"}, NodeSend(c, Frame(RES, t.sid, c, b))
          PROVE  \A d \in Conns : \A f \in Contents(down'[d]) :
                   f.type = END => f \in Contents(down[d])
      <4> DEFINE g == Frame(RES, t.sid, c, b)
      <4>1. b \in Bodies \cup {"none"} /\ RES \in FrameTypes
        BY <2>1 DEF Bodies, FrameTypes
      <4>2. g \in Frames /\ g.type = RES
        BY <2>1, <4>1, FrameType
      <4>3. g.type # END
        BY <4>2 DEF RES, END
      <4> HIDE DEF g
      <4> QED
        BY <1>5, <3>2, <4>2, <4>3 DEF g
    <3> QED
      BY <1>8, <3>1, <3>2 DEF NodeRoundtrip
  <2> HIDE DEF new
  <2>4. \A d \in Conns : \A u \in trips'[d] :
          \E v \in trips[d] : v.sid = u.sid /\ v.req = u.req
    BY <2>1, <2>2
  <2>5. \A e, d \in Conns : \A u \in trips'[e], v \in trips'[d] :
          u.sid = v.sid => e = d /\ u = v
    BY <1>4, <2>1, <2>2
  <2> QED
    BY <1>1, <1>3, <2>3, <2>4, <2>5, TripsNamed, ServedKept
<1>9. ASSUME NEW c \in Conns, NEW t \in trips[c], NodeEnd(c, t)
      PROVE  ServedOnce'
  <2> DEFINE g == Frame(END, t.sid, c, "none")
  <2>1. t.req \in Reqs /\ t.sid = sidOf[t.req] /\ t.sid # 0 /\ t.sid \in Nat
    BY <1>2, TripsNamed, TripFields
  <2>2. g \in Frames /\ g.sid = t.sid
    BY <2>1, FrameType DEF FrameTypes
  <2>3. up' = up /\ NodeSend(c, g)
    BY <1>9 DEF NodeEnd
  <2>4. /\ \A d \in Conns : trips'[d] \subseteq trips[d]
        /\ t \notin trips'[c]
    BY <1>2, <1>9 DEF NodeEnd
  <2>5. \A d \in Conns : Contents(down'[d]) \subseteq Contents(down[d]) \cup {g}
    BY <1>2, <2>2, <2>3, NodeSendContents
  <2> HIDE DEF g
  <2> SUFFICES ASSUME NEW x \in Conns, NEW y \in Conns
      PROVE
      /\ \A u \in trips'[x] : pc'[u.req] \notin Unsent
      /\ \A f \in Contents(down'[x]) : f.type = END =>
           \E r \in Reqs : f.sid = sidOf'[r] /\ f.sid # 0 /\ pc'[r] \notin Unsent
      /\ \A f \in Contents(up'[x]) : f.type = REQ =>
           /\ \A u \in trips'[y] : u.sid # f.sid
           /\ \A h \in Contents(down'[y]) : h.type = END => h.sid # f.sid
      /\ \A u \in trips'[x] :
           /\ \A v \in trips'[y] : u.sid = v.sid => x = y /\ u = v
           /\ \A h \in Contents(down'[y]) : h.type = END => h.sid # u.sid
    BY DEF ServedOnce, Unsent
  <2>6. /\ \A u \in trips[x] : pc[u.req] \notin Unsent
        /\ pc[t.req] \notin Unsent
        /\ \A f \in Contents(down[x]) : f.type = END =>
             \E r \in Reqs : f.sid = sidOf[r] /\ f.sid # 0 /\ pc[r] \notin Unsent
        /\ \A f \in Contents(up[x]) : f.type = REQ =>
             /\ \A u \in trips[y] : u.sid # f.sid
             /\ t.sid # f.sid
             /\ \A h \in Contents(down[y]) : h.type = END => h.sid # f.sid
        /\ \A u \in trips[x] :
             \A h \in Contents(down[y]) : h.type = END => h.sid # u.sid
    BY DEF ServedOnce
  <2>7. \A u \in trips'[x] : u.sid # t.sid
    BY <1>4, <2>4
  <2>8. \A f \in Contents(down'[x]) : f.type = END =>
          \E r \in Reqs : f.sid = sidOf[r] /\ f.sid # 0 /\ pc[r] \notin Unsent
    BY <2>1, <2>2, <2>5, <2>6
  <2>9. \A f \in Contents(up[x]) : f.type = REQ =>
          /\ \A u \in trips'[y] : u.sid # f.sid
          /\ \A h \in Contents(down'[y]) : h.type = END => h.sid # f.sid
    BY <2>2, <2>4, <2>5, <2>6
  <2>10. \A u \in trips'[x] :
          /\ \A v \in trips'[y] : u.sid = v.sid => x = y /\ u = v
          /\ \A h \in Contents(down'[y]) : h.type = END => h.sid # u.sid
    BY <1>4, <2>2, <2>4, <2>5, <2>6, <2>7
  <2> QED
    BY <1>1, <2>3, <2>4, <2>6, <2>8, <2>9, <2>10
<1> QED
  BY <1>6, <1>7, <1>8, <1>9 DEF NodeNext

LEMMA ServedStep ==
  ASSUME TypeOK, StreamIdentity, TunnelOnce, ServedOnce, [Next]_vars
  PROVE  ServedOnce'
<1>1. CASE UNCHANGED <<trips, up, down, pc, sidOf>>
  BY <1>1, ServedAside
<1>2. ASSUME NEW f \in opening, OpenedRes(f) \/ OpenedEnd(f)
      PROVE  ServedOnce'
  BY <1>1, <1>2 DEF OpenedRes, OpenedEnd, wireVars, nodeVars, reqVars
<1>3. CASE UNCHANGED vars
  BY <1>1, <1>3 DEF vars, wireVars, nodeVars, clientVars, reqVars
<1> QED
  BY <1>2, <1>3, ServedConn, ServedReq, ServedNode DEF Next

LEMMA ServedAlways == Spec => []ServedOnce
<1>1. Init => ServedOnce
  BY DEF Init, NodeInit, ServedOnce, Contents
<1> QED
  BY <1>1, ServedStep, Typing, IdentityAlways, OnceAlways, PTL DEF Spec

-----------------------------------------------------------------------------
\* END is the last frame of its stream.

\* EndIsLast of one queue.
Ordered(q) ==
  \A i, j \in DOMAIN q : i < j /\ q[i].type = END => q[i].sid # q[j].sid

LEMMA OrderedTail ==
  ASSUME NEW q \in Seq(Frames), q # <<>>, Ordered(q)
  PROVE  Ordered(Tail(q))
<1> SUFFICES ASSUME NEW i \in DOMAIN Tail(q), NEW j \in DOMAIN Tail(q), i < j,
                    Tail(q)[i].type = END
             PROVE  Tail(q)[i].sid # Tail(q)[j].sid
  BY DEF Ordered
<1>1. /\ Tail(q) \in Seq(Frames) /\ Len(Tail(q)) = Len(q) - 1
      /\ \A k \in 1..Len(Tail(q)) : Tail(q)[k] = q[k + 1]
  BY HeadTailProperties
<1>2. i \in 1..Len(Tail(q)) /\ j \in 1..Len(Tail(q)) /\ Len(q) \in Nat
  BY <1>1
<1>3. i + 1 \in 1..Len(q) /\ j + 1 \in 1..Len(q) /\ i + 1 < j + 1
  BY <1>1, <1>2
<1>4. DOMAIN q = 1..Len(q)
  OBVIOUS
<1> QED
  BY <1>1, <1>2, <1>3, <1>4 DEF Ordered

LEMMA OrderedAppend ==
  ASSUME NEW q \in Seq(Frames), NEW f \in Frames, Ordered(q),
         \A g \in Contents(q) : g.type = END => g.sid # f.sid
  PROVE  Ordered(Append(q, f))
<1> SUFFICES ASSUME NEW i \in DOMAIN Append(q, f), NEW j \in DOMAIN Append(q, f),
                    i < j, Append(q, f)[i].type = END
             PROVE  Append(q, f)[i].sid # Append(q, f)[j].sid
  BY DEF Ordered
<1>1. /\ Append(q, f) \in Seq(Frames) /\ Len(Append(q, f)) = Len(q) + 1
      /\ \A k \in 1..Len(q) : Append(q, f)[k] = q[k]
      /\ Append(q, f)[Len(q) + 1] = f
  BY AppendProperties
<1>2. i \in 1..Len(q) + 1 /\ j \in 1..Len(q) + 1 /\ Len(q) \in Nat
  BY <1>1
<1>3. i \in 1..Len(q) /\ (j \in 1..Len(q) \/ j = Len(q) + 1)
  BY <1>2
<1>4. q[i] \in Contents(q) /\ DOMAIN q = 1..Len(q)
  BY <1>3 DEF Contents
<1>5. CASE j \in 1..Len(q)
  BY <1>1, <1>3, <1>4, <1>5 DEF Ordered
<1>6. CASE j = Len(q) + 1
  BY <1>1, <1>3, <1>4, <1>6
<1> QED
  BY <1>3, <1>5, <1>6

LEMMA OrderedSend ==
  ASSUME down \in [Conns -> Seq(Frames)], EndIsLast, NEW c \in Conns,
         NEW f \in Frames, NodeSend(c, f),
         \A g \in Contents(down[c]) : g.type = END => g.sid # f.sid
  PROVE  EndIsLast'
<1>1. Ordered(down[c]) /\ down[c] \in Seq(Frames)
  BY DEF EndIsLast, Ordered
<1>2. Ordered(Append(down[c], f))
  BY <1>1, OrderedAppend
<1>3. ASSUME NEW d \in Conns
      PROVE  Ordered(down'[d])
  BY <1>2, <1>3 DEF NodeSend, EndIsLast, Ordered
<1> QED
  BY <1>3 DEF EndIsLast, Ordered

LEMMA LastStep ==
  ASSUME TypeOK, StreamIdentity, ServedOnce, EndIsLast, [Next]_vars
  PROVE  EndIsLast'
<1> USE DEF wireVars, nodeVars, clientVars, tunnelVars
<1>1. /\ down \in [Conns -> Seq(Frames)] /\ trips \in [Conns -> SUBSET Trips]
  BY DEF TypeOK, NodeTypeOK
<1>2. CASE down' = down
  BY <1>2 DEF EndIsLast
<1>3. ASSUME NEW c \in Conns, down[c] # <<>>,
             down' = [down EXCEPT ![c] = Tail(@)]
      PROVE  EndIsLast'
  <2>1. Ordered(Tail(down[c]))
    BY <1>1, <1>3, OrderedTail DEF EndIsLast, Ordered
  <2>2. \A d \in Conns : Ordered(down'[d])
    BY <1>1, <1>3, <2>1 DEF EndIsLast, Ordered
  <2> QED
    BY <2>2 DEF EndIsLast, Ordered
<1>4. ASSUME NEW c \in Conns, down' = [down EXCEPT ![c] = <<>>]
      PROVE  EndIsLast'
  BY <1>1, <1>4 DEF EndIsLast
<1>5. ASSUME NEW c \in Conns, ConnNext(c)
      PROVE  EndIsLast'
  <2>1. CASE HelloAnswered(c) \/ OnMessage(c)
    BY <1>3, <2>1 DEF HelloAnswered, OnMessage, IsHead
  <2>2. CASE Closing(c)
    BY <1>4, <2>2 DEF Closing
  <2> QED
    BY <1>2, <1>5, <2>1, <2>2
       DEF ConnNext, Dial, Opened, ConnectFails, Install, OnClose
<1>6. ASSUME NEW f \in opening, OpenedRes(f) \/ OpenedEnd(f)
      PROVE  EndIsLast'
  BY <1>2, <1>6 DEF OpenedRes, OpenedEnd
<1>7. ASSUME NEW r \in Reqs, ReqNext(r)
      PROVE  EndIsLast'
  BY <1>2, <1>7 DEF ReqNext, ProxyFetch, BodyRead, SealedConnect, SealedReq,
                    TimerFires, Resume, LocalFetch
<1>8. ASSUME NEW c \in Conns, NodeHello(c)
      PROVE  EndIsLast'
  <2>1. HelloFrame.sid = 0
    BY DEF HelloFrame, Frame
  <2>2. \A g \in Contents(down[c]) : g.type = END => g.sid # 0
    BY DEF ServedOnce
  <2> QED
    BY <1>1, <1>8, <2>1, <2>2, HelloFrameType, OrderedSend DEF NodeHello
\* The node adds to a stream only while the round trip of it is there, and
\* then no END of it is on the way.
<1>9. ASSUME NEW c \in Conns, NEW t \in trips[c], NEW type \in {RES, END},
             NEW b \in Bodies \cup {"none"}, NodeSend(c, Frame(type, t.sid, c, b))
      PROVE  EndIsLast'
  <2> DEFINE f == Frame(type, t.sid, c, b)
  <2>1. t.sid \in Nat /\ type \in FrameTypes
    BY <1>1, TripFields DEF FrameTypes
  <2>2. f \in Frames /\ f.sid = t.sid
    BY <2>1, FrameType
  <2>3. \A g \in Contents(down[c]) : g.type = END => g.sid # t.sid
    BY DEF ServedOnce
  <2> HIDE DEF f
  <2> QED
    BY <1>1, <1>9, <2>2, <2>3, OrderedSend DEF f
<1>10. ASSUME NEW c \in Conns, NEW t \in trips[c], NodeRoundtrip(c, t)
       PROVE  EndIsLast'
  <2>1. t.req \in Bodies \cup {"none"} /\ "junk" \in Bodies
    BY <1>1, TripFields DEF Bodies
  <2> QED
    BY <1>2, <1>9, <1>10, <2>1 DEF NodeRoundtrip
<1>11. ASSUME NEW c \in Conns, NEW t \in trips[c], NodeEnd(c, t)
       PROVE  EndIsLast'
  BY <1>9, <1>11 DEF NodeEnd
<1>12. CASE NodeNext
  BY <1>2, <1>8, <1>10, <1>11, <1>12 DEF NodeNext, NodeDrop, NodeConnect, NodeReq
<1>13. CASE UNCHANGED vars
  BY <1>2, <1>13 DEF vars
<1> QED
  BY <1>5, <1>6, <1>7, <1>12, <1>13 DEF Next

\* The node's last word on a stream is END: no frame of the stream follows it
\* on that connection, whatever the order in which the node's tasks run.
THEOREM EndIsLastAlways == Spec => []EndIsLast
<1>1. Init => EndIsLast
  BY DEF Init, NodeInit, EndIsLast
<1> QED
  BY <1>1, LastStep, Typing, IdentityAlways, ServedAlways, PTL DEF Spec

-----------------------------------------------------------------------------
\* The strengthening as a whole: in every reachable state sids name requests,
\* key and socket of the tunnel go together, the tunnel carries a request at
\* most once, the node serves a stream once and every response was made by
\* the origin.
THEOREM InductiveAlways == Spec => []Inductive
BY KeyAlways, IdentityAlways, OnceAlways, EarnedAlways, ServedAlways, PTL
   DEF Inductive

-----------------------------------------------------------------------------
\* The worker keeps what FetchPromise promises.

\* Going to a state of proxyFetch moves one request's stage and no other.
LEMMA StageMoves ==
  ASSUME pc \in [Reqs -> ReqStates], NEW r \in Reqs, NEW s, Goto(r, s)
  PROVE  Stages' = [Stages EXCEPT ![r] = StageOf(s)]
<1>1. \A q \in Reqs : pc'[q] = IF q = r THEN s ELSE pc[q]
  BY DEF Goto
<1> QED
  BY <1>1 DEF Stages

LEMMA StageStays ==
  ASSUME pc \in [Reqs -> ReqStates], NEW r \in Reqs, NEW s, Goto(r, s),
         StageOf(s) = StageOf(pc[r])
  PROVE  Stages' = Stages
<1>1. Stages' = [Stages EXCEPT ![r] = StageOf(s)]
  BY StageMoves
<1> QED
  BY <1>1 DEF Stages

LEMMA PromiseReq ==
  ASSUME TypeOK, StreamIdentity, TunnelOnce, ResponsesEarned,
         NEW r \in Reqs, ReqNext(r)
  PROVE  Promise!Next \/ UNCHANGED Promise!vars
<1>1. /\ pc \in [Reqs -> ReqStates] /\ runs \in [Reqs -> Nat]
      /\ ans \in [Reqs -> Reqs \cup {"none", "bad gateway"}]
  BY DEF TypeOK, NodeTypeOK
<1>2. CASE ProxyFetch(r)
  <2>1. Stages[r] = "new" /\ UNCHANGED <<ans, runs>>
    BY <1>1, <1>2 DEF ProxyFetch, Stages, StageOf
  <2>2. \E s \in {"local", "seal CONNECT", "body"} : Goto(r, s)
    BY <1>2 DEF ProxyFetch, TunnelFetch
  <2>3. Stages' = [Stages EXCEPT ![r] = "taken"]
    BY <1>1, <2>2, StageMoves DEF StageOf
  <2> QED
    BY <2>1, <2>3 DEF Promise!Next, Promise!Take
<1>3. CASE BodyRead(r) \/ SealedConnect(r) \/ SealedReq(r)
  <2>1. UNCHANGED <<ans, runs>> /\ StageOf(pc[r]) = "taken"
    BY <1>3 DEF BodyRead, SealedConnect, SealedReq, StageOf
  <2>2. \E s \in {"local", "seal CONNECT", "seal REQ", "wait"} : Goto(r, s)
    BY <1>3 DEF BodyRead, TunnelFetch, SealedConnect, SealedReq
  <2>3. Stages' = Stages
    BY <1>1, <2>1, <2>2, StageStays DEF StageOf
  <2> QED
    BY <2>1, <2>3 DEF Promise!vars
<1>4. CASE TimerFires(r)
  <2>1. UNCHANGED <<pc, ans, runs>>
    BY <1>4 DEF TimerFires
  <2> QED
    BY <2>1 DEF Promise!vars, Stages
<1>5. CASE Resume(r)
  <2>1. pc[r] = "wait" /\ Stages[r] = "taken" /\ runs' = runs
    BY <1>1, <1>5 DEF Resume, Stages, StageOf
  <2>2. CASE out[r] \in Reqs
    <3>1. out[r] = r /\ runs[r] > 0
      BY <2>2, TokensAssumption
         DEF StreamIdentity, ResultsOwned, ResponsesEarned, Earned
    <3>2. ans' = [ans EXCEPT ![r] = r] /\ Goto(r, "done")
      BY <1>5, <2>2, <3>1 DEF Resume, Answer
    <3>3. Stages' = [Stages EXCEPT ![r] = "answered"]
      BY <1>1, <3>2, StageMoves DEF StageOf
    <3> QED
      BY <2>1, <3>1, <3>2, <3>3 DEF Promise!Next, Promise!Reply
  <2>3. CASE out[r] \notin Reqs
    <3>1. ans' = ans /\ Goto(r, "local")
      BY <1>5, <2>3 DEF Resume
    <3>2. Stages' = Stages
      BY <1>1, <2>1, <3>1, StageStays DEF StageOf
    <3> QED
      BY <2>1, <3>1, <3>2 DEF Promise!vars
  <2> QED
    BY <2>2, <2>3
<1>6. CASE LocalFetch(r)
  <2>1. pc[r] = "local" /\ Stages[r] = "taken"
    BY <1>1, <1>6 DEF LocalFetch, Stages, StageOf
  <2>2. \E v \in {r, "bad gateway"} : Answer(r, v)
    BY <1>6 DEF LocalFetch
  <2>3. Stages' = [Stages EXCEPT ![r] = "answered"]
    BY <1>1, <2>2, StageMoves DEF StageOf, Answer
  <2>4. CASE r \notin Bodied /\ Run(r)
    <3>1. Local(r) = 0 /\ Promise!Limit(r) = 2
      BY <2>1, <2>4 DEF Local, Promise!Limit
    <3>2. runs[r] < Promise!Limit(r)
      <4>1. runs[r] <= Local(r) + 1
        BY DEF TunnelOnce, RunsBounded
      <4>2. runs[r] \in Nat
        BY <1>1
      <4> QED
        BY <3>1, <4>1, <4>2
    <3>3. runs'[r] > 0
      BY <1>1, <2>4, RunAdds
    <3> QED
      BY <2>1, <2>2, <2>3, <2>4, <3>2, <3>3
         DEF Promise!Next, Promise!Reply, Run, Answer
  <2>5. CASE UNCHANGED runs /\ Answer(r, "bad gateway")
    BY <2>1, <2>3, <2>5 DEF Promise!Next, Promise!Reply, Answer
  <2> QED
    BY <1>6, <2>4, <2>5 DEF LocalFetch
<1> QED
  BY <1>2, <1>3, <1>4, <1>5, <1>6 DEF ReqNext

LEMMA PromiseNode ==
  ASSUME TypeOK, StreamIdentity, TunnelOnce, NodeNext, UNCHANGED clientVars
  PROVE  Promise!Next \/ UNCHANGED Promise!vars
<1>1. runs \in [Reqs -> Nat] /\ trips \in [Conns -> SUBSET Trips]
  BY DEF TypeOK, NodeTypeOK
<1>2. Stages' = Stages /\ ans' = ans
  BY DEF clientVars, reqVars, Stages
<1>3. CASE runs' = runs
  BY <1>2, <1>3 DEF Promise!vars
<1>4. ASSUME NEW c \in Conns, NEW t \in trips[c], ~t.read, Run(t.req)
      PROVE  Promise!Next
  <2>1. t.req \in Reqs
    BY <1>1, <1>4, TripFields DEF StreamIdentity, FramesLabelled
  <2>2. Carried(t.req)
    BY <1>4 DEF Carried, Makes
  <2>3. pc[t.req] # "new" /\ runs[t.req] <= Local(t.req)
    BY <2>1, <2>2 DEF TunnelOnce, RunsBounded, Unsent
  <2>4. Local(t.req) < Promise!Limit(t.req)
    BY DEF Local, Promise!Limit
  <2>5. Local(t.req) \in Nat /\ Promise!Limit(t.req) \in Nat
    BY DEF Local, Promise!Limit
  <2>6. runs[t.req] < Promise!Limit(t.req)
    BY <1>1, <2>1, <2>3, <2>4, <2>5
  <2>7. Stages[t.req] # "new"
    BY <2>1, <2>3 DEF Stages, StageOf
  <2> QED
    BY <1>2, <1>4, <2>1, <2>6, <2>7 DEF Promise!Next, Promise!Perform, Run
<1>5. ASSUME NEW c \in Conns, NEW t \in trips[c], NodeRoundtrip(c, t)
      PROVE  Promise!Next \/ UNCHANGED Promise!vars
  BY <1>3, <1>4, <1>5 DEF NodeRoundtrip
<1>6. ASSUME NEW c \in Conns,
             \/ NodeHello(c) \/ NodeDrop(c) \/ NodeConnect(c) \/ NodeReq(c)
             \/ \E t \in trips[c] : NodeEnd(c, t)
      PROVE  runs' = runs
  BY <1>6 DEF NodeHello, NodeDrop, NodeConnect, NodeReq, NodeEnd
<1> QED
  BY <1>3, <1>5, <1>6 DEF NodeNext

LEMMA PromiseStep ==
  ASSUME TypeOK, StreamIdentity, TunnelOnce, ResponsesEarned, [Next]_vars
  PROVE  [Promise!Next]_(Promise!vars)
<1>1. ASSUME UNCHANGED <<pc, ans, runs>>
      PROVE  UNCHANGED Promise!vars
  BY <1>1 DEF Promise!vars, Stages
<1>2. ASSUME NEW c \in Conns, ConnNext(c)
      PROVE  UNCHANGED <<pc, ans, runs>>
  BY <1>2 DEF ConnNext, Dial, Opened, HelloAnswered, ConnectFails, Install,
              Closing, OnClose, OnMessage, reqVars, clientVars
<1>3. ASSUME NEW f \in opening, OpenedRes(f) \/ OpenedEnd(f)
      PROVE  UNCHANGED <<pc, ans, runs>>
  BY <1>3 DEF OpenedRes, OpenedEnd, reqVars
<1>4. CASE UNCHANGED vars
  BY <1>1, <1>4 DEF vars, clientVars, reqVars
<1> QED
  BY <1>1, <1>2, <1>3, <1>4, PromiseReq, PromiseNode DEF Next

\* SwTunnel implements FetchPromise: whatever the sockets, the node and the
\* timers do, the page sees a proxy that answers a request it took once, with
\* that request's own response or an error, and reaches the origin no more
\* often than the promise allows.
THEOREM PromiseKept == Spec => KeepsPromise
<1>1. Init => Promise!Init
  BY DEF Init, NodeInit, Promise!Init, Stages, StageOf
<1> QED
  BY <1>1, PromiseStep, Typing, IdentityAlways, OnceAlways, EarnedAlways, PTL
     DEF Spec, KeepsPromise, Promise!Spec
=============================================================================
