--------------------------- MODULE WispNodeProofs ---------------------------
(***************************************************************************)
(* Proofs about WispNode, for any streams, chunks, room in the channel and *)
(* bound on the frames under way: types, the order of what comes down, the *)
(* whereabouts of what goes up, END, the stream map, and that WispNode     *)
(* implements L7Node.                                                      *)
(*                                                                         *)
(* None of them is inductive alone.  What a task may still do depends on   *)
(* where the others stand (Ended, OneEach, TaskKinds), what the reader may *)
(* still find depends on the order of the client's frames (UpFrames,       *)
(* UpOrder, Ciphers), and both on a stream that leaves no trace before its *)
(* CONNECT is answered (Fresh, Unopened, Unasked).                         *)
(***************************************************************************)
EXTENDS WispNode, Recursion, FiniteSetTheorems

-----------------------------------------------------------------------------
\* The inductive invariant.

Connecting(s) == \E i \in DOMAIN up : up[i].sid = s /\ up[i].type = CONNECT
Asking(s) == \E i \in DOMAIN up : up[i].sid = s /\ up[i].type = REQ
Tasked(s) == \E t \in tasks : t.sid = s
Answered(s) == \E i \in DOMAIN Out : Out[i].sid = s

\* What a client puts on its way.
Fits(f) ==
  /\ f.type \in {Hello, CONNECT, DATA, UDP, REQ, END}
  /\ f.type # Hello => f.sid \in Sids /\ sent[f.sid] > 0
  /\ f.type = Hello => f.sid = 0
  /\ f.type = CONNECT => remote[f.sid] = "none" /\ cur # f.sid
  /\ f.type = DATA => Proto[f.sid] = "tcp"
  /\ f.type = UDP => Proto[f.sid] = "udp"
  /\ f.type = REQ => Proto[f.sid] = "l7" /\ sent[f.sid] > 1
  /\ f.type = END => f.sid \in Raw /\ f.sid \in ended
UpFrames == \A i \in DOMAIN up : Fits(up[i])

\* ... and in which order: CONNECT first, END or the one REQ last.
UpOrder ==
  \A i, j \in DOMAIN up : i < j /\ up[i].sid = up[j].sid /\ up[i].type # Hello =>
    up[i].type \notin {END, REQ} /\ up[j].type # CONNECT

\* Who seals, and with which key.
Ciphers ==
  /\ client = "new" => up = <<>> /\ mode = "start"
  /\ client = "hello" => mode # "plain"
  /\ client = "hello" /\ mode = "start" => \A i \in DOMAIN up : up[i].type = Hello
  /\ client = "plain" => mode # "sealed" /\ \A i \in DOMAIN up : up[i].type # Hello
  /\ client = "new" \/ (client = "hello" /\ mode = "start") => \A s \in Sids : sent[s] = 0
  /\ \A i \in DOMAIN up : up[i].sid \in Raw => up[i].key = Key

\* Nothing happens before the first message.
Starting == mode = "start" => tasks = {} /\ chan = <<>> /\ cur = "none"

\* A stream that is not open yet has left no trace.
Fresh ==
  \A s \in Sids : remote[s] = "none" =>
    /\ s \notin streams /\ ~ Tasked(s) /\ ~ Answered(s)
    /\ heard[s] = <<>> /\ missed[s] = <<>> /\ said[s] = 0 /\ taken[s] = 0

Unopened ==
  /\ \A s \in Sids : sent[s] = 0 \/ cur = s => remote[s] = "none"
  /\ cur # "none" => sent[cur] > 0

\* Nor has a fetch whose request was not read yet.
Unasked ==
  \A s \in Sids : Proto[s] = "l7" /\ (sent[s] < 2 \/ Asking(s)) => ~ Tasked(s) /\ ~ Answered(s)

TcpPump(t) ==
  /\ t.job = "pump" /\ Proto[t.sid] = "tcp"
  /\ t.at \in {"lock", "read", "send", "end", "remove"}
  /\ t.at = "end" => remote[t.sid] = "closed" /\ taken[t.sid] = said[t.sid]
  /\ t.at = "remove" => remote[t.sid] = "closed" \/ egress = "done"
UdpPump(t) ==
  /\ t.job = "pump" /\ Proto[t.sid] = "udp"
  /\ t.at \in {"read", "send", "remove"}
  /\ t.at = "remove" => remote[t.sid] = "closed" \/ egress = "done"
Writer(t) ==
  \/ t.job = "write" /\ Proto[t.sid] = "tcp" /\ t.at \in {"lock", "write"}
  \/ t.job = "datagram" /\ Proto[t.sid] = "udp" /\ t.at = "write"
TaskKinds ==
  \A t \in tasks :
    TcpPump(t) \/ UdpPump(t) \/ Writer(t) \/ (t.job = "fetch" /\ Proto[t.sid] = "l7")

\* One pump for each raw stream, one round trip for each fetch.
OneEach ==
  \A t, u \in tasks :
    t.sid = u.sid /\ t.job = u.job /\ t.job \in {"pump", "fetch"} => t = u

\* What the end of the connection leaves.
Over ==
  /\ reader \in {"draining", "returned"} => link # "open" /\ up = <<>>
  /\ egress = "done" => /\ chan = <<>>
                        /\ link = "lost" \/ reader \in {"draining", "returned"}

\* While a payload may come the map has its stream.
Known ==
  \A s \in Raw : remote[s] = "open" /\ link # "lost" /\ s \notin streams =>
    Coming(s) = {} /\ (s \in ended \/ link # "open")

\* UpIsWhole, of the streams whose CONNECT is under way too; no chunk is in
\* two hands.
Live(s) == link # "lost" /\ (remote[s] = "open" \/ cur = s \/ Connecting(s))
Gone(s) == Len(heard[s]) + Len(missed[s])
Met(s) == ToSet(heard[s]) \cup ToSet(missed[s])
WholeOf(s) ==
  /\ Gone(s) + Cardinality(Writers(s)) + Cardinality(Coming(s)) = sent[s] - 1
  /\ Met(s) \cup {t.arg : t \in Writers(s)} \cup {up[i].body : i \in Coming(s)}
       = {Chunks[s][k] : k \in 1..sent[s] - 1}
  /\ \A t, u \in Writers(s) : t.arg = u.arg => t = u
  /\ \A i, j \in Coming(s) : up[i].body = up[j].body => i = j
  /\ \A t \in Writers(s), i \in Coming(s) : t.arg # up[i].body
Whole == \A s \in Raw : Live(s) => WholeOf(s)

\* Who sent END sends nothing more.
Ended ==
  \A i \in DOMAIN Out : Out[i].type = END =>
    /\ Out[i].sid \in Sids
    /\ \A t \in tasks :
         t.sid = Out[i].sid /\ t.job \in {"pump", "fetch"} => t.at = "remove"

Typed == TypeOK /\ IsFiniteSet(tasks)

Inductive ==
  /\ Typed /\ UpFrames /\ UpOrder /\ Ciphers /\ Starting /\ Fresh /\ Unopened /\ Unasked
  /\ TaskKinds /\ OneEach /\ Over /\ Known /\ Whole /\ Ended
  /\ DownInOrder /\ EndIsTrue /\ MapFollowsPumps

-----------------------------------------------------------------------------
\* The queues.

LEMMA UpAdds ==
  ASSUME NEW q \in Seq(WireFrames), NEW f \in WireFrames
  PROVE  /\ Append(q, f) \in Seq(WireFrames) /\ Len(Append(q, f)) = Len(q) + 1
         /\ DOMAIN q = 1..Len(q) /\ Len(q) \in Nat /\ DOMAIN Append(q, f) = 1..(Len(q) + 1)
         /\ \A i \in 1..Len(q) : Append(q, f)[i] = q[i]
         /\ Append(q, f)[Len(q) + 1] = f
OBVIOUS

LEMMA UpTakes ==
  ASSUME NEW q \in Seq(WireFrames), q # <<>>
  PROVE  /\ Tail(q) \in Seq(WireFrames) /\ Head(q) \in WireFrames /\ Head(q) = q[1]
         /\ Len(q) \in Nat \ {0} /\ Len(Tail(q)) = Len(q) - 1
         /\ DOMAIN q = 1..Len(q) /\ DOMAIN Tail(q) = 1..(Len(q) - 1)
         /\ \A i \in 1..(Len(q) - 1) : Tail(q)[i] = q[i + 1]
OBVIOUS

LEMMA OutIs ==
  ASSUME TypeOK
  PROVE  /\ Out \in Seq(WireFrames) /\ Len(Out) = Len(wire) + Len(chan)
         /\ \A i \in 1..Len(wire) : Out[i] = wire[i]
         /\ \A i \in 1..Len(chan) : Out[Len(wire) + i] = chan[i]
BY DEF TypeOK, Out

LEMMA FrameTyped ==
  ASSUME NEW type \in FrameTypes, NEW s \in Sids, NEW key \in {"ws", "old", "none"},
         NEW body \in Payloads
  PROVE  Frame(type, s, key, body) \in WireFrames
BY DEF Frame, WireFrames

LEMMA TaskTyped ==
  ASSUME NEW job \in {"pump", "write", "datagram", "fetch"}, NEW s \in Sids,
         NEW at \in {"lock", "write", "read", "send", "end", "remove"}, NEW arg \in Payloads
  PROVE  Task(job, s, at, arg) \in Tasks
BY DEF Task, Tasks

-----------------------------------------------------------------------------
\* Types: the client and the reader.

LEMMA HelloTyped == HelloFrame \in WireFrames
BY DEF HelloFrame, Frame, WireFrames, FrameTypes, Payloads

LEMMA ConstantsTyped ==
  /\ \A s \in Sids : Proto[s] \in {"tcp", "udp", "l7"}
  /\ \A s \in Sids : s \in Payloads /\ s \notin {"none", "junk", 0}
  /\ {"none", "junk"} \subseteq Payloads /\ Bodies \subseteq Payloads
  /\ \A s \in Sids : Chunks[s] \in Seq(Bodies) /\ Says[s] \in Seq(Bodies)
  /\ Capacity \in Nat \ {0} /\ MaxUp \in Nat \ {0}
  /\ Raw \subseteq Sids /\ \A s \in Sids : s \in Raw <=> Proto[s] # "l7"
BY ProtoAssumption, PayloadAssumption, RoomAssumption DEF Payloads, Raw

LEMMA TypedInit == Init => Typed
BY FS_EmptySet, ConstantsTyped DEF Init, Typed, TypeOK

LEMMA ClientTyped ==
  ASSUME Typed, ClientNext
  PROVE  Typed'
<1> USE DEF linkVars, readerVars, outVars, remoteVars, clientVars
<1> USE ConstantsTyped DEF Typed
<1>1. ASSUME NEW f \in WireFrames, ClientSends(f)
      PROVE  up' \in Seq(WireFrames) /\ Len(up') <= MaxUp
  BY <1>1 DEF ClientSends, TypeOK
<1>2. CASE ClientStarts
  BY <1>1, <1>2, HelloTyped DEF ClientStarts, TypeOK, ClientSends
<1>3. ASSUME NEW s \in Sids, ClientConnects(s) PROVE Typed'
  <2>1. Frame(CONNECT, s, Key, "none") \in WireFrames
    BY FrameTyped DEF FrameTypes, Key
  <2>2. sent' \in [Sids -> Nat] /\ \A r \in Raw : sent'[r] <= Len(Chunks[r]) + 1
    <3>1. \A r \in Raw : Len(Chunks[r]) \in Nat
      OBVIOUS
    <3>2. sent' = [sent EXCEPT ![s] = 1]
      BY <1>3 DEF ClientConnects
    <3>3. sent \in [Sids -> Nat] /\ \A r \in Raw : sent[r] <= Len(Chunks[r]) + 1
      BY DEF TypeOK
    <3>4. \A r \in Raw : r \in Sids
      BY DEF Raw
    <3>5. sent' \in [Sids -> Nat] /\ \A r \in Sids : sent'[r] = IF r = s THEN 1 ELSE sent[r]
      BY <3>2, <3>3
    <3> QED
      BY <3>1, <3>3, <3>4, <3>5
  <2> QED
    BY <1>1, <1>3, <2>1, <2>2 DEF ClientConnects, ClientSends, TypeOK
<1>4. ASSUME NEW s \in Sids, ClientTalks(s) PROVE Typed'
  <2>1. sent' \in [Sids -> Nat] /\ \A r \in Raw : sent'[r] <= Len(Chunks[r]) + 1
    <3>1. \A r \in Raw : Len(Chunks[r]) \in Nat
      OBVIOUS
    <3>2. sent' = [sent EXCEPT ![s] = @ + 1] /\ sent[s] \in Nat
      BY <1>4 DEF ClientTalks, TypeOK
    <3>3. s \in Raw => sent[s] <= Len(Chunks[s])
      BY <1>4 DEF ClientTalks, Raw
    <3> QED
      <4>1. sent \in [Sids -> Nat] /\ \A r \in Raw : sent[r] <= Len(Chunks[r]) + 1
        BY DEF TypeOK
      <4>2. sent' \in [Sids -> Nat]
        BY <3>2, <4>1
      <4>3. ASSUME NEW r \in Raw PROVE sent'[r] <= Len(Chunks[r]) + 1
        <5>1. CASE r = s
          BY <3>1, <3>2, <3>3, <4>1, <5>1
        <5>2. CASE r # s
          BY <3>2, <4>1, <5>2
        <5> QED
          BY <5>1, <5>2
      <4> QED
        BY <4>2, <4>3
  <2>2. \E f \in WireFrames : ClientSends(f)
    <3>1. CASE /\ Proto[s] \in {"tcp", "udp"}
               /\ sent[s] <= Len(Chunks[s])
               /\ ClientSends(Frame(IF Proto[s] = "tcp" THEN DATA ELSE UDP, s, Key,
                             Chunks[s][sent[s]]))
      <4>1. sent[s] \in 1..Len(Chunks[s])
        BY <1>4, <3>1 DEF ClientTalks, TypeOK
      <4>2. Chunks[s][sent[s]] \in Payloads
        BY <4>1
      <4>3. (IF Proto[s] = "tcp" THEN DATA ELSE UDP) \in FrameTypes
            /\ Key \in {"ws", "old", "none"}
        BY DEF FrameTypes, Key
      <4> QED
        BY <3>1, <4>2, <4>3, FrameTyped
    <3>2. CASE \E key \in {Key} \cup (IF client = "hello" THEN {"old"} ELSE {}) :
                 ClientSends(Frame(REQ, s, key, s))
      BY <3>2, FrameTyped DEF FrameTypes, Key
    <3> QED
      BY <1>4, <3>1, <3>2 DEF ClientTalks
  <2> QED
    BY <1>1, <1>4, <2>1, <2>2 DEF ClientTalks, ClientSends, TypeOK
<1>5. ASSUME NEW s \in Sids, ClientEnds(s) PROVE Typed'
  <2>1. Frame(END, s, Key, "none") \in WireFrames
    BY FrameTyped DEF FrameTypes, Key
  <2> QED
    BY <1>1, <1>5, <2>1 DEF ClientEnds, ClientSends, TypeOK
<1>6. CASE LinkGoes
  <2>1. up' \in Seq(WireFrames) /\ Len(up') <= MaxUp /\ link' \in {"open", "closing", "lost"}
    <3>1. up \in Seq(WireFrames) /\ Len(up) <= MaxUp
      BY DEF TypeOK
    <3>2. (up' = up \/ up' = <<>>) /\ link' \in {"closing", "lost"}
      BY <1>6 DEF LinkGoes
    <3>3. <<>> \in Seq(WireFrames) /\ Len(<<>>) = 0 /\ 0 <= MaxUp
      OBVIOUS
    <3> QED
      BY <3>1, <3>2, <3>3
  <2> QED
    BY <1>6, <2>1 DEF LinkGoes, TypeOK
<1> QED
  BY <1>2, <1>3, <1>4, <1>5, <1>6 DEF ClientNext

LEMMA Spawned ==
  ASSUME Typed, tasks' = tasks \/ \E t \in Tasks : tasks' = tasks \cup {t}
  PROVE  tasks' \subseteq Tasks /\ IsFiniteSet(tasks')
<1>1. tasks \subseteq Tasks /\ IsFiniteSet(tasks)
  BY DEF Typed, TypeOK
<1>2. ASSUME NEW t \in Tasks, tasks' = tasks \cup {t} PROVE IsFiniteSet(tasks')
  BY <1>1, <1>2, FS_AddElement
<1> QED
  BY <1>1, <1>2

LEMMA ReaderTyped ==
  ASSUME Typed, UpFrames, ReaderNext \/ ConnectReturns
  PROVE  Typed'
<1> USE DEF linkVars, readerVars, outVars, remoteVars, clientVars
<1> USE ConstantsTyped DEF Typed
<1>1. up # <<>> => /\ Tail(up) \in Seq(WireFrames) /\ Len(Tail(up)) <= MaxUp
                   /\ Head(up) \in WireFrames /\ 1 \in DOMAIN up /\ Head(up) = up[1]
  BY UpTakes DEF TypeOK
<1>2. up # <<>> /\ Head(up).type \in {CONNECT, DATA, REQ, UDP, END} => Head(up).sid \in Sids
  BY <1>1 DEF UpFrames, Fits, Hello, CONNECT, DATA, REQ, UDP, END
<1>3. CASE ReadFirst
  <2>1. wire' \in Seq(WireFrames)
    <3>1. wire \in Seq(WireFrames) /\ (wire' = wire \/ wire' = Append(wire, HelloFrame))
      BY <1>3 DEF ReadFirst, TypeOK
    <3> QED
      BY <3>1, HelloTyped
  <2> QED
    BY <1>1, <1>3, <2>1 DEF ReadFirst, TypeOK
<1>4. CASE ReadDrops
  BY <1>1, <1>4 DEF ReadDrops, TypeOK
<1>5. CASE ReadConnect
  BY <1>1, <1>2, <1>5 DEF ReadConnect, Takes, IsHead, TypeOK
<1>6. CASE ReadWork
  <2>1. tasks' = tasks \/ \E t \in Tasks : tasks' = tasks \cup {t}
    <3>1. Head(up).sid \in Sids /\ Head(up).body \in Payloads
      BY <1>1, <1>2, <1>6 DEF ReadWork, Takes, IsHead, WireFrames
    <3> QED
      BY <1>6, <3>1, TaskTyped DEF ReadWork, Spawn
  <2>2. tasks' \subseteq Tasks /\ IsFiniteSet(tasks')
    BY <2>1, Spawned
  <2>3. UNCHANGED <<link, clientVars, mode, reader, cur, streams, outVars, remoteVars>>
        /\ up' = Tail(up) /\ up # <<>>
    BY <1>6 DEF ReadWork, Takes, IsHead
  <2> QED
    BY <1>1, <2>2, <2>3 DEF TypeOK
<1>11. CASE ReadShort
  <2>1. /\ UNCHANGED <<link, clientVars, mode, reader, cur, streams, tasks, outVars, remote, said,
                       taken, heard>>
        /\ up' = Tail(up) /\ up # <<>> /\ Head(up).type = UDP
        /\ \/ missed' = missed
           \/ missed' = [missed EXCEPT ![Head(up).sid] = Append(@, Head(up).body)]
    BY <1>11 DEF ReadShort, Takes, IsHead
  <2>2. missed' \in [Sids -> Seq(Payloads)]
    <3>1. missed \in [Sids -> Seq(Payloads)] /\ Head(up).body \in Payloads /\ Head(up).sid \in Sids
      BY <1>1, <1>2, <2>1 DEF TypeOK, WireFrames
    <3>2. Append(missed[Head(up).sid], Head(up).body) \in Seq(Payloads)
      BY <3>1
    <3> QED
      BY <2>1, <3>1, <3>2
  <2> QED
    BY <1>1, <2>1, <2>2 DEF TypeOK
<1>7. CASE ReadEnd
  BY <1>1, <1>7 DEF ReadEnd, Takes, IsHead, TypeOK
<1>8. CASE ReadStops
  BY <1>8 DEF ReadStops, TypeOK
<1>9. CASE Drained
  BY <1>9 DEF Drained, TypeOK
<1>10. CASE ConnectReturns
  <2>1. cur \in Sids /\ reader' = "reading" /\ cur' = "none"
        /\ UNCHANGED <<linkVars, clientVars, mode, outVars, said, taken, heard, missed>>
    BY <1>10 DEF ConnectReturns, TypeOK
  <2>2. streams' \subseteq Sids /\ remote' \in [Sids -> {"none", "open", "closed"}]
    BY <1>10, <2>1 DEF ConnectReturns, TypeOK
  <2>3. tasks' = tasks \/ \E t \in Tasks : tasks' = tasks \cup {t}
    BY <1>10, <2>1, TaskTyped DEF ConnectReturns, Spawn
  <2>4. tasks' \subseteq Tasks /\ IsFiniteSet(tasks')
    BY <2>3, Spawned
  <2> QED
    BY <2>1, <2>2, <2>4 DEF TypeOK
<1> QED
  BY <1>3, <1>4, <1>5, <1>6, <1>7, <1>8, <1>9, <1>10, <1>11 DEF ReaderNext

-----------------------------------------------------------------------------
\* Types: the tasks, the egress pump and the remotes.

\* What a step of a task does to the tasks.
LEMMA MovedTyped ==
  ASSUME Typed, NEW t \in tasks,
         NEW at \in {"lock", "write", "read", "send", "end", "remove"}, NEW arg \in Payloads,
         Moves(t, at, arg)
  PROVE  tasks' \subseteq Tasks /\ IsFiniteSet(tasks')
<1>1. tasks \subseteq Tasks /\ t \in Tasks /\ IsFiniteSet(tasks)
  BY DEF Typed, TypeOK
<1>2. Task(t.job, t.sid, at, arg) \in Tasks
  BY <1>1, TaskTyped DEF Tasks
<1>3. tasks' = (tasks \ {t}) \cup {Task(t.job, t.sid, at, arg)}
  BY DEF Moves
<1>4. IsFiniteSet(tasks \ {t})
  BY <1>1, FS_RemoveElement
<1>5. IsFiniteSet((tasks \ {t}) \cup {Task(t.job, t.sid, at, arg)})
  BY <1>4, FS_AddElement
<1> QED
  BY <1>1, <1>2, <1>3, <1>5

LEMMA EndedTyped ==
  ASSUME Typed, NEW t \in tasks, tasks' = tasks \ {t}
  PROVE  tasks' \subseteq Tasks /\ IsFiniteSet(tasks')
BY FS_RemoveElement DEF Typed, TypeOK

LEMMA SentTyped ==
  ASSUME Typed, NEW type \in FrameTypes, NEW s \in Sids, NEW body \in Payloads,
         Sends(type, s, body)
  PROVE  /\ chan' \in Seq(WireFrames) /\ Len(chan') <= Capacity
         /\ egress = "running" =>
              \E f \in WireFrames : /\ chan' = Append(chan, f)
                                    /\ f.type = type /\ f.sid = s /\ f.body = body
         /\ egress # "running" => chan' = chan
<1> DEFINE f == Frame(type, s, IF mode = "sealed" THEN "ws" ELSE "none", body)
<1>1. f \in WireFrames
  BY FrameTyped
<1>2. chan \in Seq(WireFrames) /\ Len(chan) <= Capacity /\ Capacity \in Nat
  BY RoomAssumption DEF Typed, TypeOK
<1>3. f.type = type /\ f.sid = s /\ f.body = body
  BY DEF Frame
<1>4. CASE egress = "running"
  <2>1. Len(chan) < Capacity /\ chan' = Append(chan, f)
    BY <1>4 DEF Sends
  <2> HIDE DEF f
  <2>2. chan' \in Seq(WireFrames) /\ Len(chan') <= Capacity
    BY <1>1, <1>2, <2>1, UpAdds
  <2> QED
    BY <1>1, <1>3, <1>4, <2>1, <2>2
<1>5. CASE egress # "running"
  BY <1>2, <1>5 DEF Sends
<1> QED
  BY <1>4, <1>5

LEMMA TasksTyped ==
  ASSUME Typed, TaskKinds, NEW t \in tasks, TaskNext(t)
  PROVE  Typed'
<1> USE DEF linkVars, readerVars, outVars, remoteVars, clientVars
<1>1. /\ t \in Tasks /\ t.sid \in Sids /\ t.arg \in Payloads
      /\ t.job \in {"pump", "write", "datagram", "fetch"}
  BY DEF Typed, TypeOK, Tasks
<1>2. t.job = "pump" => t.sid \in Raw
  BY <1>1 DEF TaskKinds, TcpPump, UdpPump, Writer, Raw
<1>3. {"none", "junk"} \subseteq Payloads
  BY ConstantsTyped
<1>4. CASE TakesLock(t)
  <2>1. tasks' \subseteq Tasks /\ IsFiniteSet(tasks')
    BY <1>1, <1>4, MovedTyped DEF TakesLock
  <2> QED
    BY <1>4, <2>1 DEF TakesLock, Typed, TypeOK
<1>5. CASE Writes(t)
  <2>1. tasks' \subseteq Tasks /\ IsFiniteSet(tasks')
    BY <1>1, <1>3, <1>5, MovedTyped, EndedTyped DEF Writes
  <2>2. heard' \in [Sids -> Seq(Payloads)]
    <3>1. heard \in [Sids -> Seq(Payloads)] /\ Append(heard[t.sid], t.arg) \in Seq(Payloads)
      BY <1>1 DEF Typed, TypeOK
    <3> QED
      BY <1>5, <3>1 DEF Writes
  <2>3. missed' \in [Sids -> Seq(Payloads)]
    <3>1. missed \in [Sids -> Seq(Payloads)] /\ Append(missed[t.sid], t.arg) \in Seq(Payloads)
      BY <1>1 DEF Typed, TypeOK
    <3> QED
      BY <1>5, <3>1 DEF Writes
  <2> QED
    BY <1>5, <2>1, <2>2, <2>3 DEF Writes, Typed, TypeOK
<1>6. CASE PumpReads(t)
  <2>1. t.sid \in Raw /\ taken \in [Sids -> Nat] /\ said \in [Sids -> Nat]
        /\ \A s \in Raw : taken[s] <= said[s] /\ said[s] <= Len(Says[s])
    BY <1>2, <1>6 DEF PumpReads, Typed, TypeOK
  <2>2. CASE taken[t.sid] < said[t.sid] /\ taken' = [taken EXCEPT ![t.sid] = @ + 1]
             /\ Moves(t, "send", Says[t.sid][taken[t.sid] + 1])
    <3>1. Says[t.sid] \in Seq(Bodies) /\ Bodies \subseteq Payloads /\ Len(Says[t.sid]) \in Nat
      BY <1>1, ConstantsTyped
    <3>2. taken[t.sid] + 1 \in 1..Len(Says[t.sid])
      BY <1>1, <2>1, <2>2, <3>1
    <3>3. Says[t.sid][taken[t.sid] + 1] \in Payloads
      BY <3>1, <3>2
    <3>4. tasks' \subseteq Tasks /\ IsFiniteSet(tasks')
      BY <2>2, <3>3, MovedTyped
    <3>5. taken' \in [Sids -> Nat] /\ \A s \in Raw : taken'[s] <= said[s]
      BY <1>1, <2>1, <2>2 DEF Raw
    <3> QED
      BY <1>6, <3>4, <3>5 DEF PumpReads, Typed, TypeOK
  <2>3. CASE UNCHANGED taken /\ Moves(t, IF Proto[t.sid] = "udp" THEN "remove" ELSE "end", "none")
    <3>1. tasks' \subseteq Tasks /\ IsFiniteSet(tasks')
      BY <1>3, <2>3, MovedTyped
    <3> QED
      BY <1>6, <2>3, <3>1 DEF PumpReads, Typed, TypeOK
  <2> QED
    BY <1>6, <2>2, <2>3 DEF PumpReads
<1>7. CASE FetchReads(t)
  <2>1. tasks' \subseteq Tasks /\ IsFiniteSet(tasks')
    BY <1>1, <1>3, <1>7, MovedTyped DEF FetchReads
  <2> QED
    BY <1>7, <2>1 DEF FetchReads, Typed, TypeOK
<1>8. CASE SendsData(t)
  <2>1. tasks' \subseteq Tasks /\ IsFiniteSet(tasks')
    BY <1>3, <1>8, MovedTyped DEF SendsData, AfterSend
  <2>2. chan' \in Seq(WireFrames) /\ Len(chan') <= Capacity
    BY <1>1, <1>8, SentTyped DEF SendsData, DataType, FrameTypes
  <2> QED
    BY <1>8, <2>1, <2>2 DEF SendsData, Typed, TypeOK
<1>9. CASE SendsEnd(t)
  <2>1. tasks' \subseteq Tasks /\ IsFiniteSet(tasks')
    BY <1>3, <1>9, MovedTyped DEF SendsEnd
  <2>2. chan' \in Seq(WireFrames) /\ Len(chan') <= Capacity
    BY <1>1, <1>3, <1>9, SentTyped DEF SendsEnd, FrameTypes
  <2> QED
    BY <1>9, <2>1, <2>2 DEF SendsEnd, Typed, TypeOK
<1>10. CASE Removes(t)
  BY <1>10, EndedTyped DEF Removes, Typed, TypeOK
<1> QED
  BY <1>4, <1>5, <1>6, <1>7, <1>8, <1>9, <1>10 DEF TaskNext

LEMMA EgressTyped ==
  ASSUME Typed, Egress \/ EgressEnds
  PROVE  Typed'
<1> USE DEF linkVars, readerVars, outVars, remoteVars, clientVars
<1>1. chan \in Seq(WireFrames) /\ Len(chan) <= Capacity /\ wire \in Seq(WireFrames)
      /\ Capacity \in Nat
  BY RoomAssumption DEF Typed, TypeOK
<1>2. CASE Egress
  <2>1. Tail(chan) \in Seq(WireFrames) /\ Head(chan) \in WireFrames /\ Len(Tail(chan)) <= Capacity
        /\ Append(wire, Head(chan)) \in Seq(WireFrames)
    BY <1>1, <1>2, UpTakes DEF Egress
  <2>2. <<>> \in Seq(WireFrames) /\ Len(<<>>) = 0
    OBVIOUS
  <2>3. chan' \in Seq(WireFrames) /\ Len(chan') <= Capacity /\ wire' \in Seq(WireFrames)
        /\ egress' \in {"running", "done"}
    <3>1. CASE wire' = Append(wire, Head(chan)) /\ chan' = Tail(chan) /\ UNCHANGED egress
      BY <2>1, <3>1 DEF Typed, TypeOK
    <3>2. CASE egress' = "done" /\ chan' = <<>> /\ UNCHANGED wire
      BY <1>1, <2>2, <3>2
    <3> QED
      BY <1>2, <3>1, <3>2 DEF Egress
  <2> QED
    BY <1>2, <2>3 DEF Egress, Typed, TypeOK
<1>3. CASE EgressEnds
  BY <1>3 DEF EgressEnds, Typed, TypeOK
<1> QED
  BY <1>2, <1>3

LEMMA RemoteTyped ==
  ASSUME Typed, NEW s \in Sids, RemoteSays(s) \/ RemoteCloses(s)
  PROVE  Typed'
<1> USE DEF linkVars, readerVars, outVars, remoteVars, clientVars
<1>1. taken \in [Sids -> Nat] /\ said \in [Sids -> Nat]
      /\ \A r \in Raw : taken[r] <= said[r] /\ said[r] <= Len(Says[r])
  BY DEF Typed, TypeOK
<1>0. \A r \in Raw : r \in Sids /\ Len(Says[r]) \in Nat
  BY ConstantsTyped
<1>2. CASE RemoteSays(s)
  <2>1. said' \in [Sids -> Nat] /\ \A r \in Raw : taken[r] <= said'[r] /\ said'[r] <= Len(Says[r])
    <3>1. said' = [said EXCEPT ![s] = @ + 1] /\ said[s] < Len(Says[s]) /\ s \in Raw
      BY <1>2, ConstantsTyped DEF RemoteSays
    <3> QED
      BY <1>0, <1>1, <3>1
  <2> QED
    BY <1>2, <2>1 DEF RemoteSays, Typed, TypeOK
<1>3. CASE RemoteCloses(s)
  BY <1>3 DEF RemoteCloses, Typed, TypeOK
<1> QED
  BY <1>2, <1>3

-----------------------------------------------------------------------------
\* The payload frames of a queue.

PayloadsIn(q, s) == {i \in DOMAIN q : IsPayload(q[i], s)}

LEMMA PayloadsFinite ==
  ASSUME NEW q \in Seq(WireFrames), NEW s
  PROVE  IsFiniteSet(PayloadsIn(q, s)) /\ Cardinality(PayloadsIn(q, s)) \in Nat
<1>1. PayloadsIn(q, s) \in SUBSET (1..Len(q))
  BY DEF PayloadsIn
<1>2. IsFiniteSet(1..Len(q))
  BY FS_Interval
<1> QED
  BY <1>1, <1>2, FS_Subset, FS_CardinalityType

LEMMA PayloadsAdd ==
  ASSUME NEW q \in Seq(WireFrames), NEW f \in WireFrames, NEW s
  PROVE  /\ PayloadsIn(Append(q, f), s) =
              IF IsPayload(f, s) THEN PayloadsIn(q, s) \cup {Len(q) + 1} ELSE PayloadsIn(q, s)
         /\ Len(q) + 1 \notin PayloadsIn(q, s)
         /\ Cardinality(PayloadsIn(Append(q, f), s)) =
              Cardinality(PayloadsIn(q, s)) + (IF IsPayload(f, s) THEN 1 ELSE 0)
<1> DEFINE n == Len(q) + 1
<1>1. /\ DOMAIN Append(q, f) = 1..n /\ DOMAIN q = 1..Len(q) /\ Len(q) \in Nat
      /\ \A i \in 1..Len(q) : Append(q, f)[i] = q[i]
      /\ Append(q, f)[n] = f
  BY UpAdds
<1>2. \A i : i \in 1..n <=> i \in 1..Len(q) \/ i = n
  BY <1>1
<1>3. n \notin PayloadsIn(q, s)
  BY <1>1 DEF PayloadsIn
<1>4. PayloadsIn(Append(q, f), s) =
        IF IsPayload(f, s) THEN PayloadsIn(q, s) \cup {n} ELSE PayloadsIn(q, s)
  <2> HIDE DEF n, IsPayload
  <2> QED
    BY <1>1, <1>2 DEF PayloadsIn
<1>5. IsFiniteSet(PayloadsIn(q, s)) /\ Cardinality(PayloadsIn(q, s)) \in Nat
  BY PayloadsFinite
<1> HIDE DEF PayloadsIn, IsPayload, n
<1>6. Cardinality(PayloadsIn(q, s) \cup {n}) = Cardinality(PayloadsIn(q, s)) + 1
  BY <1>3, <1>5, FS_AddElement
<1> QED
  BY <1>3, <1>4, <1>5, <1>6 DEF n

LEMMA PayloadsTail ==
  ASSUME NEW q \in Seq(WireFrames), q # <<>>, NEW s
  PROVE  /\ \A i : i \in PayloadsIn(Tail(q), s) <=> i \in 1..(Len(q) - 1) /\ i + 1 \in PayloadsIn(q, s)
         /\ 1 \in PayloadsIn(q, s) <=> IsPayload(Head(q), s)
         /\ Cardinality(PayloadsIn(q, s)) =
              Cardinality(PayloadsIn(Tail(q), s)) + (IF IsPayload(Head(q), s) THEN 1 ELSE 0)
<1>1. /\ DOMAIN Tail(q) = 1..(Len(q) - 1) /\ DOMAIN q = 1..Len(q) /\ Len(q) \in Nat \ {0}
      /\ \A i \in 1..(Len(q) - 1) : Tail(q)[i] = q[i + 1]
      /\ Head(q) = q[1] /\ Tail(q) \in Seq(WireFrames)
  BY UpTakes
<1> DEFINE Rest == PayloadsIn(q, s) \ {1}
           shift == [i \in PayloadsIn(Tail(q), s) |-> i + 1]
<1> HIDE DEF IsPayload
<1>2. Rest = {i \in 2..Len(q) : IsPayload(q[i], s)}
  BY <1>1 DEF PayloadsIn
<1>3. PayloadsIn(Tail(q), s) = {i \in 1..(Len(q) - 1) : IsPayload(q[i + 1], s)}
  BY <1>1 DEF PayloadsIn
<1>4. shift \in Bijection(PayloadsIn(Tail(q), s), Rest)
  <2>1. \A i \in PayloadsIn(Tail(q), s) : shift[i] = i + 1 /\ i \in Nat
    BY <1>3, <1>1
  <2>2. \A i \in PayloadsIn(Tail(q), s) : i + 1 \in Rest
    BY <1>2, <1>3, <1>1
  <2>3. \A j \in Rest : j - 1 \in PayloadsIn(Tail(q), s) /\ j = (j - 1) + 1
    BY <1>2, <1>3, <1>1
  <2> HIDE DEF Rest
  <2>4. shift \in [PayloadsIn(Tail(q), s) -> Rest]
    BY <2>2
  <2> HIDE DEF shift
  <2>5. \A i, j \in PayloadsIn(Tail(q), s) : shift[i] = shift[j] => i = j
    BY <2>1
  <2>6. \A j \in Rest : \E i \in PayloadsIn(Tail(q), s) : shift[i] = j
    BY <2>1, <2>3
  <2> QED
    BY <2>4, <2>5, <2>6 DEF Bijection, Injection, Surjection, IsInjective
<1>5. Cardinality(Rest) = Cardinality(PayloadsIn(Tail(q), s))
  <2>1. IsFiniteSet(PayloadsIn(Tail(q), s))
    BY <1>1, PayloadsFinite
  <2>2. ExistsBijection(PayloadsIn(Tail(q), s), Rest)
    BY <1>4 DEF ExistsBijection
  <2> QED
    BY <2>1, <2>2, FS_Bijection
<1>6. 1 \in PayloadsIn(q, s) <=> IsPayload(Head(q), s)
  BY <1>1 DEF PayloadsIn
<1>7. Cardinality(Rest) = IF 1 \in PayloadsIn(q, s) THEN Cardinality(PayloadsIn(q, s)) - 1
                                                   ELSE Cardinality(PayloadsIn(q, s))
  BY PayloadsFinite, FS_RemoveElement
<1>8. Cardinality(PayloadsIn(q, s)) \in Nat /\ Cardinality(PayloadsIn(Tail(q), s)) \in Nat
  BY <1>1, PayloadsFinite
<1>9. \A i : i \in PayloadsIn(Tail(q), s) <=> i \in 1..(Len(q) - 1) /\ i + 1 \in PayloadsIn(q, s)
  BY <1>1, <1>3 DEF PayloadsIn
<1> HIDE DEF Rest, PayloadsIn
<1> QED
  BY <1>5, <1>6, <1>7, <1>8, <1>9

LEMMA ComingIs == /\ \A s : Coming(s) = PayloadsIn(up, s) /\ PayloadsOut(s) = PayloadsIn(Out, s)
                  /\ \A s : Coming(s)' = PayloadsIn(up', s) /\ PayloadsOut(s)' = PayloadsIn(Out', s)
BY DEF Coming, PayloadsOut, PayloadsIn

\* What the writers of a stream and the queue hold.
LEMMA WritersFinite ==
  ASSUME Typed, NEW s
  PROVE  IsFiniteSet(Writers(s)) /\ Cardinality(Writers(s)) \in Nat
<1>1. Writers(s) \in SUBSET tasks /\ IsFiniteSet(tasks)
  BY DEF Writers, Typed
<1> QED
  BY <1>1, FS_Subset, FS_CardinalityType

-----------------------------------------------------------------------------
\* The client: what it leaves alone.

\* The frames that are on their way stay as they should be while the client
\* adds one.
LEMMA FrameAdded ==
  ASSUME Inductive, NEW f \in WireFrames, ClientSends(f),
         ended \subseteq ended', \A s \in Sids : sent'[s] >= sent[s] /\ sent'[s] \in Nat,
         Fits(f)', f.type = CONNECT => \A i \in DOMAIN up : up[i].sid # f.sid,
         \A i \in DOMAIN up : up[i].sid = f.sid => up[i].type \notin {END, REQ}
  PROVE  UpFrames' /\ UpOrder'
<1>1. up' = Append(up, f) /\ up \in Seq(WireFrames)
  BY DEF ClientSends, Inductive, Typed, TypeOK
<1>2. /\ DOMAIN up = 1..Len(up) /\ Len(up) \in Nat /\ DOMAIN up' = 1..(Len(up) + 1)
      /\ \A i \in 1..Len(up) : up'[i] = up[i]
      /\ up'[Len(up) + 1] = f
  BY <1>1, UpAdds
<1>3. UNCHANGED <<remote, cur>>
  BY DEF ClientSends, remoteVars, readerVars
<1>4. \A i \in DOMAIN up : Fits(up[i])'
  <2>1. \A i \in DOMAIN up : up[i] \in WireFrames /\ up'[i] = up[i] /\ Fits(up[i])
    BY <1>1, <1>2 DEF Inductive, UpFrames
  <2>2. sent \in [Sids -> Nat]
    BY DEF Inductive, Typed, TypeOK
  <2>3. ASSUME NEW g, Fits(g) PROVE Fits(g)'
    BY <1>3, <2>2, <2>3 DEF Fits, Hello, CONNECT, DATA, END, UDP, REQ
  <2> QED
    BY <2>1, <2>3
<1>5. UpFrames'
  BY <1>2, <1>4 DEF UpFrames
<1>6. UpOrder'
  <2>1. ASSUME NEW i \in DOMAIN up', NEW j \in DOMAIN up', i < j, up'[i].sid = up'[j].sid,
               up'[i].type # Hello
        PROVE  up'[i].type \notin {END, REQ} /\ up'[j].type # CONNECT
    <3>1. i \in 1..Len(up) /\ up'[i] = up[i]
      BY <1>2, <2>1
    <3>2. CASE j \in 1..Len(up)
      BY <1>2, <2>1, <3>1, <3>2 DEF Inductive, UpOrder
    <3>3. CASE j = Len(up) + 1
      BY <1>2, <2>1, <3>1, <3>3
    <3> QED
      BY <1>2, <3>2, <3>3
  <2> QED
    BY <2>1 DEF UpOrder
<1> QED
  BY <1>5, <1>6

\* DownInOrder is about what has left, what the remotes said and the pumps.
LEMMA DownKept ==
  ASSUME DownInOrder, UNCHANGED <<tasks, chan, wire, egress, taken>>
  PROVE  DownInOrder'
<1>1. Out' = Out
  BY DEF Out
<1>2. \A s : PayloadsOut(s)' = PayloadsOut(s) /\ InHand(s)' = InHand(s)
  BY <1>1 DEF PayloadsOut, InHand
<1> QED
  BY <1>1, <1>2 DEF DownInOrder

\* What a client does leaves the node as it is.
LEMMA ClientQuiet ==
  ASSUME Inductive, ClientNext
  PROVE  /\ UNCHANGED <<readerVars, streams, tasks, outVars, remoteVars>>
         /\ ended \subseteq ended' /\ ended' \subseteq Sids
         /\ \A s \in Sids : sent[s] \in Nat /\ sent'[s] \in Nat /\ sent'[s] >= sent[s]
         /\ Starting' /\ Fresh' /\ TaskKinds' /\ OneEach' /\ Ended'
         /\ DownInOrder' /\ EndIsTrue' /\ MapFollowsPumps'
<1> USE DEF readerVars, outVars, remoteVars, clientVars, linkVars
<1>1. UNCHANGED <<readerVars, streams, tasks, outVars, remoteVars>>
  BY DEF ClientNext, ClientStarts, ClientConnects, ClientTalks, ClientEnds, LinkGoes, ClientSends
<1>2. sent \in [Sids -> Nat] /\ ended \subseteq Sids
  BY DEF Inductive, Typed, TypeOK
<1>3. ended \subseteq ended' /\ ended' \subseteq Sids
  BY <1>2 DEF ClientNext, ClientStarts, ClientConnects, ClientTalks, ClientEnds, LinkGoes
<1>4. ASSUME NEW s \in Sids, ClientConnects(s) \/ ClientTalks(s) \/ ClientEnds(s)
      PROVE  \A r \in Sids : sent[r] \in Nat /\ sent'[r] \in Nat /\ sent'[r] >= sent[r]
  <2>1. \/ sent' = sent \/ sent' = [sent EXCEPT ![s] = @ + 1]
        \/ sent[s] = 0 /\ sent' = [sent EXCEPT ![s] = 1]
    BY <1>4 DEF ClientConnects, ClientTalks, ClientEnds
  <2> QED
    BY <1>2, <2>1
<1>5. \A s \in Sids : sent[s] \in Nat /\ sent'[s] \in Nat /\ sent'[s] >= sent[s]
  <2>1. CASE ClientStarts \/ LinkGoes
    BY <1>2, <2>1 DEF ClientStarts, LinkGoes
  <2> QED
    BY <1>4, <2>1 DEF ClientNext
<1>6. Starting' /\ TaskKinds' /\ OneEach'
  BY <1>1 DEF Inductive, Starting, TaskKinds, OneEach, TcpPump, UdpPump, Writer
<1>7. Fresh'
  BY <1>1 DEF Inductive, Fresh, Tasked, Answered, Out
<1>8. Ended' /\ EndIsTrue'
  BY <1>1 DEF Inductive, Ended, EndIsTrue, Out
<1>9. DownInOrder'
  <2>1. DownInOrder
    BY DEF Inductive
  <2> QED
    BY <1>1, <2>1, DownKept
<1>10. MapFollowsPumps'
  BY <1>1, <1>3 DEF Inductive, MapFollowsPumps
<1> QED
  BY <1>1, <1>3, <1>5, <1>6, <1>7, <1>8, <1>9, <1>10

-----------------------------------------------------------------------------
\* The client: what it puts on its way.

LEMMA QueueAdds ==
  ASSUME Inductive, NEW f \in WireFrames, ClientSends(f)
  PROVE  /\ DOMAIN up = 1..Len(up) /\ Len(up) \in Nat /\ DOMAIN up' = 1..(Len(up) + 1)
         /\ \A i \in 1..Len(up) : up'[i] = up[i]
         /\ up'[Len(up) + 1] = f
         /\ \A s : Coming(s)' = IF IsPayload(f, s) THEN Coming(s) \cup {Len(up) + 1} ELSE Coming(s)
         /\ \A s : Cardinality(Coming(s)') = Cardinality(Coming(s)) + (IF IsPayload(f, s) THEN 1 ELSE 0)
         /\ \A s : Connecting(s)' <=> Connecting(s) \/ (f.sid = s /\ f.type = CONNECT)
         /\ \A s : Asking(s)' <=> Asking(s) \/ (f.sid = s /\ f.type = REQ)
         /\ link' = "open" /\ link = "open" /\ Over'
<1>1. up' = Append(up, f) /\ up \in Seq(WireFrames)
  BY DEF ClientSends, Inductive, Typed, TypeOK
<1>2. /\ DOMAIN up = 1..Len(up) /\ Len(up) \in Nat /\ DOMAIN up' = 1..(Len(up) + 1)
      /\ \A i \in 1..Len(up) : up'[i] = up[i]
      /\ up'[Len(up) + 1] = f
  BY <1>1, UpAdds
<1>3. \A s : /\ Coming(s)' = IF IsPayload(f, s) THEN Coming(s) \cup {Len(up) + 1} ELSE Coming(s)
             /\ Cardinality(Coming(s)') = Cardinality(Coming(s)) + (IF IsPayload(f, s) THEN 1 ELSE 0)
  BY <1>1, ComingIs, PayloadsAdd
<1>4. \A s : Connecting(s)' <=> Connecting(s) \/ (f.sid = s /\ f.type = CONNECT)
  <2>1. \A i : i \in DOMAIN up' <=> i \in DOMAIN up \/ i = Len(up) + 1
    BY <1>2
  <2> QED
    BY <1>2, <2>1 DEF Connecting
<1>5. \A s : Asking(s)' <=> Asking(s) \/ (f.sid = s /\ f.type = REQ)
  <2>1. \A i : i \in DOMAIN up' <=> i \in DOMAIN up \/ i = Len(up) + 1
    BY <1>2
  <2> QED
    BY <1>2, <2>1 DEF Asking
<1>6. link' = "open" /\ link = "open" /\ Over'
  BY DEF ClientSends, Inductive, Over, readerVars, outVars
<1> QED
  BY <1>2, <1>3, <1>4, <1>5, <1>6

\* A frame that is no payload of s, or a step of somebody else.
LEMMA WholeKept ==
  ASSUME NEW s, WholeOf(s), Coming(s)' = Coming(s), \A i \in Coming(s) : up'[i] = up[i],
         Writers(s)' = Writers(s), sent'[s] = sent[s], Gone(s)' = Gone(s), Met(s)' = Met(s)
  PROVE  WholeOf(s)'
<1>1. {up'[i].body : i \in Coming(s)'} = {up[i].body : i \in Coming(s)}
  OBVIOUS
<1> QED
  BY <1>1 DEF WholeOf

\* Where the chunks of s went, when s is left alone.
LEMMA FateKept ==
  ASSUME NEW s, heard'[s] = heard[s], missed'[s] = missed[s]
  PROVE  Gone(s)' = Gone(s) /\ Met(s)' = Met(s)
BY DEF Gone, Met, ToSet

\* ... and when one more is heard or missed.
LEMMA GrownBy ==
  ASSUME NEW q \in Seq(Payloads), NEW c \in Payloads
  PROVE  /\ Len(Append(q, c)) = Len(q) + 1 /\ Len(q) \in Nat
         /\ ToSet(Append(q, c)) = ToSet(q) \cup {c}
<1>1. /\ DOMAIN q = 1..Len(q)
      /\ DOMAIN Append(q, c) = 1..(Len(q) + 1)
      /\ \A i \in 1..Len(q) : Append(q, c)[i] = q[i]
      /\ Append(q, c)[Len(q) + 1] = c
      /\ Len(q) \in Nat /\ Len(Append(q, c)) = Len(q) + 1
  OBVIOUS
<1>2. \A i : i \in 1..(Len(q) + 1) <=> i \in 1..Len(q) \/ i = Len(q) + 1
  BY <1>1
<1> QED
  BY <1>1, <1>2 DEF ToSet

LEMMA FateTyped ==
  ASSUME Inductive, NEW s \in Raw
  PROVE  heard[s] \in Seq(Payloads) /\ missed[s] \in Seq(Payloads) /\ Gone(s) \in Nat
<1>1. heard \in [Sids -> Seq(Payloads)] /\ missed \in [Sids -> Seq(Payloads)] /\ s \in Sids
  BY DEF Inductive, Typed, TypeOK, Raw
<1>2. heard[s] \in Seq(Payloads) /\ missed[s] \in Seq(Payloads)
  BY <1>1
<1>3. Len(heard[s]) \in Nat /\ Len(missed[s]) \in Nat
  BY <1>2
<1>4. Gone(s) \in Nat
  <2> DEFINE H == Len(heard[s])
             M == Len(missed[s])
  <2>1. H \in Nat /\ M \in Nat /\ Gone(s) = H + M
    BY <1>3 DEF Gone
  <2> HIDE DEF H, M
  <2> QED
    BY <2>1
<1> QED
  BY <1>2, <1>4

LEMMA FateGrows ==
  ASSUME Inductive, NEW s \in Raw, NEW c \in Payloads,
         \/ heard'[s] = Append(heard[s], c) /\ missed'[s] = missed[s]
         \/ missed'[s] = Append(missed[s], c) /\ heard'[s] = heard[s]
  PROVE  Gone(s)' = Gone(s) + 1 /\ Met(s)' = Met(s) \cup {c} /\ Gone(s) \in Nat
<1>1. heard[s] \in Seq(Payloads) /\ missed[s] \in Seq(Payloads) /\ Gone(s) \in Nat
  BY FateTyped
<1>2. CASE heard'[s] = Append(heard[s], c) /\ missed'[s] = missed[s]
  <2>1. /\ Len(heard'[s]) = Len(heard[s]) + 1 /\ Len(heard[s]) \in Nat /\ Len(missed[s]) \in Nat
        /\ ToSet(heard'[s]) = ToSet(heard[s]) \cup {c}
        /\ Len(missed'[s]) = Len(missed[s]) /\ ToSet(missed'[s]) = ToSet(missed[s])
    BY <1>1, <1>2, GrownBy
  <2>2. Gone(s)' = Gone(s) + 1
    <3> DEFINE H == Len(heard[s])
               M == Len(missed[s])
    <3>1. H \in Nat /\ M \in Nat /\ Gone(s) = H + M
      BY <2>1 DEF Gone
    <3>2. Gone(s)' = (H + 1) + M
      BY <2>1 DEF Gone
    <3> HIDE DEF H, M
    <3> QED
      BY <3>1, <3>2
  <2>3. Met(s)' = Met(s) \cup {c}
    BY <2>1 DEF Met
  <2> QED
    BY <1>1, <2>2, <2>3
<1>3. CASE missed'[s] = Append(missed[s], c) /\ heard'[s] = heard[s]
  <2>1. /\ Len(missed'[s]) = Len(missed[s]) + 1 /\ Len(heard[s]) \in Nat /\ Len(missed[s]) \in Nat
        /\ ToSet(missed'[s]) = ToSet(missed[s]) \cup {c}
        /\ Len(heard'[s]) = Len(heard[s]) /\ ToSet(heard'[s]) = ToSet(heard[s])
    BY <1>1, <1>3, GrownBy
  <2>2. Gone(s)' = Gone(s) + 1
    <3> DEFINE H == Len(heard[s])
               M == Len(missed[s])
    <3>1. H \in Nat /\ M \in Nat /\ Gone(s) = H + M
      BY <2>1 DEF Gone
    <3>2. Gone(s)' = H + (M + 1)
      BY <2>1 DEF Gone
    <3> HIDE DEF H, M
    <3> QED
      BY <3>1, <3>2
  <2>3. Met(s)' = Met(s) \cup {c}
    BY <2>1 DEF Met
  <2> QED
    BY <1>1, <2>2, <2>3
<1> QED
  BY <1>2, <1>3

LEMMA ClientStep ==
  ASSUME Inductive, ClientNext
  PROVE  /\ UpFrames' /\ UpOrder' /\ Ciphers' /\ Unopened' /\ Unasked' /\ Over' /\ Known'
         /\ Whole'
<1> USE DEF readerVars, outVars, remoteVars, clientVars, linkVars
<1> USE DEF Hello, CONNECT, DATA, END, UDP, REQ, RES
<1>1. /\ UNCHANGED <<mode, reader, cur, streams, tasks, chan, egress, wire, remote, said, taken, heard, missed>>
      /\ ended \subseteq ended' /\ ended' \subseteq Sids
      /\ \A s \in Sids : sent[s] \in Nat /\ sent'[s] \in Nat /\ sent'[s] >= sent[s]
  BY ClientQuiet
<1>2. \A s : /\ Writers(s)' = Writers(s)
             /\ Tasked(s)' <=> Tasked(s)
             /\ Answered(s)' <=> Answered(s)
  BY <1>1 DEF Writers, Tasked, Answered, Out
<1>3. CASE LinkGoes
  <2>1. UNCHANGED <<client, sent, ended>> /\ (up' = <<>> \/ up' = up) /\ link = "open"
        /\ (link' = "closing" \/ link' = "lost") /\ (link' = "closing" => up' = up)
    BY <1>3 DEF LinkGoes
  <2>2. UpFrames' /\ UpOrder' /\ Ciphers'
    <3>1. CASE up' = up
      BY <1>1, <2>1, <3>1 DEF Inductive, UpFrames, Fits, UpOrder, Ciphers, Key
    <3>2. CASE up' = <<>>
      BY <1>1, <2>1, <3>2 DEF Inductive, UpFrames, UpOrder, Ciphers
    <3> QED
      BY <2>1, <3>1, <3>2
  <2>3. Unopened' /\ Over'
    BY <1>1, <2>1 DEF Inductive, Unopened, Over
  <2>4. Unasked'
    BY <1>1, <1>2, <2>1 DEF Inductive, Unasked, Asking
  <2>5. Known'
    BY <1>1, <2>1 DEF Inductive, Known, Coming
  <2>6. Whole'
    <3>1. ASSUME NEW s \in Raw, Live(s)' PROVE WholeOf(s)'
      <4>1. link' # "lost" /\ up' = up
        BY <2>1, <3>1 DEF Live
      <4>2. Live(s)
        BY <1>1, <2>1, <3>1, <4>1 DEF Live, Connecting
      <4>3. Coming(s)' = Coming(s) /\ \A i \in Coming(s) : up'[i] = up[i]
        BY <4>1 DEF Coming
      <4> QED
        BY <1>1, <1>2, <2>1, <4>2, <4>3, WholeKept, FateKept DEF Inductive, Whole
    <3> QED
      BY <3>1 DEF Whole
  <2> QED
    BY <2>2, <2>3, <2>4, <2>5, <2>6
<1>4. CASE ClientStarts
  <2>1. UNCHANGED <<sent, ended>> /\ client = "new" /\ up = <<>> /\ mode = "start"
    BY <1>4 DEF ClientStarts, Inductive, Ciphers
  <2>2. CASE client' = "hello" /\ ClientSends(HelloFrame)
    <3>1. HelloFrame \in WireFrames /\ HelloFrame.type = Hello /\ HelloFrame.sid = 0
      BY HelloTyped DEF HelloFrame, Frame
    <3>2. up' = <<HelloFrame>>
      BY <2>1, <2>2 DEF ClientSends
    <3>3. DOMAIN up' = {1} /\ up'[1] = HelloFrame
      BY <3>2
    <3>4. 0 \notin Raw
      BY PayloadAssumption DEF Raw
    <3>5. UpFrames' /\ UpOrder' /\ Ciphers'
      <4>1. \A s \in Sids : sent[s] = 0
        BY <2>1 DEF Inductive, Ciphers
      <4>2. UpFrames' /\ UpOrder'
        BY <1>1, <3>1, <3>3 DEF UpFrames, Fits, UpOrder
      <4> QED
        BY <1>1, <2>1, <2>2, <3>1, <3>3, <3>4, <4>1, <4>2 DEF Ciphers
    <3>6. Over' /\ link' = link /\ \A s : Coming(s)' = {}
      BY <2>2, <3>1, <3>3, QueueAdds DEF Coming, IsPayload, ClientSends
    <3>7. \A s : (Asking(s)' <=> Asking(s)) /\ (Connecting(s)' <=> Connecting(s))
      BY <2>1, <3>1, <3>3 DEF Asking, Connecting
    <3>8. Unopened' /\ Unasked' /\ Known'
      BY <1>1, <1>2, <2>1, <3>6, <3>7 DEF Inductive, Unopened, Unasked, Known
    <3>9. Whole'
      <4>1. ASSUME NEW s \in Raw, Live(s)' PROVE WholeOf(s)'
        <5>1. Live(s)
          BY <1>1, <3>6, <3>7, <4>1 DEF Live
        <5>2. Coming(s) = {}
          BY <2>1 DEF Coming
        <5> QED
          BY <1>1, <1>2, <2>1, <3>6, <5>1, <5>2, WholeKept, FateKept DEF Inductive, Whole
      <4> QED
        BY <4>1 DEF Whole
    <3> QED
      BY <3>5, <3>6, <3>8, <3>9
  <2>3. CASE client' = "plain" /\ UNCHANGED <<up, link>>
    <3>1. UpFrames' /\ UpOrder' /\ Ciphers' /\ Unopened' /\ Over'
      BY <1>1, <2>1, <2>3 DEF Inductive, UpFrames, Fits, UpOrder, Ciphers, Unopened, Over, Key
    <3>2. Unasked' /\ Known'
      BY <1>1, <1>2, <2>1, <2>3 DEF Inductive, Unasked, Asking, Known, Coming
    <3>3. Whole'
      <4>1. ASSUME NEW s \in Raw, Live(s)' PROVE WholeOf(s)'
        <5>1. Live(s) /\ Coming(s)' = Coming(s)
          BY <1>1, <2>3, <4>1 DEF Live, Connecting, Coming
        <5> QED
          BY <1>1, <1>2, <2>1, <2>3, <5>1, WholeKept, FateKept DEF Inductive, Whole
      <4> QED
        BY <4>1 DEF Whole
    <3> QED
      BY <3>1, <3>2, <3>3
  <2> QED
    BY <1>4, <2>2, <2>3 DEF ClientStarts
<1>5. ASSUME NEW s \in Sids, ClientConnects(s)
      PROVE  /\ UpFrames' /\ UpOrder' /\ Ciphers' /\ Unopened' /\ Unasked' /\ Over' /\ Known'
             /\ Whole'
  <2> DEFINE f == Frame(CONNECT, s, Key, "none")
  <2>1. /\ f \in WireFrames /\ f.type = CONNECT /\ f.sid = s /\ f.key = Key
        /\ ClientSends(f) /\ sent[s] = 0 /\ sent' = [sent EXCEPT ![s] = 1]
        /\ UNCHANGED <<client, ended>> /\ (client = "plain" \/ mode = "sealed")
    <3>1. Key \in {"ws", "old", "none"} /\ "none" \in Payloads /\ CONNECT \in FrameTypes
      BY ConstantsTyped DEF Key, FrameTypes
    <3>2. f \in WireFrames
      BY <3>1, FrameTyped
    <3>3. f.type = CONNECT /\ f.sid = s /\ f.key = Key
      BY DEF Frame
    <3> HIDE DEF Key
    <3> QED
      BY <1>5, <3>2, <3>3 DEF ClientConnects, Ready
  <2> HIDE DEF f
  <2>2. sent'[s] = 1 /\ \A r \in Sids : r # s => sent'[r] = sent[r]
    BY <2>1 DEF Inductive, Typed, TypeOK
  <2>3. remote[s] = "none" /\ cur # s
    BY <2>1, ConstantsTyped DEF Inductive, Unopened
  <2>4. \A i \in DOMAIN up : up[i].sid # s
    BY <2>1, PayloadAssumption DEF Inductive, UpFrames, Fits
  <2>5. UpFrames' /\ UpOrder'
    BY <1>1, <2>1, <2>2, <2>3, <2>4, FrameAdded DEF Fits
  <2>6. /\ Over' /\ \A r : Coming(r)' = Coming(r)
        /\ \A r : Connecting(r)' <=> Connecting(r) \/ r = s
        /\ \A r : Asking(r)' <=> Asking(r)
        /\ \A i \in DOMAIN up : up'[i] = up[i]
        /\ link = "open" /\ link' = "open"
    BY <2>1, QueueAdds DEF IsPayload
  <2>7. Ciphers'
    BY <1>1, <2>1, QueueAdds DEF Inductive, Ciphers, Key
  <2>8. Unopened'
    <3>1. cur # "none" => sent'[cur] > 0
      BY <1>1, <2>2, <2>3 DEF Inductive, Unopened, Typed, TypeOK
    <3>2. \A r \in Sids : sent'[r] = 0 => sent[r] = 0
      BY <1>1
    <3> QED
      BY <1>1, <3>1, <3>2 DEF Inductive, Unopened
  <2>9. Unasked'
    BY <1>1, <1>2, <2>2, <2>3, <2>6 DEF Inductive, Unasked, Fresh
  <2>10. Known'
    BY <1>1, <2>1, <2>6 DEF Inductive, Known
  <2>11. ASSUME NEW r \in Raw, Live(r)' PROVE WholeOf(r)'
    <3>1. CASE r # s
      <4>1. Live(r)
        BY <1>1, <2>6, <2>11, <3>1 DEF Live
      <4>2. sent'[r] = sent[r] /\ \A i \in Coming(r) : up'[i] = up[i]
        BY <2>2, <2>6, <3>1 DEF Raw, Coming
      <4> QED
        BY <1>1, <1>2, <2>6, <4>1, <4>2, WholeKept, FateKept DEF Inductive, Whole
    <3>2. CASE r = s
      <4>1. Writers(s) = {} /\ Coming(s) = {} /\ heard[s] = <<>> /\ missed[s] = <<>>
        BY <1>5, <2>3, <2>4 DEF Inductive, Fresh, Tasked, Writers, Coming, IsPayload
      <4>2. /\ Writers(s)' = {} /\ Coming(s)' = {} /\ heard'[s] = <<>> /\ missed'[s] = <<>>
            /\ sent'[s] = 1
        BY <1>1, <1>2, <2>2, <2>6, <4>1
      <4>3. ToSet(<<>>) = {} /\ Len(<<>>) = 0 /\ 1 - 1 = 0 /\ 1..0 = {}
        BY DEF ToSet
      <4> QED
        BY <3>2, <4>2, <4>3, FS_EmptySet DEF WholeOf, Gone, Met
    <3> QED
      BY <3>1, <3>2
  <2> QED
    BY <2>5, <2>6, <2>7, <2>8, <2>9, <2>10, <2>11 DEF Whole
<1>6. ASSUME NEW s \in Sids, ClientEnds(s)
      PROVE  /\ UpFrames' /\ UpOrder' /\ Ciphers' /\ Unopened' /\ Unasked' /\ Over' /\ Known'
             /\ Whole'
  <2> DEFINE f == Frame(END, s, Key, "none")
  <2>1. /\ f \in WireFrames /\ f.type = END /\ f.sid = s /\ f.key = Key /\ s \in Raw
        /\ ClientSends(f) /\ sent[s] > 0 /\ sent' = sent
        /\ client' = client /\ s \notin ended /\ ended' = ended \cup {s}
    <3>1. Key \in {"ws", "old", "none"} /\ "none" \in Payloads /\ END \in FrameTypes
      BY ConstantsTyped DEF Key, FrameTypes
    <3>2. f \in WireFrames
      BY <3>1, FrameTyped
    <3>3. f.type = END /\ f.sid = s /\ f.key = Key
      BY DEF Frame
    <3> HIDE DEF Key
    <3> QED
      BY <1>6, <3>2, <3>3 DEF ClientEnds, Raw
  <2> HIDE DEF f
  <2>2. \A i \in DOMAIN up : up[i].sid = s => up[i].type \notin {END, REQ}
    BY <2>1 DEF Inductive, UpFrames, Fits, Raw
  <2>3. UpFrames' /\ UpOrder'
    BY <1>1, <2>1, <2>2, FrameAdded DEF Fits
  <2>4. /\ Over' /\ \A r : Coming(r)' = Coming(r)
        /\ \A r : Connecting(r)' <=> Connecting(r)
        /\ \A r : Asking(r)' <=> Asking(r)
        /\ \A i \in DOMAIN up : up'[i] = up[i]
        /\ link = "open" /\ link' = "open"
    BY <2>1, QueueAdds DEF IsPayload
  <2>5. client # "new" /\ (client = "hello" => mode # "start")
    BY <1>6, <2>1 DEF Inductive, Ciphers
  <2>7. Ciphers'
    BY <1>1, <2>1, <2>5, QueueAdds DEF Inductive, Ciphers, Key
  <2>8. Unopened' /\ Unasked' /\ Known'
    BY <1>1, <1>2, <2>1, <2>4 DEF Inductive, Unopened, Unasked, Known
  <2>9. ASSUME NEW r \in Raw, Live(r)' PROVE WholeOf(r)'
    <3>1. Live(r)
      BY <1>1, <2>4, <2>9 DEF Live
    <3>2. sent'[r] = sent[r] /\ \A i \in Coming(r) : up'[i] = up[i]
      BY <2>1, <2>4 DEF Coming
    <3> QED
      BY <1>1, <1>2, <2>4, <3>1, <3>2, WholeKept, FateKept DEF Inductive, Whole
  <2> QED
    BY <2>3, <2>4, <2>7, <2>8, <2>9 DEF Whole
<1>7. ASSUME NEW s \in Sids, ClientTalks(s)
      PROVE  /\ UpFrames' /\ UpOrder' /\ Ciphers' /\ Unopened' /\ Unasked' /\ Over' /\ Known'
             /\ Whole'
  <2>1. /\ sent[s] > 0 /\ s \notin ended /\ sent' = [sent EXCEPT ![s] = @ + 1]
        /\ client' = client /\ ended' = ended
    BY <1>7 DEF ClientTalks
  <2>2. sent'[s] = sent[s] + 1 /\ \A r \in Sids : r # s => sent'[r] = sent[r]
    BY <2>1 DEF Inductive, Typed, TypeOK
  <2>3. PICK f \in WireFrames :
          /\ ClientSends(f) /\ f.sid = s
          /\ \/ /\ Proto[s] # "l7" /\ f.key = Key /\ f.body = Chunks[s][sent[s]]
                /\ sent[s] <= Len(Chunks[s])
                /\ f.type = IF Proto[s] = "tcp" THEN DATA ELSE UDP
             \/ Proto[s] = "l7" /\ f.type = REQ /\ sent[s] = 1
    <3>1. Key \in {"ws", "old", "none"} /\ {REQ, DATA, UDP} \subseteq FrameTypes /\ s \in Payloads
      BY ConstantsTyped DEF Key, FrameTypes
    <3> HIDE DEF Key
    <3>2. CASE /\ Proto[s] \in {"tcp", "udp"}
               /\ sent[s] <= Len(Chunks[s])
               /\ ClientSends(Frame(IF Proto[s] = "tcp" THEN DATA ELSE UDP, s, Key,
                             Chunks[s][sent[s]]))
      <4> DEFINE g == Frame(IF Proto[s] = "tcp" THEN DATA ELSE UDP, s, Key, Chunks[s][sent[s]])
      <4>1. Chunks[s] \in Seq(Bodies) /\ Bodies \subseteq Payloads
        BY ConstantsTyped
      <4>2. sent[s] \in 1..Len(Chunks[s])
        BY <1>1, <2>1, <3>2, <4>1
      <4>3. Chunks[s][sent[s]] \in Payloads
        BY <4>1, <4>2
      <4>4. (IF Proto[s] = "tcp" THEN DATA ELSE UDP) \in FrameTypes
        BY <3>1
      <4>5. g \in WireFrames
        BY <3>1, <4>3, <4>4, FrameTyped
      <4>6. g.type = (IF Proto[s] = "tcp" THEN DATA ELSE UDP) /\ g.sid = s /\ g.key = Key
            /\ g.body = Chunks[s][sent[s]]
        BY DEF Frame
      <4>7. ClientSends(g) /\ Proto[s] # "l7" /\ sent[s] <= Len(Chunks[s])
        BY <3>2
      <4> HIDE DEF g
      <4> QED
        BY <4>5, <4>6, <4>7
    <3>3. ASSUME NEW key \in {Key} \cup (IF client = "hello" THEN {"old"} ELSE {}),
                 ClientSends(Frame(REQ, s, key, s)), Proto[s] = "l7", sent[s] = 1
          PROVE  \E g \in WireFrames : ClientSends(g) /\ g.sid = s /\ g.type = REQ
      <4>1. key \in {"ws", "old", "none"}
        BY <3>1
      <4>2. Frame(REQ, s, key, s) \in WireFrames
        BY <3>1, <4>1, FrameTyped
      <4> QED
        BY <3>3, <4>2 DEF Frame
    <3> QED
      BY <1>7, <3>2, <3>3 DEF ClientTalks
  <2>4. /\ Over' /\ \A r : Connecting(r)' <=> Connecting(r)
        /\ \A r : Asking(r)' <=> Asking(r) \/ (r = s /\ f.type = REQ)
        /\ DOMAIN up = 1..Len(up) /\ Len(up) \in Nat
        /\ \A i \in DOMAIN up : up'[i] = up[i]
        /\ up'[Len(up) + 1] = f
        /\ link = "open" /\ link' = "open"
    BY <2>3, QueueAdds
  <2>5. \A i \in DOMAIN up : up[i].sid = s => up[i].type \notin {END, REQ}
    BY <2>1, <2>3 DEF Inductive, UpFrames, Fits, Raw
  <2>6. UpFrames' /\ UpOrder'
    <3>1. Fits(f)'
      BY <1>1, <2>2, <2>3, ConstantsTyped DEF Fits
    <3> QED
      BY <1>1, <2>1, <2>3, <2>5, <3>1, FrameAdded
  <2>7. client # "new" /\ (client = "hello" => mode # "start")
    BY <2>1 DEF Inductive, Ciphers
  <2>8. Ciphers'
    <3>1. s \in Raw => f.key = Key
      BY <2>3 DEF Raw
    <3>2. DOMAIN up' = 1..(Len(up) + 1)
      BY <2>3, QueueAdds
    <3>3. \A i \in DOMAIN up' : i \in DOMAIN up \/ i = Len(up) + 1
      BY <2>4, <3>2
    <3> QED
      BY <1>1, <2>1, <2>3, <2>4, <2>7, <3>1, <3>3 DEF Inductive, Ciphers, Key
  <2>9. Unopened'
    <3>1. cur # "none" => sent'[cur] > 0
      BY <1>1 DEF Inductive, Unopened, Typed, TypeOK
    <3>2. \A r \in Sids : sent'[r] = 0 => sent[r] = 0
      BY <1>1
    <3> QED
      BY <1>1, <3>1, <3>2 DEF Inductive, Unopened
  <2>12. Unasked'
    <3>1. \A r \in Sids : Proto[r] = "l7" /\ (sent'[r] < 2 \/ Asking(r)') => sent[r] < 2 \/ Asking(r)
      BY <1>1, <2>3, <2>4
    <3> QED
      BY <1>1, <1>2, <3>1 DEF Inductive, Unasked
  <2>10. Known'
    <3>1. ASSUME NEW r \in Raw, remote'[r] = "open", link' # "lost", r \notin streams'
          PROVE  Coming(r)' = {} /\ (r \in ended' \/ link' # "open")
      <4>1. Coming(r) = {} /\ r \in ended
        BY <1>1, <2>4, <3>1 DEF Inductive, Known
      <4>2. r # s
        BY <2>1, <4>1
      <4>3. ~ IsPayload(f, r)
        BY <2>3, <4>2 DEF IsPayload
      <4> QED
        BY <2>1, <2>3, <4>1, <4>3, QueueAdds
    <3> QED
      BY <3>1 DEF Known
  <2>11. ASSUME NEW r \in Raw, Live(r)' PROVE WholeOf(r)'
    <3>1. Live(r)
      BY <1>1, <2>4, <2>11 DEF Live
    <3>2. CASE r # s
      <4>1. sent'[r] = sent[r] /\ Coming(r)' = Coming(r) /\ \A i \in Coming(r) : up'[i] = up[i]
        BY <2>2, <2>3, <2>4, <3>2, QueueAdds DEF Raw, Coming, IsPayload
      <4> QED
        BY <1>1, <1>2, <3>1, <4>1, WholeKept, FateKept DEF Inductive, Whole
    <3>3. CASE r = s
      <4> DEFINE n == Len(up) + 1
                 c == Chunks[s][sent[s]]
                 Sent(k) == {Chunks[s][i] : i \in 1..k}
      <4>1. /\ f.body = c /\ IsPayload(f, s) /\ sent[s] <= Len(Chunks[s])
        BY <2>3, <3>3, ConstantsTyped DEF IsPayload, Raw
      <4>2. /\ Coming(s)' = Coming(s) \cup {n} /\ n \notin Coming(s)
            /\ Cardinality(Coming(s)') = Cardinality(Coming(s)) + 1
        BY <2>3, <2>4, <4>1, QueueAdds DEF Coming
      <4>3. WholeOf(s)
        BY <3>1, <3>3 DEF Inductive, Whole
      <4>4. /\ \A i \in Coming(s) : up'[i] = up[i]
            /\ up'[n].body = c
        BY <2>4, <4>1 DEF Coming
      <4>5. sent[s] \in Nat \ {0} /\ sent'[s] = sent[s] + 1 /\ Len(Chunks[s]) \in Nat
        BY <1>1, <2>1, <2>2, ConstantsTyped
      <4>6. Sent(sent[s]) = Sent(sent[s] - 1) \cup {c}
        <5>1. \A i : i \in 1..sent[s] <=> i \in 1..(sent[s] - 1) \/ i = sent[s]
          BY <4>5
        <5> QED
          BY <5>1
      <4>7. c \notin Sent(sent[s] - 1)
        <5>1. \A i \in 1..(sent[s] - 1) : i \in DOMAIN Chunks[s] /\ sent[s] \in DOMAIN Chunks[s] /\ i # sent[s]
          BY <4>1, <4>5, ConstantsTyped
        <5> QED
          BY <5>1, PayloadAssumption
      <4>8. {up'[i].body : i \in Coming(s)'} = {up[i].body : i \in Coming(s)} \cup {c}
        BY <4>2, <4>4
      <4>9. Met(s) \cup {t.arg : t \in Writers(s)} \cup {up[i].body : i \in Coming(s)}
              = Sent(sent[s] - 1)
        BY <4>3 DEF WholeOf
      <4>17. sent'[s] - 1 = sent[s]
        BY <4>5
      <4>10. Met(s) \cup {t.arg : t \in Writers(s)} \cup {up'[i].body : i \in Coming(s)'}
              = Sent(sent'[s] - 1)
        <5> HIDE DEF Sent, c
        <5> QED
          BY <4>6, <4>8, <4>9, <4>17
      <4>11. \A i \in Coming(s) : up[i].body # c
        BY <4>7, <4>9
      <4>12. \A t \in Writers(s) : t.arg # c
        BY <4>7, <4>9
      <4> HIDE DEF n, c, Sent
      <4>13. \A i, j \in Coming(s)' : up'[i].body = up'[j].body => i = j
        BY <4>2, <4>3, <4>4, <4>11 DEF WholeOf
      <4>14. \A t \in Writers(s), i \in Coming(s)' : t.arg # up'[i].body
        BY <4>2, <4>3, <4>4, <4>12 DEF WholeOf
      <4>15. Gone(s) + Cardinality(Writers(s)) + Cardinality(Coming(s)') = sent'[s] - 1
        <5>1. Gone(s) \in Nat /\ Cardinality(Writers(s)) \in Nat /\ Cardinality(Coming(s)) \in Nat
          <6>0. Inductive /\ s \in Raw
            BY <2>11, <3>3
          <6>1. Gone(s) \in Nat
            BY <6>0, FateTyped
          <6> QED
            BY <6>1, WritersFinite, PayloadsFinite, ComingIs DEF Inductive, Typed, TypeOK
        <5>2. Gone(s) + Cardinality(Writers(s)) + Cardinality(Coming(s)) = sent[s] - 1
          BY <4>3 DEF WholeOf
        <5> QED
          BY <4>2, <4>5, <4>17, <5>1, <5>2
      <4>16. \A t, u \in Writers(s) : t.arg = u.arg => t = u
        BY <4>3 DEF WholeOf
      <4> QED
        <5>1. Writers(s)' = Writers(s) /\ Gone(s)' = Gone(s) /\ Met(s)' = Met(s)
          BY <1>1, <1>2, FateKept
        <5>2. Gone(s)' + Cardinality(Writers(s)') + Cardinality(Coming(s)') = sent'[s] - 1
          BY <4>15, <5>1
        <5>3. Met(s)' \cup {t.arg : t \in Writers(s)'} \cup {up'[i].body : i \in Coming(s)'}
                = {Chunks[s][k] : k \in 1..sent'[s] - 1}
          BY <4>10, <5>1 DEF Sent
        <5> QED
          BY <3>3, <4>13, <4>14, <4>16, <5>1, <5>2, <5>3 DEF WholeOf
    <3> QED
      BY <3>2, <3>3
  <2> QED
    BY <2>4, <2>6, <2>8, <2>9, <2>10, <2>11, <2>12 DEF Whole
<1> QED
  BY <1>3, <1>4, <1>5, <1>6, <1>7 DEF ClientNext

-----------------------------------------------------------------------------
\* The reader: what it takes off the queue.

\* The reader takes the first frame of the queue.
LEMMA QueueTakes ==
  ASSUME Inductive, up # <<>>, up' = Tail(up)
  PROVE  /\ Head(up) = up[1] /\ 1 \in DOMAIN up /\ Head(up) \in WireFrames /\ Fits(Head(up))
         /\ DOMAIN up = 1..Len(up) /\ Len(up) \in Nat \ {0} /\ DOMAIN up' = 1..(Len(up) - 1)
         /\ \A i \in DOMAIN up' : i + 1 \in DOMAIN up /\ up'[i] = up[i + 1] /\ i + 1 > 1
         /\ \A s : Connecting(s)' => Connecting(s)
         /\ \A s : Connecting(s) => Connecting(s)' \/ (Head(up).sid = s /\ Head(up).type = CONNECT)
         /\ \A s : Asking(s)' => Asking(s)
         /\ UpOrder'
<1>1. up \in Seq(WireFrames) /\ \A i \in DOMAIN up : Fits(up[i])
  BY DEF Inductive, Typed, TypeOK, UpFrames
<1>2. /\ Head(up) = up[1] /\ Head(up) \in WireFrames
      /\ DOMAIN up = 1..Len(up) /\ Len(up) \in Nat \ {0} /\ DOMAIN up' = 1..(Len(up) - 1)
      /\ \A i \in 1..(Len(up) - 1) : up'[i] = up[i + 1]
  BY <1>1, UpTakes
<1>3. \A i \in DOMAIN up' : i + 1 \in DOMAIN up /\ up'[i] = up[i + 1] /\ i + 1 > 1
  BY <1>2
<1>4. 1 \in DOMAIN up /\ Fits(Head(up))
  BY <1>1, <1>2
<1>5. \A s : (Connecting(s)' => Connecting(s)) /\ (Asking(s)' => Asking(s))
  BY <1>3 DEF Connecting, Asking
<1>6. ASSUME NEW s, Connecting(s) PROVE Connecting(s)' \/ (Head(up).sid = s /\ Head(up).type = CONNECT)
  <2>1. PICK i \in DOMAIN up : up[i].sid = s /\ up[i].type = CONNECT
    BY <1>6 DEF Connecting
  <2>2. CASE i = 1
    BY <1>2, <2>1, <2>2
  <2>3. CASE i # 1
    <3>1. i - 1 \in DOMAIN up' /\ up'[i - 1] = up[i]
      BY <1>2, <2>3
    <3> QED
      BY <2>1, <3>1 DEF Connecting
  <2> QED
    BY <2>2, <2>3
<1>7. UpOrder'
  <2>1. ASSUME NEW i \in DOMAIN up', NEW j \in DOMAIN up', i < j, up'[i].sid = up'[j].sid,
               up'[i].type # Hello
        PROVE  up'[i].type \notin {END, REQ} /\ up'[j].type # CONNECT
    <3>1. i + 1 \in DOMAIN up /\ j + 1 \in DOMAIN up /\ i + 1 < j + 1
          /\ up'[i] = up[i + 1] /\ up'[j] = up[j + 1]
      BY <1>2, <1>3, <2>1
    <3> QED
      BY <2>1, <3>1 DEF Inductive, UpOrder
  <2> QED
    BY <2>1 DEF UpOrder
<1> QED
  BY <1>2, <1>3, <1>4, <1>5, <1>6, <1>7

LEMMA FramesTaken ==
  ASSUME Inductive, up # <<>>, up' = Tail(up), UNCHANGED <<sent, remote, cur, ended>>
  PROVE  UpFrames'
<1>1. \A i \in DOMAIN up' : i + 1 \in DOMAIN up /\ up'[i] = up[i + 1]
  BY QueueTakes
<1>2. \A i \in DOMAIN up' : Fits(up'[i])
  BY <1>1 DEF Inductive, UpFrames
<1> QED
  BY <1>2 DEF UpFrames, Fits

\* Behind END and behind a request nothing of the stream is on its way.
LEMMA LastOfStream ==
  ASSUME Inductive, up # <<>>, up' = Tail(up), Head(up).type \in {END, REQ}
  PROVE  \A i \in DOMAIN up' : up'[i].sid # Head(up).sid
<1>1. /\ Head(up) = up[1] /\ 1 \in DOMAIN up
      /\ \A i \in DOMAIN up' : i + 1 \in DOMAIN up /\ up'[i] = up[i + 1] /\ 1 < i + 1
  BY QueueTakes
<1> QED
  BY <1>1 DEF Inductive, UpOrder, Hello, END, REQ

\* Ahead of a payload there is no CONNECT of its stream.
LEMMA NoConnectBehind ==
  ASSUME Inductive, up # <<>>, Head(up).type # CONNECT, Head(up).type # Hello
  PROVE  ~ Connecting(Head(up).sid)
<1>1. up \in Seq(WireFrames) /\ Head(up) = up[1]
  BY UpTakes DEF Inductive, Typed, TypeOK
<1>2. ASSUME NEW i \in DOMAIN up, up[i].sid = Head(up).sid, up[i].type = CONNECT
      PROVE  FALSE
  <2>1. 1 \in DOMAIN up /\ 1 < i
    BY <1>1, <1>2
  <2> QED
    BY <1>1, <1>2, <2>1 DEF Inductive, UpOrder
<1> QED
  BY <1>2 DEF Connecting

LEMMA ComingTakes ==
  ASSUME Inductive, up # <<>>, up' = Tail(up), NEW s
  PROVE  /\ \A i : i \in Coming(s)' => i + 1 \in Coming(s) /\ up'[i] = up[i + 1] /\ i \in Nat \ {0}
         /\ 1 \in Coming(s) <=> IsPayload(Head(up), s)
         /\ Coming(s) = {} => Coming(s)' = {}
         /\ Cardinality(Coming(s)) =
              Cardinality(Coming(s)') + (IF IsPayload(Head(up), s) THEN 1 ELSE 0)
         /\ Cardinality(Coming(s)) \in Nat /\ Cardinality(Coming(s)') \in Nat
         /\ {up[i].body : i \in Coming(s)} =
              {up'[i].body : i \in Coming(s)'}
                \cup (IF IsPayload(Head(up), s) THEN {Head(up).body} ELSE {})
<1> HIDE DEF IsPayload
<1>1. up \in Seq(WireFrames) /\ up' \in Seq(WireFrames)
  BY UpTakes DEF Inductive, Typed, TypeOK
<1>2. /\ Head(up) = up[1] /\ DOMAIN up = 1..Len(up) /\ Len(up) \in Nat \ {0}
      /\ DOMAIN up' = 1..(Len(up) - 1)
      /\ \A i \in DOMAIN up' : up'[i] = up[i + 1]
  BY QueueTakes
<1>3. Coming(s) = PayloadsIn(up, s) /\ Coming(s)' = PayloadsIn(up', s)
  BY ComingIs
<1>4. /\ \A i : i \in Coming(s)' <=> i \in 1..(Len(up) - 1) /\ i + 1 \in Coming(s)
      /\ 1 \in Coming(s) <=> IsPayload(Head(up), s)
      /\ Cardinality(Coming(s)) =
              Cardinality(Coming(s)') + (IF IsPayload(Head(up), s) THEN 1 ELSE 0)
  BY <1>1, <1>3, PayloadsTail
<1>5. \A i : i \in Coming(s)' => i + 1 \in Coming(s) /\ up'[i] = up[i + 1] /\ i \in Nat \ {0}
  BY <1>2, <1>4
<1>6. \A j \in Coming(s) : j # 1 => j - 1 \in Coming(s)' /\ up'[j - 1] = up[j]
  <2>1. \A j \in Coming(s) : j \in 1..Len(up)
    BY <1>2, <1>3 DEF PayloadsIn
  <2>2. \A j \in Coming(s) : j # 1 => j - 1 \in 1..(Len(up) - 1) /\ (j - 1) + 1 = j
    BY <1>2, <2>1
  <2> QED
    BY <1>2, <1>4, <2>2
<1>7. Cardinality(Coming(s)) \in Nat /\ Cardinality(Coming(s)') \in Nat
  BY <1>1, <1>3, PayloadsFinite
<1> HIDE DEF Coming
<1>8. {up[i].body : i \in Coming(s)} =
              {up'[i].body : i \in Coming(s)'}
                \cup (IF IsPayload(Head(up), s) THEN {Head(up).body} ELSE {})
  <2>1. ASSUME NEW i \in Coming(s)
        PROVE  up[i].body \in {up'[k].body : k \in Coming(s)'}
                \cup (IF IsPayload(Head(up), s) THEN {Head(up).body} ELSE {})
    BY <1>2, <1>4, <1>6, <2>1
  <2>2. ASSUME NEW i \in Coming(s)' PROVE up'[i].body \in {up[k].body : k \in Coming(s)}
    BY <1>5, <2>2
  <2>3. IsPayload(Head(up), s) => Head(up).body \in {up[k].body : k \in Coming(s)}
    BY <1>2, <1>4
  <2> QED
    BY <2>1, <2>2, <2>3
<1> QED
  BY <1>4, <1>5, <1>7, <1>8

\* A frame that is no payload of s leaves the queue.
LEMMA WholeShifted ==
  ASSUME Inductive, up # <<>>, up' = Tail(up), NEW s, WholeOf(s), ~ IsPayload(Head(up), s),
         Writers(s)' = Writers(s), sent'[s] = sent[s], Gone(s)' = Gone(s), Met(s)' = Met(s)
  PROVE  WholeOf(s)'
<1>1. \A i \in Coming(s)' : i + 1 \in Coming(s) /\ up'[i] = up[i + 1] /\ i \in Nat \ {0}
  BY ComingTakes
<1>2. Cardinality(Coming(s)') = Cardinality(Coming(s))
  <2>1. Cardinality(Coming(s)) = Cardinality(Coming(s)') + 0 /\ Cardinality(Coming(s)') \in Nat
    BY ComingTakes
  <2> QED
    BY <2>1
<1>3. {up[i].body : i \in Coming(s)} = {up'[i].body : i \in Coming(s)'}
  <2>1. {up[i].body : i \in Coming(s)} = {up'[i].body : i \in Coming(s)'} \cup {}
    BY ComingTakes
  <2> QED
    BY <2>1
<1>4. /\ Gone(s) + Cardinality(Writers(s)) + Cardinality(Coming(s)) = sent[s] - 1
      /\ Met(s) \cup {t.arg : t \in Writers(s)} \cup {up[i].body : i \in Coming(s)}
           = {Chunks[s][k] : k \in 1..sent[s] - 1}
  BY DEF WholeOf
<1>14. /\ \A t, u \in Writers(s) : t.arg = u.arg => t = u
       /\ \A i, j \in Coming(s) : up[i].body = up[j].body => i = j
       /\ \A t \in Writers(s), i \in Coming(s) : t.arg # up[i].body
  BY DEF WholeOf
<1> HIDE DEF Coming, Writers
<1>5. ASSUME NEW i \in Coming(s)', NEW j \in Coming(s)', up'[i].body = up'[j].body
      PROVE  i = j
  <2>0. i + 1 \in Coming(s) /\ j + 1 \in Coming(s) /\ up[i + 1].body = up[j + 1].body
    BY <1>1, <1>5
  <2>1. i + 1 = j + 1
    BY <1>14, <2>0
  <2> QED
    BY <1>1, <2>1
<1>6. ASSUME NEW t \in Writers(s), NEW i \in Coming(s)' PROVE t.arg # up'[i].body
  <2>1. i + 1 \in Coming(s) /\ up'[i] = up[i + 1]
    BY <1>1
  <2> QED
    BY <1>14, <2>1
<1> QED
  BY <1>2, <1>3, <1>4, <1>5, <1>6, <1>14 DEF WholeOf

\* A payload leaves the queue and is missed.
LEMMA WholeShort ==
  ASSUME Inductive, up # <<>>, up' = Tail(up), NEW s \in Raw, WholeOf(s),
         IsPayload(Head(up), s), Writers(s)' = Writers(s), sent'[s] = sent[s],
         Gone(s)' = Gone(s) + 1, Met(s)' = Met(s) \cup {Head(up).body}
  PROVE  WholeOf(s)'
<1> DEFINE c == Head(up).body
<1>1. \A i \in Coming(s)' : i + 1 \in Coming(s) /\ up'[i] = up[i + 1] /\ i \in Nat \ {0}
  BY ComingTakes
<1>3. {up[i].body : i \in Coming(s)} = {up'[i].body : i \in Coming(s)'} \cup {c}
  BY ComingTakes
<1>4. /\ Gone(s) + Cardinality(Writers(s)) + Cardinality(Coming(s)) = sent[s] - 1
      /\ Met(s) \cup {t.arg : t \in Writers(s)} \cup {up[i].body : i \in Coming(s)}
           = {Chunks[s][k] : k \in 1..sent[s] - 1}
  BY DEF WholeOf
<1>14. /\ \A t, u \in Writers(s) : t.arg = u.arg => t = u
       /\ \A i, j \in Coming(s) : up[i].body = up[j].body => i = j
       /\ \A t \in Writers(s), i \in Coming(s) : t.arg # up[i].body
  BY DEF WholeOf
<1>5. Cardinality(Coming(s)) = Cardinality(Coming(s)') + 1 /\ Cardinality(Coming(s)') \in Nat
  BY ComingTakes
<1>6. Cardinality(Writers(s)) \in Nat /\ Gone(s) \in Nat
  BY WritersFinite, FateTyped DEF Inductive
<1> HIDE DEF Coming, Writers, c
<1>7. Gone(s)' + Cardinality(Writers(s)') + Cardinality(Coming(s)') = sent'[s] - 1
  <2> DEFINE L == Gone(s)
             W == Cardinality(Writers(s))
             C == Cardinality(Coming(s)')
  <2>1. L \in Nat /\ W \in Nat /\ C \in Nat /\ L + W + (C + 1) = sent[s] - 1
    BY <1>4, <1>5, <1>6
  <2>2. Gone(s)' = L + 1 /\ Cardinality(Writers(s)') = W
    OBVIOUS
  <2> HIDE DEF L, W, C
  <2>3. (L + 1) + W + C = sent[s] - 1
    BY <2>1
  <2> QED
    BY <2>2, <2>3 DEF C
<1>8. Met(s)' \cup {t.arg : t \in Writers(s)'} \cup {up'[i].body : i \in Coming(s)'}
        = {Chunks[s][k] : k \in 1..sent'[s] - 1}
  <2>1. Met(s)' = Met(s) \cup {c}
    BY DEF c
  <2>2. {t.arg : t \in Writers(s)'} = {t.arg : t \in Writers(s)}
    OBVIOUS
  <2> QED
    BY <1>3, <1>4, <2>1, <2>2
<1>9. ASSUME NEW i \in Coming(s)', NEW j \in Coming(s)', up'[i].body = up'[j].body
      PROVE  i = j
  <2>0. i + 1 \in Coming(s) /\ j + 1 \in Coming(s) /\ up[i + 1].body = up[j + 1].body
    BY <1>1, <1>9
  <2>1. i + 1 = j + 1
    BY <1>14, <2>0
  <2> QED
    BY <1>1, <2>1
<1>10. ASSUME NEW t \in Writers(s), NEW i \in Coming(s)' PROVE t.arg # up'[i].body
  <2>1. i + 1 \in Coming(s) /\ up'[i] = up[i + 1]
    BY <1>1
  <2> QED
    BY <1>14, <2>1
<1> QED
  BY <1>7, <1>8, <1>9, <1>10, <1>14 DEF WholeOf

\* A payload goes from the queue to the task that will write it.
LEMMA WholeSpawned ==
  ASSUME Inductive, up # <<>>, up' = Tail(up), NEW s \in Raw, WholeOf(s),
         IsPayload(Head(up), s), NEW w, Writers(s)' = Writers(s) \cup {w},
         w.arg = Head(up).body, sent'[s] = sent[s], Gone(s)' = Gone(s), Met(s)' = Met(s)
  PROVE  WholeOf(s)'
<1>1. \A i \in Coming(s)' : i + 1 \in Coming(s) /\ up'[i] = up[i + 1] /\ i \in Nat \ {0}
  BY ComingTakes
<1>2. 1 \in Coming(s) /\ w.arg = up[1].body
  BY ComingTakes, QueueTakes
<1>3. {up[i].body : i \in Coming(s)} = {up'[i].body : i \in Coming(s)'} \cup {w.arg}
  BY ComingTakes
<1>4. /\ Gone(s) + Cardinality(Writers(s)) + Cardinality(Coming(s)) = sent[s] - 1
      /\ Met(s) \cup {t.arg : t \in Writers(s)} \cup {up[i].body : i \in Coming(s)}
           = {Chunks[s][k] : k \in 1..sent[s] - 1}
  BY DEF WholeOf
<1>14. /\ \A t, u \in Writers(s) : t.arg = u.arg => t = u
       /\ \A i, j \in Coming(s) : up[i].body = up[j].body => i = j
       /\ \A t \in Writers(s), i \in Coming(s) : t.arg # up[i].body
  BY DEF WholeOf
<1>5. Cardinality(Coming(s)) = Cardinality(Coming(s)') + 1 /\ Cardinality(Coming(s)') \in Nat
  BY ComingTakes
<1>6. IsFiniteSet(Writers(s)) /\ Cardinality(Writers(s)) \in Nat
  BY WritersFinite DEF Inductive
<1> HIDE DEF Coming, Writers
<1>7. \A t \in Writers(s) : t.arg # w.arg
  BY <1>2, <1>14
<1>8. Cardinality(Writers(s)') = Cardinality(Writers(s)) + 1
  BY <1>6, <1>7, FS_AddElement
<1>9. Gone(s)' + Cardinality(Writers(s)') + Cardinality(Coming(s)') = sent'[s] - 1
  <2>1. Gone(s) \in Nat
    BY FateTyped
  <2>2. Gone(s) + Cardinality(Writers(s)) + Cardinality(Coming(s)) = sent[s] - 1
    BY <1>4
  <2>3. Gone(s) + Cardinality(Writers(s)') + Cardinality(Coming(s)') = sent[s] - 1
    <3> DEFINE L == Gone(s)
               W == Cardinality(Writers(s))
               C == Cardinality(Coming(s)')
    <3>1. L \in Nat /\ W \in Nat /\ C \in Nat /\ L + W + (C + 1) = sent[s] - 1
      BY <1>5, <1>6, <2>1, <2>2
    <3> HIDE DEF L, W, C
    <3>2. L + (W + 1) + C = sent[s] - 1
      BY <3>1
    <3> QED
      BY <1>8, <3>2 DEF L, W, C
  <2> QED
    BY <2>3
<1>10. Met(s)' \cup {t.arg : t \in Writers(s)'} \cup {up'[i].body : i \in Coming(s)'}
         = {Chunks[s][k] : k \in 1..sent'[s] - 1}
  <2>1. {t.arg : t \in Writers(s)'} = {t.arg : t \in Writers(s)} \cup {w.arg}
    OBVIOUS
  <2> QED
    BY <1>3, <1>4, <2>1
<1>11. ASSUME NEW i \in Coming(s)', NEW j \in Coming(s)', up'[i].body = up'[j].body
       PROVE  i = j
  <2>0. i + 1 \in Coming(s) /\ j + 1 \in Coming(s) /\ up[i + 1].body = up[j + 1].body
    BY <1>1, <1>11
  <2>1. i + 1 = j + 1
    BY <1>14, <2>0
  <2> QED
    BY <1>1, <2>1
<1>12. \A t, u \in Writers(s)' : t.arg = u.arg => t = u
  BY <1>7, <1>14
<1>13. ASSUME NEW t \in Writers(s)', NEW i \in Coming(s)' PROVE t.arg # up'[i].body
  <2>1. i + 1 \in Coming(s) /\ up'[i] = up[i + 1]
    BY <1>1
  <2>3. i + 1 # 1
    <3>1. i \in Nat \ {0}
      BY <1>1
    <3> QED
      BY <3>1
  <2>2. up[i + 1].body # w.arg
    BY <1>2, <1>14, <2>1, <2>3
  <2> QED
    BY <1>14, <2>1, <2>2
<1> QED
  BY <1>9, <1>10, <1>11, <1>12, <1>13 DEF WholeOf

-----------------------------------------------------------------------------
\* The reader: the first message.

\* What is out grows by one frame.
OutGrows(f) ==
  /\ Len(Out)' = Len(Out) + 1
  /\ \A i \in 1..Len(Out) : Out'[i] = Out[i]
  /\ Out'[Len(Out) + 1] = f

LEMMA OutTyped ==
  ASSUME Typed
  PROVE  Out \in Seq(WireFrames) /\ DOMAIN Out = 1..Len(Out) /\ Len(Out) \in Nat
BY DEF Typed, TypeOK, Out

\* The invariants about what has left, when nothing about the streams changes
\* and nothing leaves.
LEMMA OutKept ==
  ASSUME Inductive, UNCHANGED <<chan, wire, egress, taken, said>>
  PROVE  /\ \A s : Answered(s)' <=> Answered(s)
         /\ (\A s : InHand(s)' = InHand(s)) => DownInOrder'
         /\ Out' = Out
<1>1. Out' = Out
  BY DEF Out
<1>2. \A s : (Answered(s)' <=> Answered(s)) /\ PayloadsOut(s)' = PayloadsOut(s)
  BY <1>1 DEF Answered, PayloadsOut
<1>3. ASSUME \A s : InHand(s)' = InHand(s) PROVE DownInOrder'
  <2>1. DownInOrder
    BY DEF Inductive
  <2> QED
    BY <1>1, <1>2, <1>3, <2>1 DEF DownInOrder
<1> QED
  BY <1>1, <1>2, <1>3

LEMMA ReadFirstStep ==
  ASSUME Inductive, ReadFirst, Typed'
  PROVE  Inductive'
<1> USE DEF readerVars, outVars, remoteVars, clientVars, linkVars
<1> USE DEF Hello, CONNECT, DATA, END, UDP, REQ, RES
<1>1. /\ reader = "reading" /\ mode = "start" /\ up # <<>> /\ mode' # "start"
      /\ UNCHANGED <<link, clientVars, reader, cur, streams, tasks, chan, egress, remoteVars>>
      /\ \/ IsHead(up, Hello) /\ mode' = "sealed" /\ up' = Tail(up) /\ wire' = Append(wire, HelloFrame)
         \/ ~ IsHead(up, Hello) /\ mode' = "plain" /\ up' = up /\ wire' = wire
  BY DEF ReadFirst
<1>2. tasks = {} /\ chan = <<>> /\ cur = "none"
  BY <1>1 DEF Inductive, Starting
<1>3. Out = wire /\ Out' = wire' /\ wire \in Seq(WireFrames)
  BY <1>1, <1>2 DEF Out, Inductive, Typed, TypeOK
<1>4. Starting' /\ TaskKinds' /\ OneEach' /\ Over' /\ Unopened'
  <2>1. up' = <<>> \/ up # <<>>
    BY <1>1
  <2> QED
    BY <1>1, <1>2 DEF Inductive, Starting, TaskKinds, OneEach, Over, Unopened, TcpPump, UdpPump, Writer
<1>5. MapFollowsPumps'
  BY <1>1 DEF Inductive, MapFollowsPumps
<1>6. \A s : (Tasked(s)' <=> Tasked(s)) /\ Writers(s)' = Writers(s) /\ InHand(s)' = InHand(s)
  BY <1>1 DEF Tasked, Writers, InHand
<1>7. CASE up' = up /\ wire' = wire /\ mode' = "plain" /\ ~ IsHead(up, Hello)
  <2>1. Out' = Out
    BY <1>3, <1>7
  <2>2. UpFrames' /\ UpOrder' /\ Known'
    BY <1>1, <1>7 DEF Inductive, UpFrames, Fits, UpOrder, Known, Coming
  <2>3. Ciphers'
    <3>1. 1 \in DOMAIN up /\ Head(up) = up[1]
      BY <1>1, UpTakes DEF Inductive, Typed, TypeOK
    <3>2. client # "hello" /\ client # "new"
      BY <1>1, <1>7, <3>1 DEF Inductive, Ciphers, IsHead
    <3> QED
      BY <1>1, <1>7, <3>2 DEF Inductive, Ciphers, Key
  <2>4. Fresh' /\ Unasked'
    BY <1>1, <1>6, <1>7, <2>1 DEF Inductive, Fresh, Unasked, Answered, Asking
  <2>5. Whole'
    <3>1. ASSUME NEW s \in Raw, Live(s)' PROVE WholeOf(s)'
      <4>1. Live(s) /\ Coming(s)' = Coming(s)
        BY <1>1, <1>7, <3>1 DEF Live, Connecting, Coming
      <4> QED
        BY <1>1, <1>6, <1>7, <4>1, WholeKept, FateKept DEF Inductive, Whole
    <3> QED
      BY <3>1 DEF Whole
  <2>6. Ended' /\ EndIsTrue'
    BY <1>1, <2>1 DEF Inductive, Ended, EndIsTrue
  <2>7. DownInOrder'
    BY <1>1, <1>6, <1>7, OutKept
  <2> QED
    BY <1>4, <1>5, <2>2, <2>3, <2>4, <2>5, <2>6, <2>7 DEF Inductive
<1>8. CASE IsHead(up, Hello) /\ mode' = "sealed" /\ up' = Tail(up) /\ wire' = Append(wire, HelloFrame)
  <2>1. /\ DOMAIN Out = 1..Len(Out) /\ Len(Out) \in Nat /\ DOMAIN Out' = 1..(Len(Out) + 1)
        /\ \A i \in 1..Len(Out) : Out'[i] = Out[i]
        /\ Out'[Len(Out) + 1] = HelloFrame
    BY <1>3, <1>8, HelloTyped, UpAdds
  <2>2. HelloFrame.type = Hello /\ HelloFrame.sid = 0 /\ 0 \notin Sids /\ 0 \notin Raw
    BY PayloadAssumption DEF HelloFrame, Frame, Raw
  <2>3. UpFrames' /\ UpOrder'
    BY <1>1, <1>8, FramesTaken, QueueTakes
  <2>4. \A s \in Sids : Answered(s)' <=> Answered(s)
    <3>1. \A i : i \in DOMAIN Out' <=> i \in DOMAIN Out \/ i = Len(Out) + 1
      BY <2>1
    <3> QED
      BY <2>1, <2>2, <3>1 DEF Answered
  <2>5. Ciphers'
    <3>1. Head(up).type = Hello /\ Head(up) = up[1] /\ 1 \in DOMAIN up
      BY <1>1, <1>8, QueueTakes DEF IsHead
    <3>2. client = "hello"
      BY <1>1, <3>1 DEF Inductive, Ciphers, Typed, TypeOK
    <3>3. \A i \in DOMAIN up' : i + 1 \in DOMAIN up /\ up'[i] = up[i + 1]
      BY <1>1, <1>8, QueueTakes
    <3>4. \A i \in DOMAIN up' : up'[i].sid \in Raw => up'[i].key = Key
      BY <3>3 DEF Inductive, Ciphers
    <3> QED
      BY <1>1, <1>8, <3>2, <3>4 DEF Ciphers, Key
  <2>6. Fresh' /\ Unasked'
    <3>1. \A s : Asking(s)' => Asking(s)
      BY <1>1, <1>8, QueueTakes
    <3> QED
      BY <1>1, <1>6, <2>4, <3>1 DEF Inductive, Fresh, Unasked
  <2>7. Known'
    <3>1. \A s : Coming(s) = {} => Coming(s)' = {}
      BY <1>1, <1>8, ComingTakes
    <3> QED
      BY <1>1, <3>1 DEF Inductive, Known
  <2>8. Whole'
    <3>1. ASSUME NEW s \in Raw, Live(s)' PROVE WholeOf(s)'
      <4>1. ~ IsPayload(Head(up), s)
        BY <1>8 DEF IsHead, IsPayload
      <4>2. Live(s)
        BY <1>1, <1>8, <3>1, QueueTakes DEF Live
      <4> QED
        BY <1>1, <1>6, <1>8, <4>1, <4>2, WholeShifted, FateKept DEF Inductive, Whole
    <3> QED
      BY <3>1 DEF Whole
  <2>9. \A i \in DOMAIN Out' : Out'[i].type = END => i \in DOMAIN Out /\ Out'[i] = Out[i]
    BY <2>1, <2>2
  <2>10. Ended'
    BY <1>1, <1>2, <2>9 DEF Inductive, Ended
  <2>11. EndIsTrue'
    <3>1. ASSUME NEW i \in DOMAIN Out', Out'[i].type = END
          PROVE  /\ \A j \in DOMAIN Out' : Out'[j].sid = Out'[i].sid => j <= i
                 /\ Proto[Out'[i].sid] = "tcp" =>
                      remote'[Out'[i].sid] = "closed" /\ taken'[Out'[i].sid] = said'[Out'[i].sid]
      <4>1. i \in DOMAIN Out /\ Out'[i] = Out[i] /\ Out[i].sid \in Sids
        BY <2>9, <3>1 DEF Inductive, Ended
      <4>2. \A j \in DOMAIN Out' : Out'[j].sid = Out'[i].sid => j \in DOMAIN Out /\ Out'[j] = Out[j]
        BY <2>1, <2>2, <4>1
      <4> QED
        BY <1>1, <3>1, <4>1, <4>2 DEF Inductive, EndIsTrue
    <3> QED
      BY <3>1 DEF EndIsTrue
  <2>12. DownInOrder'
    <3>1. \A s : PayloadsOut(s)' = PayloadsOut(s)
      <4>1. Out' = Append(Out, HelloFrame) /\ Out \in Seq(WireFrames) /\ \A s : ~ IsPayload(HelloFrame, s)
        BY <1>3, <1>8, <2>2 DEF IsPayload
      <4> QED
        BY <4>1, HelloTyped, PayloadsAdd, ComingIs
    <3>2. \A s : \A i \in PayloadsOut(s) : Out'[i] = Out[i]
      BY <2>1 DEF PayloadsOut
    <3> QED
      BY <1>1, <1>6, <3>1, <3>2 DEF Inductive, DownInOrder
  <2> QED
    BY <1>4, <1>5, <2>3, <2>5, <2>6, <2>7, <2>8, <2>10, <2>11, <2>12 DEF Inductive
<1> QED
  BY <1>1, <1>7, <1>8

-----------------------------------------------------------------------------
\* The reader: frames that start no task.

\* A step of the reader that spawns no task.
LEMMA ReaderQuiet ==
  ASSUME Inductive, UNCHANGED <<tasks, chan, wire, egress, remote, said, taken>>
  PROVE  /\ TaskKinds' /\ OneEach' /\ Ended' /\ EndIsTrue' /\ DownInOrder'
         /\ \A s : /\ Tasked(s)' <=> Tasked(s)
                   /\ Answered(s)' <=> Answered(s)
                   /\ Writers(s)' = Writers(s)
<1>1. \A s : (Tasked(s)' <=> Tasked(s)) /\ Writers(s)' = Writers(s) /\ InHand(s)' = InHand(s)
  BY DEF Tasked, Writers, InHand
<1>2. DownInOrder' /\ Out' = Out /\ \A s : Answered(s)' <=> Answered(s)
  BY <1>1, OutKept
<1>3. TaskKinds' /\ OneEach'
  BY DEF Inductive, TaskKinds, OneEach, TcpPump, UdpPump, Writer
<1>4. Ended' /\ EndIsTrue'
  BY <1>2 DEF Inductive, Ended, EndIsTrue
<1> QED
  BY <1>1, <1>2, <1>3, <1>4

\* The keys of the frames behind the first.
LEMMA CiphersTaken ==
  ASSUME Inductive, up # <<>>, up' = Tail(up), UNCHANGED <<client, mode, sent>>
  PROVE  Ciphers'
<1>1. \A i \in DOMAIN up' : i + 1 \in DOMAIN up /\ up'[i] = up[i + 1]
  BY QueueTakes
<1>2. client # "new"
  BY DEF Inductive, Ciphers
<1> QED
  BY <1>1, <1>2 DEF Inductive, Ciphers, Key

LEMMA ReadDropsStep ==
  ASSUME Inductive, ReadDrops, Typed'
  PROVE  Inductive'
<1> USE DEF readerVars, outVars, remoteVars, clientVars, linkVars
<1> USE DEF Hello, CONNECT, DATA, END, UDP, REQ, RES
<1>1. /\ reader = "reading" /\ mode = "sealed" /\ up # <<>> /\ up' = Tail(up)
      /\ UNCHANGED <<link, client, sent, ended, mode, reader, cur, streams, tasks, chan, egress,
                     wire, remote, said, taken, heard, missed>>
      /\ ~ Opens("ws", Head(up))
  BY DEF ReadDrops
<1>2. TaskKinds' /\ OneEach' /\ Ended' /\ EndIsTrue' /\ DownInOrder'
  BY <1>1, ReaderQuiet
<1>3. \A s : (Tasked(s)' <=> Tasked(s)) /\ (Answered(s)' <=> Answered(s)) /\ Writers(s)' = Writers(s)
  BY <1>1, ReaderQuiet
<1>4. UpFrames' /\ UpOrder' /\ Ciphers'
  BY <1>1, FramesTaken, QueueTakes, CiphersTaken
<1>5. Starting' /\ Over' /\ Unopened' /\ MapFollowsPumps'
  BY <1>1 DEF Inductive, Starting, Over, Unopened, MapFollowsPumps
<1>6. Fresh' /\ Unasked'
  <2>1. \A s : Asking(s)' => Asking(s)
    BY <1>1, QueueTakes
  <2> QED
    BY <1>1, <1>3, <2>1 DEF Inductive, Fresh, Unasked
<1>7. Known'
  <2>1. \A s : Coming(s) = {} => Coming(s)' = {}
    BY <1>1, ComingTakes
  <2> QED
    BY <1>1, <2>1 DEF Inductive, Known
<1>8. Whole'
  <2>1. Head(up).sid \notin Raw
    <3>1. 1 \in DOMAIN up /\ Head(up) = up[1]
      BY <1>1, QueueTakes
    <3>2. Key = "ws"
      BY <1>1 DEF Inductive, Ciphers, Key
    <3> QED
      BY <1>1, <3>1, <3>2 DEF Inductive, Ciphers, Opens
  <2>2. ASSUME NEW s \in Raw, Live(s)' PROVE WholeOf(s)'
    <3>1. ~ IsPayload(Head(up), s)
      BY <2>1 DEF IsPayload
    <3>2. Live(s)
      BY <1>1, <2>2, QueueTakes DEF Live
    <3> QED
      BY <1>1, <1>3, <3>1, <3>2, WholeShifted, FateKept DEF Inductive, Whole
  <2> QED
    BY <2>2 DEF Whole
<1> QED
  BY <1>2, <1>4, <1>5, <1>6, <1>7, <1>8 DEF Inductive

LEMMA ReadConnectStep ==
  ASSUME Inductive, ReadConnect, Typed'
  PROVE  Inductive'
<1> USE DEF readerVars, outVars, remoteVars, clientVars, linkVars
<1> USE DEF Hello, CONNECT, DATA, END, UDP, REQ, RES
<1> DEFINE c == Head(up).sid
<1>1. /\ reader = "reading" /\ mode # "start" /\ up # <<>> /\ up' = Tail(up)
      /\ UNCHANGED <<link, client, sent, ended, mode, streams, tasks, chan, egress,
                     wire, remote, said, taken, heard, missed>>
      /\ reader' = "opening" /\ cur' = c /\ Head(up).type = CONNECT
  BY DEF ReadConnect, Takes, IsHead
<1>2. /\ Head(up) = up[1] /\ 1 \in DOMAIN up
      /\ c \in Sids /\ sent[c] > 0 /\ remote[c] = "none" /\ cur # c
  BY <1>1, QueueTakes DEF Fits
<1> HIDE DEF c
<1>3. cur = "none"
  BY <1>1 DEF Inductive, Typed, TypeOK
<1>4. TaskKinds' /\ OneEach' /\ Ended' /\ EndIsTrue' /\ DownInOrder'
  BY <1>1, ReaderQuiet
<1>5. \A s : (Tasked(s)' <=> Tasked(s)) /\ (Answered(s)' <=> Answered(s)) /\ Writers(s)' = Writers(s)
  BY <1>1, ReaderQuiet
<1>6. UpOrder' /\ Ciphers'
  BY <1>1, QueueTakes, CiphersTaken
<1>7. UpFrames'
  <2>1. ASSUME NEW i \in DOMAIN up' PROVE Fits(up[i])'
    <3>1. i + 1 \in DOMAIN up /\ up'[i] = up[i + 1] /\ 1 < i + 1
      BY <1>1, QueueTakes
    <3>2. up[i + 1].type = CONNECT => up[i + 1].sid # c
      BY <1>1, <1>2, <3>1 DEF Inductive, UpOrder, c
    <3>3. Fits(up[i + 1])
      BY <3>1 DEF Inductive, UpFrames
    <3> QED
      BY <1>1, <3>1, <3>2, <3>3 DEF Fits
  <2> QED
    BY <2>1 DEF UpFrames
<1>8. Starting' /\ Over' /\ MapFollowsPumps'
  BY <1>1 DEF Inductive, Starting, Over, MapFollowsPumps
<1>9. Unopened'
  BY <1>1, <1>2 DEF Inductive, Unopened
<1>10. Fresh' /\ Unasked'
  <2>1. \A s : Asking(s)' => Asking(s)
    BY <1>1, QueueTakes
  <2> QED
    BY <1>1, <1>5, <2>1 DEF Inductive, Fresh, Unasked
<1>11. Known'
  <2>1. \A s : Coming(s) = {} => Coming(s)' = {}
    BY <1>1, ComingTakes
  <2> QED
    BY <1>1, <2>1 DEF Inductive, Known
<1>12. Whole'
  <2>1. Connecting(c)
    BY <1>1, <1>2 DEF Connecting, c
  <2>2. ASSUME NEW s \in Raw, Live(s)' PROVE WholeOf(s)'
    <3>1. ~ IsPayload(Head(up), s)
      BY <1>1 DEF IsPayload
    <3>2. Live(s)
      BY <1>1, <2>1, <2>2, QueueTakes DEF Live
    <3> QED
      BY <1>1, <1>5, <3>1, <3>2, WholeShifted, FateKept DEF Inductive, Whole
  <2> QED
    BY <2>2 DEF Whole
<1> QED
  BY <1>4, <1>6, <1>7, <1>8, <1>9, <1>10, <1>11, <1>12 DEF Inductive

LEMMA ReadEndStep ==
  ASSUME Inductive, ReadEnd, Typed'
  PROVE  Inductive'
<1> USE DEF readerVars, outVars, remoteVars, clientVars, linkVars
<1> USE DEF Hello, CONNECT, DATA, END, UDP, REQ, RES
<1> DEFINE c == Head(up).sid
<1>1. /\ reader = "reading" /\ mode # "start" /\ up # <<>> /\ up' = Tail(up)
      /\ UNCHANGED <<link, client, sent, ended, mode, reader, cur, tasks, chan, egress,
                     wire, remote, said, taken, heard, missed>>
      /\ streams' = streams \ {c} /\ Head(up).type = END
  BY DEF ReadEnd, Takes, IsHead
<1>2. c \in Raw /\ c \in ended
  BY <1>1, QueueTakes DEF Fits
<1>3. \A i \in DOMAIN up' : up'[i].sid # c
  BY <1>1, LastOfStream
<1> HIDE DEF c
<1>4. TaskKinds' /\ OneEach' /\ Ended' /\ EndIsTrue' /\ DownInOrder'
  BY <1>1, ReaderQuiet
<1>5. \A s : (Tasked(s)' <=> Tasked(s)) /\ (Answered(s)' <=> Answered(s)) /\ Writers(s)' = Writers(s)
  BY <1>1, ReaderQuiet
<1>6. UpFrames' /\ UpOrder' /\ Ciphers'
  BY <1>1, FramesTaken, QueueTakes, CiphersTaken
<1>7. Starting' /\ Over' /\ Unopened'
  BY <1>1 DEF Inductive, Starting, Over, Unopened
<1>8. MapFollowsPumps'
  BY <1>1, <1>2 DEF Inductive, MapFollowsPumps
<1>9. Fresh' /\ Unasked'
  <2>1. \A s : Asking(s)' => Asking(s)
    BY <1>1, QueueTakes
  <2> QED
    BY <1>1, <1>5, <2>1 DEF Inductive, Fresh, Unasked
<1>10. Known'
  <2>1. \A s : Coming(s) = {} => Coming(s)' = {}
    BY <1>1, ComingTakes
  <2>2. \A s : s = c => Coming(s)' = {}
    BY <1>3 DEF Coming, IsPayload
  <2> QED
    BY <1>1, <1>2, <2>1, <2>2 DEF Inductive, Known
<1>11. Whole'
  <2>2. ASSUME NEW s \in Raw, Live(s)' PROVE WholeOf(s)'
    <3>1. ~ IsPayload(Head(up), s)
      BY <1>1 DEF IsPayload
    <3>2. Live(s)
      BY <1>1, <2>2, QueueTakes DEF Live
    <3> QED
      BY <1>1, <1>5, <3>1, <3>2, WholeShifted, FateKept DEF Inductive, Whole
  <2> QED
    BY <2>2 DEF Whole
<1> QED
  BY <1>4, <1>6, <1>7, <1>8, <1>9, <1>10, <1>11 DEF Inductive

LEMMA ReaderStopsStep ==
  ASSUME Inductive, ReadStops \/ Drained, Typed'
  PROVE  Inductive'
<1> USE DEF readerVars, outVars, remoteVars, clientVars, linkVars
<1>1. /\ UNCHANGED <<up, link, client, sent, ended, mode, cur, streams, tasks, chan, egress,
                     wire, remote, said, taken, heard, missed>>
      /\ reader \in {"reading", "draining"} /\ reader' \in {"draining", "returned"}
      /\ reader = "reading" => link # "open" /\ up = <<>> /\ (reader' = "draining" <=> link = "closing")
      /\ reader = "draining" => egress = "done" /\ reader' = "returned"
  BY DEF ReadStops, Drained
<1>2. TaskKinds' /\ OneEach' /\ Ended' /\ EndIsTrue' /\ DownInOrder'
  BY <1>1, ReaderQuiet
<1>3. \A s : (Tasked(s)' <=> Tasked(s)) /\ (Answered(s)' <=> Answered(s)) /\ Writers(s)' = Writers(s)
  BY <1>1, ReaderQuiet
<1>4. UpFrames' /\ UpOrder' /\ Ciphers' /\ Starting' /\ Unopened' /\ MapFollowsPumps'
  BY <1>1 DEF Inductive, UpFrames, Fits, UpOrder, Ciphers, Key, Starting, Unopened, MapFollowsPumps
<1>5. Over'
  BY <1>1 DEF Inductive, Over
<1>6. Fresh' /\ Unasked' /\ Known'
  BY <1>1, <1>3 DEF Inductive, Fresh, Unasked, Asking, Known, Coming
<1>7. Whole'
  <2>2. ASSUME NEW s \in Raw, Live(s)' PROVE WholeOf(s)'
    <3>1. Live(s) /\ Coming(s)' = Coming(s)
      BY <1>1, <2>2 DEF Live, Connecting, Coming
    <3> QED
      BY <1>1, <1>3, <3>1, WholeKept, FateKept DEF Inductive, Whole
  <2> QED
    BY <2>2 DEF Whole
<1> QED
  BY <1>2, <1>4, <1>5, <1>6, <1>7 DEF Inductive

-----------------------------------------------------------------------------
\* The reader: tasks, and a CONNECT that returns.

LEMMA ReadWorkStep ==
  ASSUME Inductive, ReadWork, Typed'
  PROVE  Inductive'
<1> USE DEF readerVars, outVars, remoteVars, clientVars, linkVars
<1> USE DEF Hello, CONNECT, DATA, END, UDP, REQ, RES
<1>1. /\ reader = "reading" /\ mode # "start" /\ up # <<>> /\ up' = Tail(up)
      /\ UNCHANGED <<link, client, sent, ended, mode, reader, cur, streams, chan, egress,
                     wire, remote, said, taken, heard, missed>>
      /\ Head(up).type \in {DATA, REQ, UDP}
  BY DEF ReadWork, Takes, IsHead
<1>2. PICK c \in Sids, b \in Payloads : c = Head(up).sid /\ b = Head(up).body
  BY <1>1, QueueTakes DEF Fits, WireFrames
<1>3. /\ 1 \in DOMAIN up /\ Head(up) = up[1]
      /\ Head(up).type = DATA => Proto[c] = "tcp"
      /\ Head(up).type = UDP => Proto[c] = "udp"
      /\ Head(up).type = REQ => Proto[c] = "l7" /\ sent[c] > 1
  BY <1>1, <1>2, QueueTakes DEF Fits
<1>4. \/ c \notin streams /\ tasks' = tasks
      \/ /\ c \in streams
         /\ \E w : /\ tasks' = tasks \cup {w} /\ w.sid = c /\ w.arg = b
                   /\ \/ w.job = "write" /\ w.at = "lock" /\ Head(up).type = DATA
                      \/ w.job = "fetch" /\ w.at = "lock" /\ Head(up).type = REQ
                      \/ w.job = "datagram" /\ w.at = "write" /\ Head(up).type = UDP
  <2>1. \A job, at : LET w == Task(job, c, at, b) IN
          w.sid = c /\ w.arg = b /\ w.job = job /\ w.at = at
    BY DEF Task
  <2>2. CASE c \notin streams
    BY <1>2, <2>2 DEF ReadWork
  <2>3. CASE c \in streams
    <3>1. \/ Head(up).type = DATA /\ tasks' = tasks \cup {Task("write", c, "lock", b)}
          \/ Head(up).type = REQ /\ tasks' = tasks \cup {Task("fetch", c, "lock", b)}
          \/ Head(up).type = UDP /\ tasks' = tasks \cup {Task("datagram", c, "write", b)}
      BY <1>2, <1>3, <2>3 DEF ReadWork, Takes, IsHead, Spawn
    <3> QED
      BY <2>1, <2>3, <3>1
  <2> QED
    BY <2>2, <2>3
<1>5. UpFrames' /\ UpOrder' /\ Ciphers'
  BY <1>1, FramesTaken, QueueTakes, CiphersTaken
<1>6. Starting' /\ Over' /\ Unopened'
  BY <1>1 DEF Inductive, Starting, Over, Unopened
<1>7. \A s : Asking(s)' => Asking(s)
  BY <1>1, QueueTakes
<1>8. Head(up).type = REQ => \A s : s = c => Asking(s) /\ ~ Asking(s)'
  BY <1>1, <1>2, <1>3, LastOfStream DEF Asking
<1>9. Known'
  <2>1. \A s : Coming(s) = {} => Coming(s)' = {}
    BY <1>1, ComingTakes
  <2> QED
    BY <1>1, <2>1 DEF Inductive, Known
<1>10. \A s \in Raw : Live(s)' => Live(s)
  BY <1>1, QueueTakes DEF Live
<1>11. ASSUME c \in Raw, Live(c) PROVE c \in streams
  <2>1. Head(up).type # REQ
    BY <1>3, <1>11 DEF Raw
  <2>2. IsPayload(Head(up), c)
    BY <1>1, <1>2, <2>1 DEF IsPayload
  <2>3. Coming(c) # {}
    BY <1>1, <2>2, ComingTakes
  <2>4. ~ Connecting(c) /\ cur = "none"
    BY <1>1, <1>2, NoConnectBehind DEF Inductive, Typed, TypeOK
  <2>5. link # "lost" /\ remote[c] = "open"
    BY <1>2, <1>11, <2>4, ConstantsTyped DEF Live
  <2> QED
    BY <1>11, <2>3, <2>5 DEF Inductive, Known
<1>12. CASE tasks' = tasks /\ c \notin streams
  <2>1. TaskKinds' /\ OneEach' /\ Ended' /\ EndIsTrue' /\ DownInOrder'
    BY <1>1, <1>12, ReaderQuiet
  <2>2. \A s : (Tasked(s)' <=> Tasked(s)) /\ (Answered(s)' <=> Answered(s)) /\ Writers(s)' = Writers(s)
    BY <1>1, <1>12, ReaderQuiet
  <2>3. Fresh' /\ Unasked' /\ MapFollowsPumps'
    BY <1>1, <1>7, <1>12, <2>2 DEF Inductive, Fresh, Unasked, MapFollowsPumps
  <2>4. Whole'
    <3>1. ASSUME NEW s \in Raw, Live(s)' PROVE WholeOf(s)'
      <4>1. Live(s)
        BY <1>10, <3>1
      <4>2. s # c
        BY <1>11, <1>12, <4>1
      <4>3. ~ IsPayload(Head(up), s)
        BY <1>2, <4>2 DEF IsPayload
      <4> QED
        BY <1>1, <2>2, <4>1, <4>3, WholeShifted, FateKept DEF Inductive, Whole
    <3> QED
      BY <3>1 DEF Whole
  <2> QED
    BY <1>5, <1>6, <1>9, <2>1, <2>3, <2>4 DEF Inductive
<1>13. ASSUME c \in streams, NEW w, tasks' = tasks \cup {w}, w.sid = c, w.arg = b,
              \/ w.job = "write" /\ w.at = "lock" /\ Head(up).type = DATA
              \/ w.job = "fetch" /\ w.at = "lock" /\ Head(up).type = REQ
              \/ w.job = "datagram" /\ w.at = "write" /\ Head(up).type = UDP
       PROVE  Inductive'
  <2>1. \A s : /\ Answered(s)' <=> Answered(s)
               /\ Tasked(s)' <=> Tasked(s) \/ s = c
               /\ InHand(s)' = InHand(s)
    <3>1. \A s : Answered(s)' <=> Answered(s)
      BY <1>1, OutKept
    <3>2. \A s : Tasked(s)' <=> Tasked(s) \/ s = c
      BY <1>13 DEF Tasked
    <3>3. w.job # "pump"
      BY <1>13
    <3>4. \A s : InHand(s)' = InHand(s)
      BY <1>13, <3>3 DEF InHand
    <3> QED
      BY <3>1, <3>2, <3>4
  <2>2. DownInOrder' /\ Out' = Out
    BY <1>1, <2>1, OutKept
  <2>3. remote[c] # "none"
    BY <1>2, <1>13 DEF Inductive, Fresh
  <2>4. w.job = "fetch" => ~ Tasked(c) /\ ~ Answered(c)
    BY <1>3, <1>8, <1>13 DEF Inductive, Unasked
  <2>5. TaskKinds'
    <3>1. Writer(w)' \/ (w.job = "fetch" /\ Proto[w.sid] = "l7")
      BY <1>3, <1>13 DEF Writer
    <3>2. \A t \in tasks : (TcpPump(t)' <=> TcpPump(t)) /\ (UdpPump(t)' <=> UdpPump(t))
                           /\ (Writer(t)' <=> Writer(t))
      BY <1>1 DEF TcpPump, UdpPump, Writer
    <3> QED
      BY <1>13, <3>1, <3>2 DEF Inductive, TaskKinds
  <2>6. OneEach'
    <3>1. w.job = "fetch" => \A t \in tasks : t.sid # w.sid
      BY <1>13, <2>4 DEF Tasked
    <3>2. w.job # "pump"
      BY <1>13
    <3> QED
      BY <1>13, <3>1, <3>2 DEF Inductive, OneEach
  <2>7. Ended'
    <3>1. ASSUME NEW i \in DOMAIN Out, Out[i].type = END, w.job \in {"pump", "fetch"}
          PROVE  Out[i].sid # c
      BY <1>13, <2>4, <3>1 DEF Answered
    <3> QED
      BY <1>13, <2>2, <3>1 DEF Inductive, Ended
  <2>8. EndIsTrue'
    BY <1>1, <2>2 DEF Inductive, EndIsTrue
  <2>9. Fresh'
    BY <1>1, <2>1, <2>3 DEF Inductive, Fresh
  <2>10. Unasked'
    <3>1. ASSUME NEW s \in Sids, Proto[s] = "l7", sent'[s] < 2 \/ Asking(s)'
          PROVE  ~ Tasked(s)' /\ ~ Answered(s)'
      <4>1. sent[s] < 2 \/ Asking(s)
        BY <1>1, <1>7, <3>1
      <4>2. s # c
        <5>1. CASE Head(up).type = REQ
          <6>1. sent[c] > 1 /\ sent[c] \in Nat
            BY <1>2, <1>3, <5>1 DEF Inductive, Typed, TypeOK
          <6> QED
            BY <1>1, <1>8, <3>1, <5>1, <6>1
        <5>2. CASE Head(up).type # REQ
          BY <1>1, <1>3, <3>1, <5>2
        <5> QED
          BY <5>1, <5>2
      <4> QED
        BY <2>1, <3>1, <4>1, <4>2 DEF Inductive, Unasked
    <3> QED
      BY <3>1 DEF Unasked
  <2>11. MapFollowsPumps'
    <3>1. \A s : (\E t \in tasks' : t.job = "pump" /\ t.sid = s)
                   <=> \E t \in tasks : t.job = "pump" /\ t.sid = s
      BY <1>13
    <3> QED
      BY <1>1, <3>1 DEF Inductive, MapFollowsPumps
  <2>12. Whole'
    <3>1. ASSUME NEW s \in Raw, Live(s)' PROVE WholeOf(s)'
      <4>1. Live(s) /\ WholeOf(s)
        BY <1>10, <3>1 DEF Inductive, Whole
      <4>2. CASE s # c
        <5>1. Writers(s)' = Writers(s) /\ ~ IsPayload(Head(up), s)
          BY <1>2, <1>13, <4>2 DEF Writers, IsPayload
        <5> QED
          BY <1>1, <4>1, <5>1, WholeShifted, FateKept
      <4>3. CASE s = c
        <5>1. Head(up).type # REQ
          BY <1>3, <4>3 DEF Raw
        <5>2. IsPayload(Head(up), s)
          BY <1>1, <1>2, <4>3, <5>1 DEF IsPayload
        <5>3. Writers(s)' = Writers(s) \cup {w}
          BY <1>13, <4>3, <5>1 DEF Writers
        <5> QED
          BY <1>1, <1>2, <1>13, <4>1, <5>2, <5>3, WholeSpawned, FateKept
      <4> QED
        BY <4>2, <4>3
    <3> QED
      BY <3>1 DEF Whole
  <2> QED
    BY <1>5, <1>6, <1>9, <2>2, <2>5, <2>6, <2>7, <2>8, <2>9, <2>10, <2>11, <2>12 DEF Inductive
<1> QED
  BY <1>4, <1>12, <1>13

\* A datagram that is too short goes, and nothing else changes.
LEMMA ReadShortStep ==
  ASSUME Inductive, ReadShort, Typed'
  PROVE  Inductive'
<1> USE DEF readerVars, outVars, remoteVars, clientVars, linkVars
<1> USE DEF Hello, CONNECT, DATA, END, UDP, REQ, RES
<1>1. /\ reader = "reading" /\ mode # "start" /\ up # <<>> /\ up' = Tail(up)
      /\ UNCHANGED <<link, client, sent, ended, mode, reader, cur, streams, tasks, chan, egress,
                     wire, remote, said, taken, heard>>
      /\ Head(up).type = UDP
      /\ \/ Head(up).sid \notin streams /\ missed' = missed
         \/ /\ Head(up).sid \in streams
            /\ missed' = [missed EXCEPT ![Head(up).sid] = Append(@, Head(up).body)]
  BY DEF ReadShort, Takes, IsHead
<1>2. PICK c \in Sids, b \in Payloads : c = Head(up).sid /\ b = Head(up).body
  BY <1>1, QueueTakes DEF Fits, WireFrames
<1>3. missed \in [Sids -> Seq(Payloads)] /\ \A s \in Sids : s # c => missed'[s] = missed[s]
  BY <1>1, <1>2 DEF Inductive, Typed, TypeOK
<1>5. UpFrames' /\ UpOrder' /\ Ciphers'
  BY <1>1, FramesTaken, QueueTakes, CiphersTaken
<1>6. Starting' /\ Over' /\ Unopened'
  BY <1>1 DEF Inductive, Starting, Over, Unopened
<1>7. \A s : Asking(s)' => Asking(s)
  BY <1>1, QueueTakes
<1>9. Known'
  <2>1. \A s : Coming(s) = {} => Coming(s)' = {}
    BY <1>1, ComingTakes
  <2> QED
    BY <1>1, <2>1 DEF Inductive, Known
<1>10. \A s \in Raw : Live(s)' => Live(s)
  BY <1>1, QueueTakes DEF Live
<1>11. ASSUME c \in Raw, Live(c) PROVE c \in streams
  <2>2. IsPayload(Head(up), c)
    BY <1>1, <1>2 DEF IsPayload
  <2>3. Coming(c) # {}
    BY <1>1, <2>2, ComingTakes
  <2>4. ~ Connecting(c) /\ cur = "none"
    BY <1>1, <1>2, NoConnectBehind DEF Inductive, Typed, TypeOK
  <2>5. link # "lost" /\ remote[c] = "open"
    BY <1>2, <1>11, <2>4, ConstantsTyped DEF Live
  <2> QED
    BY <1>11, <2>3, <2>5 DEF Inductive, Known
<1>12. TaskKinds' /\ OneEach' /\ Ended' /\ EndIsTrue' /\ DownInOrder'
  BY <1>1, ReaderQuiet
<1>13. \A s : (Tasked(s)' <=> Tasked(s)) /\ (Answered(s)' <=> Answered(s)) /\ Writers(s)' = Writers(s)
  BY <1>1, ReaderQuiet
<1>14. Unasked' /\ MapFollowsPumps'
  BY <1>1, <1>7, <1>13 DEF Inductive, Unasked, MapFollowsPumps
<1>15. Fresh'
  <2>1. ASSUME NEW s \in Sids, remote[s] = "none" PROVE missed'[s] = <<>>
    <3>1. s \notin streams /\ missed[s] = <<>>
      BY <2>1 DEF Inductive, Fresh
    <3> QED
      BY <1>1, <1>2, <1>3, <3>1
  <2> QED
    BY <1>1, <1>13, <2>1 DEF Inductive, Fresh
<1>16. Whole'
  <2>1. ASSUME NEW s \in Raw, Live(s)' PROVE WholeOf(s)'
    <3>1. Live(s) /\ WholeOf(s) /\ s \in Sids
      BY <1>10, <2>1 DEF Inductive, Whole, Raw
    <3>2. CASE s # c
      <4>1. ~ IsPayload(Head(up), s)
        BY <1>2, <3>2 DEF IsPayload
      <4>2. Gone(s)' = Gone(s) /\ Met(s)' = Met(s)
        BY <1>1, <1>3, <3>1, <3>2, FateKept
      <4> QED
        BY <1>1, <1>13, <3>1, <4>1, <4>2, WholeShifted
    <3>3. CASE s = c
      <4>1. IsPayload(Head(up), s)
        BY <1>1, <1>2, <3>3 DEF IsPayload
      <4>2. missed'[s] = Append(missed[s], b) /\ heard'[s] = heard[s]
        BY <1>1, <1>2, <1>3, <1>11, <2>1, <3>1, <3>3
      <4>3. Gone(s)' = Gone(s) + 1 /\ Met(s)' = Met(s) \cup {b}
        BY <4>2, FateGrows
      <4> QED
        BY <1>1, <1>2, <1>13, <3>1, <4>1, <4>3, WholeShort
    <3> QED
      BY <3>2, <3>3
  <2> QED
    BY <2>1 DEF Whole
<1> QED
  BY <1>5, <1>6, <1>9, <1>12, <1>14, <1>15, <1>16 DEF Inductive

LEMMA ConnectReturnsStep ==
  ASSUME Inductive, ConnectReturns, Typed'
  PROVE  Inductive'
<1> USE DEF readerVars, outVars, remoteVars, clientVars, linkVars
<1> USE DEF Hello, CONNECT, DATA, END, UDP, REQ, RES
<1>1. PICK c \in Sids : c = cur /\ reader = "opening"
  BY DEF ConnectReturns, Inductive, Typed, TypeOK
<1>2. /\ UNCHANGED <<up, link, client, sent, ended, mode, chan, egress, wire, said, taken, heard, missed>>
      /\ reader' = "reading" /\ cur' = "none"
  BY DEF ConnectReturns
<1>3. /\ remote[c] = "none" /\ sent[c] > 0 /\ mode # "start"
      /\ c \notin streams /\ ~ Tasked(c) /\ ~ Answered(c)
      /\ c # "none" /\ Proto[c] \in {"tcp", "udp", "l7"}
  BY <1>1, ConstantsTyped DEF Inductive, Unopened, Fresh, Starting
<1>4. \A s \in Sids : remote[s] = "none" /\ s # c => remote'[s] = remote[s]
  BY <1>1 DEF ConnectReturns, Inductive, Typed, TypeOK
<1>5. \/ UNCHANGED <<streams, tasks, remote>>
      \/ /\ streams' = streams \cup {c} /\ remote' = [remote EXCEPT ![c] = "open"]
         /\ \/ Proto[c] = "l7" /\ tasks' = tasks
            \/ \E w : /\ tasks' = tasks \cup {w} /\ w.job = "pump" /\ w.sid = c
                      /\ \/ Proto[c] = "tcp" /\ w.at = "lock"
                         \/ Proto[c] = "udp" /\ w.at = "read"
  <2>1. \A at : LET w == Task("pump", c, at, "none") IN w.sid = c /\ w.job = "pump" /\ w.at = at
    BY DEF Task
  <2>2. CASE UNCHANGED <<streams, tasks, remote>>
    BY <2>2
  <2>3. CASE /\ streams' = streams \cup {cur}
             /\ remote' = [remote EXCEPT ![cur] = "open"]
             /\ CASE Proto[cur] = "tcp" -> Spawn(Task("pump", cur, "lock", "none"))
                  [] Proto[cur] = "udp" -> Spawn(Task("pump", cur, "read", "none"))
                  [] Proto[cur] = "l7"  -> UNCHANGED tasks
    <3>1. \/ Proto[c] = "l7" /\ tasks' = tasks
          \/ Proto[c] = "tcp" /\ tasks' = tasks \cup {Task("pump", c, "lock", "none")}
          \/ Proto[c] = "udp" /\ tasks' = tasks \cup {Task("pump", c, "read", "none")}
      BY <1>1, <1>3, <2>3 DEF Spawn
    <3> QED
      BY <1>1, <2>1, <2>3, <3>1
  <2> QED
    BY <2>2, <2>3 DEF ConnectReturns
<1>6. Ciphers' /\ Over' /\ UpOrder' /\ Starting'
  BY <1>1, <1>2, <1>3 DEF Inductive, Ciphers, Key, Over, UpOrder, Starting
<1>7. UpFrames'
  <2>1. \A s \in Sids : s # c => remote'[s] = remote[s]
    BY <1>5 DEF Inductive, Typed, TypeOK
  <2>2. ASSUME NEW i \in DOMAIN up PROVE Fits(up[i])'
    <3>1. Fits(up[i]) /\ (up[i].type = CONNECT => up[i].sid # c)
      BY <1>1 DEF Inductive, UpFrames, Fits
    <3> QED
      BY <1>2, <2>1, <3>1, ConstantsTyped DEF Fits
  <2> QED
    BY <1>2, <2>2 DEF UpFrames
<1>8. \A s : Asking(s)' <=> Asking(s)
  BY <1>2 DEF Asking
<1>9. \A s : Coming(s)' = Coming(s) /\ (Answered(s)' <=> Answered(s)) /\ (Connecting(s)' <=> Connecting(s))
  BY <1>2, OutKept DEF Coming, Connecting
<1>10. Out' = Out
  BY <1>2 DEF Out
<1>11. CASE UNCHANGED <<streams, tasks, remote>>
  <2>1. TaskKinds' /\ OneEach' /\ Ended' /\ EndIsTrue' /\ DownInOrder'
    BY <1>2, <1>11, ReaderQuiet
  <2>2. \A s : (Tasked(s)' <=> Tasked(s)) /\ Writers(s)' = Writers(s)
    BY <1>2, <1>11, ReaderQuiet
  <2>3. Fresh' /\ Unasked' /\ MapFollowsPumps' /\ Known'
    BY <1>2, <1>8, <1>9, <1>11, <2>2 DEF Inductive, Fresh, Unasked, MapFollowsPumps, Known
  <2>4. Unopened'
    BY <1>2, <1>11, ConstantsTyped DEF Inductive, Unopened
  <2>5. Whole'
    <3>1. ASSUME NEW s \in Raw, Live(s)' PROVE WholeOf(s)'
      <4>1. Live(s)
        BY <1>2, <1>9, <1>11, <3>1, ConstantsTyped DEF Live
      <4> QED
        BY <1>2, <1>9, <2>2, <4>1, WholeKept, FateKept DEF Inductive, Whole
    <3> QED
      BY <3>1 DEF Whole
  <2> QED
    BY <1>6, <1>7, <2>1, <2>3, <2>4, <2>5 DEF Inductive
<1>12. ASSUME streams' = streams \cup {c}, remote' = [remote EXCEPT ![c] = "open"],
              \/ Proto[c] = "l7" /\ tasks' = tasks
              \/ \E w : /\ tasks' = tasks \cup {w} /\ w.job = "pump" /\ w.sid = c
                        /\ \/ Proto[c] = "tcp" /\ w.at = "lock"
                           \/ Proto[c] = "udp" /\ w.at = "read"
       PROVE  Inductive'
  <2>1. remote'[c] = "open" /\ \A s \in Sids : s # c => remote'[s] = remote[s]
    BY <1>12 DEF Inductive, Typed, TypeOK
  <2>2. \A s : s # c => (Tasked(s)' <=> Tasked(s))
    BY <1>12 DEF Tasked
  <2>3. \A s : Writers(s)' = Writers(s) /\ InHand(s)' = InHand(s)
    <3>1. CASE tasks' = tasks
      BY <3>1 DEF Writers, InHand
    <3>2. ASSUME NEW w, tasks' = tasks \cup {w}, w.job = "pump", w.at # "send"
          PROVE  \A s : Writers(s)' = Writers(s) /\ InHand(s)' = InHand(s)
      BY <3>2 DEF Writers, InHand
    <3> QED
      BY <1>12, <3>1, <3>2
  <2>4. DownInOrder'
    BY <1>2, <2>3, OutKept
  <2>5. TaskKinds'
    <3>1. \A t \in tasks : t.sid # c /\ t.sid \in Sids
      BY <1>3 DEF Tasked, Inductive, Typed, TypeOK, Tasks
    <3>2. ASSUME NEW t \in tasks
          PROVE  (TcpPump(t)' <=> TcpPump(t)) /\ (UdpPump(t)' <=> UdpPump(t))
                           /\ (Writer(t)' <=> Writer(t))
      BY <1>2, <2>1, <3>1 DEF TcpPump, UdpPump, Writer
    <3>3. ASSUME NEW w, w.job = "pump", w.sid = c,
                 \/ Proto[c] = "tcp" /\ w.at = "lock"
                 \/ Proto[c] = "udp" /\ w.at = "read"
          PROVE  TcpPump(w)' \/ UdpPump(w)'
      BY <3>3 DEF TcpPump, UdpPump
    <3> QED
      <4>1. \A t \in tasks : TcpPump(t)' \/ UdpPump(t)' \/ Writer(t)'
                             \/ (t.job = "fetch" /\ Proto[t.sid] = "l7")
        BY <3>2 DEF Inductive, TaskKinds
      <4>2. \A t \in tasks' : t \in tasks \/ TcpPump(t)' \/ UdpPump(t)'
        <5>1. CASE tasks' = tasks
          BY <5>1
        <5>2. ASSUME NEW w, tasks' = tasks \cup {w}, TcpPump(w)' \/ UdpPump(w)',
                     NEW t \in tasks'
              PROVE  t \in tasks \/ TcpPump(t)' \/ UdpPump(t)'
          BY <5>2
        <5>3. ASSUME tasks' # tasks
              PROVE  \E w : tasks' = tasks \cup {w} /\ (TcpPump(w)' \/ UdpPump(w)')
          <6>1. PICK w : /\ tasks' = tasks \cup {w} /\ w.job = "pump" /\ w.sid = c
                         /\ \/ Proto[c] = "tcp" /\ w.at = "lock"
                            \/ Proto[c] = "udp" /\ w.at = "read"
            BY <1>12, <5>3
          <6>2. TcpPump(w)' \/ UdpPump(w)'
            BY <3>3, <6>1
          <6> QED
            BY <6>1, <6>2
        <5> QED
          BY <5>1, <5>2, <5>3
      <4> QED
        BY <4>1, <4>2 DEF TaskKinds
  <2>6. OneEach'
    BY <1>3, <1>12 DEF Inductive, OneEach, Tasked
  <2>7. Ended'
    <3>1. \A i \in DOMAIN Out : Out[i].sid # c
      BY <1>3 DEF Answered
    <3> QED
      BY <1>10, <1>12, <3>1 DEF Inductive, Ended
  <2>8. EndIsTrue'
    <3>1. \A i \in DOMAIN Out : Out[i].type = END => Out[i].sid # c /\ Out[i].sid \in Sids
      BY <1>3 DEF Answered, Inductive, Ended
    <3> QED
      BY <1>2, <1>10, <2>1, <3>1 DEF Inductive, EndIsTrue
  <2>9. Fresh'
    BY <1>2, <1>9, <1>12, <2>1, <2>2 DEF Inductive, Fresh
  <2>10. Unopened'
    BY <1>1, <1>2, <1>3, <2>1, ConstantsTyped DEF Inductive, Unopened
  <2>11. Unasked'
    <3>1. \A s \in Sids : Proto[s] = "l7" => (Tasked(s)' <=> Tasked(s))
      <4>1. Proto[c] = "l7" => tasks' = tasks
        BY <1>12
      <4> QED
        BY <2>2, <4>1 DEF Tasked
    <3> QED
      BY <1>2, <1>8, <1>9, <3>1 DEF Inductive, Unasked
  <2>12. Known'
    <3>1. \A s \in Raw : s # c => remote'[s] = remote[s]
      BY <2>1 DEF Raw
    <3> QED
      BY <1>2, <1>9, <1>12, <3>1 DEF Inductive, Known
  <2>13. MapFollowsPumps'
    <3>1. \A s : s # c => ((\E t \in tasks' : t.job = "pump" /\ t.sid = s)
                            <=> \E t \in tasks : t.job = "pump" /\ t.sid = s)
      BY <1>12
    <3>2. c \in Raw => \E t \in tasks' : t.job = "pump" /\ t.sid = c
      BY <1>12 DEF Raw
    <3> QED
      BY <1>2, <1>12, <3>1, <3>2 DEF Inductive, MapFollowsPumps
  <2>14. Whole'
    <3>1. ASSUME NEW s \in Raw, Live(s)' PROVE WholeOf(s)'
      <4>1. Live(s)
        BY <1>1, <1>2, <1>9, <2>1, <3>1, ConstantsTyped DEF Live, Raw
      <4>2. \A i \in Coming(s) : up'[i] = up[i]
        BY <1>2
      <4> QED
        BY <1>2, <1>9, <2>3, <4>1, <4>2, WholeKept, FateKept DEF Inductive, Whole
    <3> QED
      BY <3>1 DEF Whole
  <2> QED
    BY <1>6, <1>7, <2>4, <2>5, <2>6, <2>7, <2>8, <2>9, <2>10, <2>11, <2>12, <2>13, <2>14
       DEF Inductive
<1> QED
  BY <1>5, <1>11, <1>12

-----------------------------------------------------------------------------
\* The tasks: what a step leaves alone.

\* What every step of a task t has in common; t goes on as w, if at all.
TaskStep(t, w) ==
  /\ t \in tasks /\ w.sid = t.sid /\ w.job = t.job
  /\ tasks' \subseteq (tasks \ {t}) \cup {w} /\ tasks \ {t} \subseteq tasks'
  /\ UNCHANGED <<client, sent, ended, up, link, mode, reader, cur, egress, wire, remote, said>>
  /\ streams' \subseteq streams
  /\ \A s \in Sids : s # t.sid => /\ heard'[s] = heard[s] /\ missed'[s] = missed[s]
                                   /\ taken'[s] = taken[s]
  /\ t.job # "pump" => taken' = taken

LEMMA TaskFacts ==
  ASSUME Inductive, NEW t \in tasks
  PROVE  /\ t.sid \in Sids /\ Tasked(t.sid) /\ t \in Tasks
         /\ remote[t.sid] \in {"open", "closed"} /\ mode # "start"
         /\ cur # t.sid /\ ~ Connecting(t.sid)
         /\ t.job = "fetch" => Proto[t.sid] = "l7" /\ t.sid \notin Raw /\ sent[t.sid] >= 2
                               /\ ~ Asking(t.sid)
         /\ t.job # "fetch" => t.sid \in Raw
         /\ t.at # "remove" /\ t.job \in {"pump", "fetch"} =>
              \A i \in DOMAIN Out : Out[i].type = END => Out[i].sid # t.sid
<1>1. t \in Tasks /\ t.sid \in Sids /\ Tasked(t.sid) /\ mode # "start"
  BY DEF Inductive, Typed, TypeOK, Tasks, Tasked, Starting
<1>2. remote[t.sid] \in {"open", "closed"}
  BY <1>1 DEF Inductive, Typed, TypeOK, Fresh
<1>3. cur # t.sid
  BY <1>1, <1>2 DEF Inductive, Unopened
<1>4. ~ Connecting(t.sid)
  BY <1>2 DEF Inductive, UpFrames, Fits, Connecting, CONNECT
<1>5. t.job = "fetch" => Proto[t.sid] = "l7"
  BY DEF Inductive, TaskKinds, TcpPump, UdpPump, Writer
<1>6. t.job # "fetch" => Proto[t.sid] \in {"tcp", "udp"}
  BY DEF Inductive, TaskKinds, TcpPump, UdpPump, Writer
<1>7. t.job = "fetch" => sent[t.sid] >= 2 /\ ~ Asking(t.sid)
  <2>1. sent[t.sid] \in Nat
    BY <1>1 DEF Inductive, Typed, TypeOK
  <2>2. t.job = "fetch" => ~ (sent[t.sid] < 2) /\ ~ Asking(t.sid)
    BY <1>1, <1>5 DEF Inductive, Unasked
  <2> QED
    BY <2>1, <2>2
<1>8. t.at # "remove" /\ t.job \in {"pump", "fetch"} =>
        \A i \in DOMAIN Out : Out[i].type = END => Out[i].sid # t.sid
  BY DEF Inductive, Ended
<1> QED
  BY <1>1, <1>2, <1>3, <1>4, <1>5, <1>6, <1>7, <1>8 DEF Raw

\* What a step of a task cannot disturb.
LEMMA TaskTraces ==
  ASSUME Inductive, NEW t, NEW w, TaskStep(t, w), egress = "done" => chan' = chan,
         \A s \in Sids : s # t.sid => (Answered(s)' => Answered(s))
  PROVE  /\ UpFrames' /\ UpOrder' /\ Ciphers' /\ Starting' /\ Fresh' /\ Unopened' /\ Unasked'
         /\ OneEach' /\ Over'
<1>1. /\ t \in tasks /\ w.sid = t.sid /\ w.job = t.job
      /\ tasks' \subseteq (tasks \ {t}) \cup {w}
      /\ UNCHANGED <<client, sent, ended, up, link, mode, reader, cur, egress, wire, remote, said>>
      /\ streams' \subseteq streams
      /\ \A s \in Sids : s # t.sid => /\ heard'[s] = heard[s] /\ missed'[s] = missed[s]
                                       /\ taken'[s] = taken[s]
  BY DEF TaskStep
<1>2. UpFrames' /\ UpOrder'
  BY <1>1 DEF Inductive, UpFrames, UpOrder, Fits
<1>3. Ciphers' /\ Unopened' /\ Over'
  BY <1>1 DEF Inductive, Ciphers, Key, Unopened, Over
<1>4. Starting'
  BY <1>1, TaskFacts DEF Starting
<1>5. \A s : Tasked(s)' => Tasked(s)
  BY <1>1 DEF Tasked
<1>6. Fresh'
  <2>1. ASSUME NEW s \in Sids, remote'[s] = "none"
        PROVE  /\ s \notin streams' /\ ~ Tasked(s)' /\ ~ Answered(s)'
               /\ heard'[s] = <<>> /\ missed'[s] = <<>> /\ said'[s] = 0 /\ taken'[s] = 0
    <3>1. remote[s] = "none" /\ s # t.sid
      BY <1>1, <2>1, TaskFacts
    <3> QED
      BY <1>1, <1>5, <2>1, <3>1 DEF Inductive, Fresh
  <2> QED
    BY <2>1 DEF Fresh
<1>7. Unasked'
  <2>1. ASSUME NEW s \in Sids, Proto[s] = "l7", sent'[s] < 2 \/ Asking(s)'
        PROVE  ~ Tasked(s)' /\ ~ Answered(s)'
    <3>1. sent[s] < 2 \/ Asking(s)
      BY <1>1, <2>1 DEF Asking
    <3>2. ~ Tasked(s)
      BY <2>1, <3>1 DEF Inductive, Unasked
    <3>3. s # t.sid
      BY <1>1, <3>2 DEF Tasked
    <3> QED
      BY <1>5, <2>1, <3>1, <3>2, <3>3 DEF Inductive, Unasked
  <2> QED
    BY <2>1 DEF Unasked
<1>8. OneEach'
  <2>1. ASSUME NEW x \in tasks', NEW u \in tasks', x.sid = u.sid, x.job = u.job,
               x.job \in {"pump", "fetch"}
        PROVE  x = u
    BY <1>1, <2>1 DEF Inductive, OneEach
  <2> QED
    BY <2>1 DEF OneEach
<1> QED
  BY <1>2, <1>3, <1>4, <1>6, <1>7, <1>8

\* The other tasks stay what they are.
LEMMA KindsKept ==
  ASSUME Inductive, NEW t, NEW w, TaskStep(t, w),
         \/ w \notin tasks'
         \/ TcpPump(w)' \/ UdpPump(w)' \/ Writer(w)' \/ (w.job = "fetch" /\ Proto[w.sid] = "l7")
  PROVE  TaskKinds'
<1>1. /\ t \in tasks /\ tasks' \subseteq (tasks \ {t}) \cup {w}
      /\ UNCHANGED <<egress, remote, said>>
      /\ \A s \in Sids : s # t.sid => taken'[s] = taken[s]
      /\ t.job # "pump" => taken' = taken
  BY DEF TaskStep
<1>2. ASSUME NEW x \in tasks, x # t
      PROVE  TcpPump(x)' \/ UdpPump(x)' \/ Writer(x)' \/ (x.job = "fetch" /\ Proto[x.sid] = "l7")
  <2>1. CASE TcpPump(x)
    <3>1. x.job = "pump" /\ x.sid \in Sids
      BY <2>1, TaskFacts DEF TcpPump
    <3>2. taken'[x.sid] = taken[x.sid]
      BY <1>1, <1>2, <3>1 DEF Inductive, OneEach
    <3> QED
      BY <1>1, <2>1, <3>2 DEF TcpPump
  <2>2. CASE UdpPump(x)
    BY <1>1, <2>2 DEF UdpPump
  <2>3. CASE Writer(x)
    BY <2>3 DEF Writer
  <2> QED
    BY <2>1, <2>2, <2>3 DEF Inductive, TaskKinds
<1> QED
  BY <1>1, <1>2 DEF TaskKinds

\* As long as nothing is sent and t is not a pump or a round trip that is over.
LEMMA EndsKept ==
  ASSUME Inductive, NEW t, NEW w, TaskStep(t, w), UNCHANGED chan,
         tasks' \subseteq tasks \/ t.at # "remove",
         taken' = taken \/ (t.job = "pump" /\ t.at # "remove")
  PROVE  Ended' /\ EndIsTrue' /\ \A s : Answered(s)' <=> Answered(s)
<1>1. /\ t \in tasks /\ w.sid = t.sid /\ w.job = t.job
      /\ tasks' \subseteq (tasks \ {t}) \cup {w}
      /\ UNCHANGED <<wire, remote, said>>
      /\ \A s \in Sids : s # t.sid => taken'[s] = taken[s]
  BY DEF TaskStep
<1>2. Out' = Out
  BY <1>1 DEF Out
<1>3. Ended'
  <2>1. ASSUME NEW i \in DOMAIN Out, Out[i].type = END
        PROVE  /\ Out[i].sid \in Sids
               /\ \A u \in tasks' :
                    u.sid = Out[i].sid /\ u.job \in {"pump", "fetch"} => u.at = "remove"
    BY <1>1, <2>1, TaskFacts DEF Inductive, Ended
  <2> QED
    BY <1>2, <2>1 DEF Ended
<1>4. EndIsTrue'
  <2>1. ASSUME NEW i \in DOMAIN Out, Out[i].type = END
        PROVE  taken'[Out[i].sid] = taken[Out[i].sid]
    BY <1>1, <2>1, TaskFacts DEF Inductive, Ended
  <2> QED
    BY <1>1, <1>2, <2>1 DEF Inductive, EndIsTrue
<1> QED
  BY <1>2, <1>3, <1>4 DEF Answered

\* ... and no pump reads.
LEMMA OrderKept ==
  ASSUME Inductive, NEW t, NEW w, TaskStep(t, w), UNCHANGED <<chan, taken>>,
         t.job # "pump" \/ (t.at # "send" /\ (w.at # "send" \/ w \notin tasks'))
  PROVE  DownInOrder'
<1>1. /\ t \in tasks /\ w.sid = t.sid /\ w.job = t.job
      /\ tasks' \subseteq (tasks \ {t}) \cup {w} /\ tasks \ {t} \subseteq tasks'
      /\ UNCHANGED <<wire, egress, said>>
  BY DEF TaskStep
<1>2. \A s : {u \in tasks : u.sid = s /\ u.job = "pump" /\ u.at = "send"}'
               = {u \in tasks : u.sid = s /\ u.job = "pump" /\ u.at = "send"}
  BY <1>1
<1>3. \A s : InHand(s)' = InHand(s)
  BY <1>2 DEF InHand
<1> QED
  BY <1>1, <1>3, OutKept

LEMMA MapKept ==
  ASSUME Inductive, NEW t, NEW w, TaskStep(t, w), UNCHANGED streams,
         w \in tasks' \/ t.job # "pump"
  PROVE  MapFollowsPumps' /\ Known'
<1>1. /\ t \in tasks /\ w.sid = t.sid /\ w.job = t.job
      /\ tasks' \subseteq (tasks \ {t}) \cup {w} /\ tasks \ {t} \subseteq tasks'
      /\ UNCHANGED <<up, link, ended, remote>>
  BY DEF TaskStep
<1>2. \A s : (\E u \in tasks' : u.job = "pump" /\ u.sid = s)
               <=> (\E u \in tasks : u.job = "pump" /\ u.sid = s)
  BY <1>1
<1>3. MapFollowsPumps'
  BY <1>1, <1>2 DEF Inductive, MapFollowsPumps
<1>4. \A s : Coming(s)' = Coming(s)
  BY <1>1 DEF Coming
<1> QED
  BY <1>1, <1>3, <1>4 DEF Inductive, Known

\* The tasks that hold what the client said are the same.
LEMMA WholeStays ==
  ASSUME Inductive, NEW t, NEW w, TaskStep(t, w), t.job \in {"pump", "fetch"},
         \A s \in Raw : heard'[s] = heard[s] /\ missed'[s] = missed[s]
  PROVE  Whole'
<1>1. /\ t \in tasks /\ w.sid = t.sid /\ w.job = t.job
      /\ tasks' \subseteq (tasks \ {t}) \cup {w} /\ tasks \ {t} \subseteq tasks'
      /\ UNCHANGED <<up, link, cur, sent, remote>>
  BY DEF TaskStep
<1>2. \A s : Writers(s)' = Writers(s)
  BY <1>1 DEF Writers
<1>3. \A s : Coming(s)' = Coming(s) /\ (Live(s)' <=> Live(s))
  BY <1>1 DEF Coming, Live, Connecting
<1>4. ASSUME NEW s \in Raw, Live(s)' PROVE WholeOf(s)'
  BY <1>1, <1>2, <1>3, <1>4, WholeKept, FateKept DEF Inductive, Whole
<1> QED
  BY <1>4 DEF Whole

-----------------------------------------------------------------------------
\* The tasks: lock, write, round trip, removal.

\* A writer goes from the lock to its write with the same chunk.
LEMMA WholeMoved ==
  ASSUME Inductive, NEW t \in tasks, NEW w, t.job \in {"write", "datagram"},
         w.sid = t.sid, w.job = t.job, w.arg = t.arg, w.at # t.at,
         tasks' = (tasks \ {t}) \cup {w}, UNCHANGED <<up, link, cur, sent, remote, heard, missed>>
  PROVE  Whole'
<1>1. \A s : Coming(s)' = Coming(s) /\ (Live(s)' <=> Live(s))
  BY DEF Coming, Live, Connecting
<1>2. ASSUME NEW s \in Raw, s # t.sid, Live(s)' PROVE WholeOf(s)'
  <2>1. Writers(s)' = Writers(s)
    BY <1>2 DEF Writers
  <2> QED
    BY <1>1, <1>2, <2>1, WholeKept, FateKept DEF Inductive, Whole
<1>3. ASSUME NEW s \in Raw, s = t.sid, Live(s)' PROVE WholeOf(s)'
  <2>1. WholeOf(s)
    BY <1>1, <1>3 DEF Inductive, Whole
  <2>2. t \in Writers(s) /\ Writers(s)' = (Writers(s) \ {t}) \cup {w}
    BY <1>3 DEF Writers
  <2>3. w \notin Writers(s)
    BY <2>1, <2>2 DEF WholeOf
  <2>4. Cardinality(Writers(s)') = Cardinality(Writers(s))
    <3>1. IsFiniteSet(Writers(s)) /\ Cardinality(Writers(s)) \in Nat
      BY WritersFinite DEF Inductive
    <3>2. /\ IsFiniteSet(Writers(s) \ {t})
          /\ Cardinality(Writers(s) \ {t}) = Cardinality(Writers(s)) - 1
      BY <2>2, <3>1, FS_RemoveElement
    <3>3. Cardinality((Writers(s) \ {t}) \cup {w}) = Cardinality(Writers(s) \ {t}) + 1
      BY <2>3, <3>2, FS_AddElement
    <3> QED
      BY <2>2, <3>1, <3>2, <3>3
  <2>5. {u.arg : u \in Writers(s)'} = {u.arg : u \in Writers(s)}
    BY <2>2
  <2>6. /\ Gone(s)' + Cardinality(Writers(s)') + Cardinality(Coming(s)') = sent'[s] - 1
        /\ Met(s)' \cup {u.arg : u \in Writers(s)'} \cup {up'[i].body : i \in Coming(s)'}
             = {Chunks[s][k] : k \in 1..sent'[s] - 1}
    <3>1. /\ Gone(s) + Cardinality(Writers(s)) + Cardinality(Coming(s)) = sent[s] - 1
          /\ Met(s) \cup {u.arg : u \in Writers(s)} \cup {up[i].body : i \in Coming(s)}
               = {Chunks[s][k] : k \in 1..sent[s] - 1}
      BY <2>1 DEF WholeOf
    <3>2. Coming(s)' = Coming(s) /\ Gone(s)' = Gone(s) /\ Met(s)' = Met(s) /\ sent'[s] = sent[s]
      BY <1>1, FateKept
    <3>3. {up'[i].body : i \in Coming(s)'} = {up[i].body : i \in Coming(s)}
      BY <1>1
    <3> QED
      BY <2>4, <2>5, <3>1, <3>2, <3>3
  <2>7. \A x, u \in Writers(s)' : x.arg = u.arg => x = u
    BY <2>1, <2>2 DEF WholeOf
  <2>8. /\ \A i, j \in Coming(s)' : up'[i].body = up'[j].body => i = j
        /\ \A u \in Writers(s)', i \in Coming(s)' : u.arg # up'[i].body
    BY <1>1, <2>1, <2>2 DEF WholeOf
  <2> QED
    BY <2>6, <2>7, <2>8 DEF WholeOf
<1> QED
  BY <1>2, <1>3 DEF Whole

LEMMA TakesLockStep ==
  ASSUME Inductive, NEW t \in tasks, TakesLock(t), Typed'
  PROVE  Inductive'
<1> USE DEF readerVars, outVars, remoteVars, clientVars, linkVars
<1>1. PICK w : /\ tasks' = (tasks \ {t}) \cup {w} /\ w.sid = t.sid /\ w.job = t.job
               /\ w.arg = t.arg /\ w.at = IF t.job = "pump" THEN "read" ELSE "write"
  <2>1. \A at : LET w == Task(t.job, t.sid, at, t.arg) IN
          w.sid = t.sid /\ w.job = t.job /\ w.arg = t.arg /\ w.at = at
    BY DEF Task
  <2> QED
    BY <2>1 DEF TakesLock, Moves
<1>2. t.at = "lock" /\ UNCHANGED <<client, sent, ended, up, link, mode, reader, cur, streams, chan,
                                   egress, wire, remote, said, taken, heard, missed>>
  BY DEF TakesLock
<1>3. TaskStep(t, w)
  BY <1>1, <1>2 DEF TaskStep
<1>4. Ended' /\ EndIsTrue' /\ \A s : Answered(s)' <=> Answered(s)
  BY <1>2, <1>3, EndsKept
<1>5. DownInOrder'
  BY <1>1, <1>2, <1>3, OrderKept
<1>6. MapFollowsPumps' /\ Known'
  BY <1>1, <1>2, <1>3, MapKept
<1>7. TaskKinds'
  <2>1. TcpPump(w)' \/ UdpPump(w)' \/ Writer(w)' \/ (w.job = "fetch" /\ Proto[w.sid] = "l7")
    BY <1>1, <1>2 DEF Inductive, TaskKinds, TcpPump, UdpPump, Writer
  <2> QED
    BY <1>3, <2>1, KindsKept
<1>8. Whole'
  <2>1. CASE t.job \in {"pump", "fetch"}
    BY <1>2, <1>3, <2>1, WholeStays
  <2>2. CASE t.job \in {"write", "datagram"}
    BY <1>1, <1>2, <2>2, WholeMoved
  <2> QED
    BY <2>1, <2>2 DEF Inductive, Typed, TypeOK, Tasks
<1> QED
  BY <1>2, <1>3, <1>4, <1>5, <1>6, <1>7, <1>8, TaskTraces DEF Inductive

\* The remote gets the chunk, or it is missed.
LEMMA WholeWritten ==
  ASSUME Inductive, NEW t \in tasks, t.job \in {"write", "datagram"}, t.sid \in Raw,
         tasks' = tasks \ {t}, Gone(t.sid)' = Gone(t.sid) + 1,
         Met(t.sid)' = Met(t.sid) \cup {t.arg},
         \A s \in Raw : s # t.sid => Gone(s)' = Gone(s) /\ Met(s)' = Met(s),
         UNCHANGED <<up, link, cur, sent, remote>>
  PROVE  Whole'
<1>1. \A s : Coming(s)' = Coming(s) /\ (Live(s)' <=> Live(s))
  BY DEF Coming, Live, Connecting
<1>0. Raw \subseteq Sids /\ t \in Tasks
  BY DEF Inductive, Typed, TypeOK, Raw
<1>2. ASSUME NEW s \in Raw, s # t.sid, Live(s)' PROVE WholeOf(s)'
  <2>1. Writers(s)' = Writers(s)
    BY <1>2 DEF Writers
  <2> QED
    BY <1>1, <1>2, <2>1, WholeKept DEF Inductive, Whole
<1>3. ASSUME NEW s \in Raw, s = t.sid, Live(s)' PROVE WholeOf(s)'
  <2>1. WholeOf(s)
    BY <1>1, <1>3 DEF Inductive, Whole
  <2>2. t \in Writers(s) /\ Writers(s)' = Writers(s) \ {t}
    BY <1>3 DEF Writers
  <2>4. /\ IsFiniteSet(Writers(s)) /\ Cardinality(Writers(s)) \in Nat
        /\ Cardinality(Writers(s)') = Cardinality(Writers(s)) - 1
    <3>1. IsFiniteSet(Writers(s)) /\ Cardinality(Writers(s)) \in Nat
      BY WritersFinite DEF Inductive
    <3>2. Cardinality(Writers(s) \ {t}) = Cardinality(Writers(s)) - 1
      BY <2>2, <3>1, FS_RemoveElement
    <3> QED
      BY <2>2, <3>1, <3>2
  <2>5. Gone(s)' = Gone(s) + 1 /\ Gone(s) \in Nat
    BY <1>3, FateTyped
  <2>6. Cardinality(Coming(s)) \in Nat /\ sent[s] \in Nat
    <3>1. up \in Seq(WireFrames) /\ sent \in [Sids -> Nat]
      BY DEF Inductive, Typed, TypeOK
    <3> QED
      BY <1>0, <3>1, ComingIs, PayloadsFinite
  <2>7. Gone(s)' + Cardinality(Writers(s)') + Cardinality(Coming(s)') = sent'[s] - 1
    <3>1. Gone(s) + Cardinality(Writers(s)) + Cardinality(Coming(s)) = sent[s] - 1
      BY <2>1 DEF WholeOf
    <3>2. Cardinality(Coming(s)') = Cardinality(Coming(s)) /\ sent'[s] = sent[s]
      BY <1>1
    <3> DEFINE L == Gone(s)
               W == Cardinality(Writers(s))
               C == Cardinality(Coming(s))
    <3>3. L \in Nat /\ W \in Nat /\ C \in Nat /\ L + W + C = sent[s] - 1
      BY <2>4, <2>5, <2>6, <3>1
    <3>4. Gone(s)' = L + 1 /\ Cardinality(Writers(s)') = W - 1 /\ Cardinality(Coming(s)') = C
      BY <2>4, <2>5, <3>2
    <3> HIDE DEF L, W, C
    <3>5. (L + 1) + (W - 1) + C = sent[s] - 1
      BY <2>6, <3>3
    <3> QED
      BY <3>2, <3>4, <3>5
  <2>8. Met(s)' = Met(s) \cup {t.arg}
    BY <1>3
  <2>9. {u.arg : u \in Writers(s)} = {u.arg : u \in Writers(s)'} \cup {t.arg}
    BY <2>2
  <2>10. Met(s)' \cup {u.arg : u \in Writers(s)'} \cup {up'[i].body : i \in Coming(s)'}
           = {Chunks[s][k] : k \in 1..sent'[s] - 1}
    <3>1. Met(s) \cup {u.arg : u \in Writers(s)} \cup {up[i].body : i \in Coming(s)}
            = {Chunks[s][k] : k \in 1..sent[s] - 1}
      BY <2>1 DEF WholeOf
    <3>2. {up'[i].body : i \in Coming(s)'} = {up[i].body : i \in Coming(s)}
      BY <1>1
    <3>3. {Chunks[s][k] : k \in 1..sent'[s] - 1} = {Chunks[s][k] : k \in 1..sent[s] - 1}
      OBVIOUS
    <3> DEFINE H == Met(s)
               A == {u.arg : u \in Writers(s)'}
               Q == {up[i].body : i \in Coming(s)}
    <3>4. Met(s)' \cup A \cup {up'[i].body : i \in Coming(s)'} = (H \cup {t.arg}) \cup A \cup Q
      BY <2>8, <3>2
    <3>5. {Chunks[s][k] : k \in 1..sent[s] - 1} = H \cup (A \cup {t.arg}) \cup Q
      BY <2>9, <3>1
    <3> HIDE DEF H, Q
    <3> QED
      BY <3>3, <3>4, <3>5
  <2>11. /\ \A x, u \in Writers(s)' : x.arg = u.arg => x = u
         /\ \A i, j \in Coming(s)' : up'[i].body = up'[j].body => i = j
         /\ \A u \in Writers(s)', i \in Coming(s)' : u.arg # up'[i].body
    BY <1>1, <2>1, <2>2 DEF WholeOf
  <2> QED
    BY <2>7, <2>10, <2>11 DEF WholeOf
<1> QED
  BY <1>2, <1>3 DEF Whole

LEMMA WritesStep ==
  ASSUME Inductive, NEW t \in tasks, Writes(t), Typed'
  PROVE  Inductive'
<1> USE DEF readerVars, outVars, remoteVars, clientVars, linkVars
<1>1. /\ t.at = "write"
      /\ UNCHANGED <<client, sent, ended, up, link, mode, reader, cur, streams, chan,
                     egress, wire, remote, said, taken>>
  BY DEF Writes
<1>2. /\ \A s \in Sids : s # t.sid => heard'[s] = heard[s] /\ missed'[s] = missed[s]
      /\ \/ heard'[t.sid] = Append(heard[t.sid], t.arg) /\ missed'[t.sid] = missed[t.sid]
         \/ missed'[t.sid] = Append(missed[t.sid], t.arg) /\ heard'[t.sid] = heard[t.sid]
      /\ t.job # "fetch" =>
           tasks' = tasks \ {t}
      /\ t.job = "fetch" =>
           \E w : tasks' = (tasks \ {t}) \cup {w} /\ w.sid = t.sid /\ w.job = t.job
  <2>1. heard \in [Sids -> Seq(Payloads)] /\ missed \in [Sids -> Seq(Payloads)] /\ t.sid \in Sids
    BY TaskFacts DEF Inductive, Typed, TypeOK
  <2> QED
    <3>1. ASSUME t.job = "fetch"
          PROVE  \E w : tasks' = (tasks \ {t}) \cup {w} /\ w.sid = t.sid /\ w.job = t.job
      <4>1. \A at, arg : Task(t.job, t.sid, at, arg).sid = t.sid
                          /\ Task(t.job, t.sid, at, arg).job = t.job
        BY DEF Task
      <4>2. Moves(t, "read", t.arg) \/ Moves(t, "end", "none")
        BY <3>1 DEF Writes
      <4> QED
        BY <4>1, <4>2 DEF Moves
    <3> QED
      BY <2>1, <3>1 DEF Writes
<1>3. t.job # "pump"
  BY <1>1 DEF Inductive, TaskKinds, TcpPump, UdpPump, Writer
<1>4. CASE t.job = "fetch"
  <2>1. PICK w : tasks' = (tasks \ {t}) \cup {w} /\ w.sid = t.sid /\ w.job = t.job
    BY <1>2, <1>4
  <2>2. TaskStep(t, w)
    BY <1>1, <1>2, <2>1 DEF TaskStep
  <2>3. Ended' /\ EndIsTrue' /\ \A s : Answered(s)' <=> Answered(s)
    BY <1>1, <2>2, EndsKept
  <2>4. DownInOrder' /\ MapFollowsPumps' /\ Known'
    BY <1>1, <1>3, <2>2, OrderKept, MapKept
  <2>5. TaskKinds'
    BY <1>4, <2>1, <2>2, KindsKept, TaskFacts
  <2>6. Whole'
    BY <1>2, <1>4, <2>2, WholeStays, TaskFacts DEF Raw
  <2> QED
    BY <1>1, <2>2, <2>3, <2>4, <2>5, <2>6, TaskTraces DEF Inductive
<1>5. CASE t.job # "fetch"
  <2>1. tasks' = tasks \ {t} /\ t.job \in {"write", "datagram"} /\ t.sid \in Raw
    BY <1>2, <1>3, <1>5, TaskFacts DEF Tasks
  <2>2. TaskStep(t, t)
    BY <1>1, <1>2, <2>1 DEF TaskStep
  <2>3. Ended' /\ EndIsTrue' /\ \A s : Answered(s)' <=> Answered(s)
    BY <1>1, <2>2, EndsKept
  <2>4. DownInOrder' /\ MapFollowsPumps' /\ Known'
    BY <1>1, <1>3, <2>2, OrderKept, MapKept
  <2>5. TaskKinds'
    BY <2>1, <2>2, KindsKept
  <2>6. Whole'
    <3>1. t.arg \in Payloads /\ Raw \subseteq Sids
      BY TaskFacts DEF Tasks, Raw
    <3>2. Gone(t.sid)' = Gone(t.sid) + 1 /\ Met(t.sid)' = Met(t.sid) \cup {t.arg}
      BY <1>2, <2>1, <3>1, FateGrows
    <3>3. \A s \in Raw : s # t.sid => Gone(s)' = Gone(s) /\ Met(s)' = Met(s)
      BY <1>2, <3>1, FateKept
    <3> QED
      BY <1>1, <2>1, <3>2, <3>3, WholeWritten
  <2> QED
    BY <1>1, <2>2, <2>3, <2>4, <2>5, <2>6, TaskTraces DEF Inductive
<1> QED
  BY <1>4, <1>5

LEMMA FetchReadsStep ==
  ASSUME Inductive, NEW t \in tasks, FetchReads(t), Typed'
  PROVE  Inductive'
<1> USE DEF readerVars, outVars, remoteVars, clientVars, linkVars
<1>1. PICK w : tasks' = (tasks \ {t}) \cup {w} /\ w.sid = t.sid /\ w.job = t.job
  <2>1. \A at, arg : Task(t.job, t.sid, at, arg).sid = t.sid
                      /\ Task(t.job, t.sid, at, arg).job = t.job
    BY DEF Task
  <2>2. \E at, arg : Moves(t, at, arg)
    BY DEF FetchReads
  <2> QED
    BY <2>1, <2>2 DEF Moves
<1>2. t.job = "fetch" /\ t.at = "read"
      /\ UNCHANGED <<client, sent, ended, up, link, mode, reader, cur, streams, chan,
                     egress, wire, remote, said, taken, heard, missed>>
  BY DEF FetchReads
<1>3. TaskStep(t, w)
  BY <1>1, <1>2 DEF TaskStep
<1>4. Ended' /\ EndIsTrue' /\ \A s : Answered(s)' <=> Answered(s)
  BY <1>2, <1>3, EndsKept
<1>5. DownInOrder' /\ MapFollowsPumps' /\ Known'
  BY <1>2, <1>3, OrderKept, MapKept
<1>6. TaskKinds'
  BY <1>1, <1>2, <1>3, KindsKept, TaskFacts
<1>7. Whole'
  BY <1>2, <1>3, WholeStays
<1> QED
  BY <1>2, <1>3, <1>4, <1>5, <1>6, <1>7, TaskTraces DEF Inductive

LEMMA RemovesStep ==
  ASSUME Inductive, NEW t \in tasks, Removes(t), Typed'
  PROVE  Inductive'
<1> USE DEF readerVars, outVars, remoteVars, clientVars, linkVars
<1>1. /\ t.at = "remove" /\ tasks' = tasks \ {t} /\ streams' = streams \ {t.sid}
      /\ UNCHANGED <<client, sent, ended, up, link, mode, reader, cur, chan,
                     egress, wire, remote, said, taken, heard, missed>>
  BY DEF Removes
<1>2. TaskStep(t, t)
  BY <1>1 DEF TaskStep
<1>3. t.job \in {"pump", "fetch"}
  BY <1>1 DEF Inductive, TaskKinds, TcpPump, UdpPump, Writer
<1>4. Ended' /\ EndIsTrue' /\ \A s : Answered(s)' <=> Answered(s)
  BY <1>1, <1>2, EndsKept
<1>5. DownInOrder' /\ TaskKinds' /\ Whole'
  BY <1>1, <1>2, <1>3, OrderKept, KindsKept, WholeStays
<1>6. MapFollowsPumps'
  <2>1. ASSUME NEW s \in Raw
        PROVE  LET pumped == \E u \in tasks' : u.job = "pump" /\ u.sid = s IN
               /\ s \in streams' => pumped
               /\ pumped /\ s \notin streams' => s \in ended'
    <3>1. CASE s = t.sid
      <4>1. t.job = "pump"
        BY <1>3, <2>1, <3>1, TaskFacts
      <4> QED
        BY <1>1, <3>1, <4>1 DEF Inductive, OneEach
    <3>2. CASE s # t.sid
      BY <1>1, <3>2 DEF Inductive, MapFollowsPumps
    <3> QED
      BY <3>1, <3>2
  <2> QED
    BY <2>1 DEF MapFollowsPumps
<1>7. Known'
  <2>1. ASSUME NEW s \in Raw, remote[s] = "open", link # "lost", s \notin streams'
        PROVE  Coming(s) = {} /\ (s \in ended \/ link # "open")
    <3>1. CASE s \notin streams
      BY <2>1, <3>1 DEF Inductive, Known
    <3>2. CASE s = t.sid
      <4>1. t.job = "pump"
        BY <1>3, <2>1, <3>2, TaskFacts
      <4>2. egress = "done"
        BY <1>1, <2>1, <3>2, <4>1 DEF Inductive, TaskKinds, TcpPump, UdpPump, Writer
      <4>3. link # "open" /\ up = <<>>
        BY <2>1, <4>2 DEF Inductive, Over
      <4> QED
        BY <4>3 DEF Coming
    <3> QED
      BY <1>1, <2>1, <3>1, <3>2
  <2>2. \A s : Coming(s)' = Coming(s)
    BY <1>1 DEF Coming
  <2> QED
    BY <1>1, <2>1, <2>2 DEF Known
<1> QED
  BY <1>1, <1>2, <1>4, <1>5, <1>6, <1>7, TaskTraces DEF Inductive

-----------------------------------------------------------------------------
\* The tasks: a pump reads, and sends what it read.

\* DownInOrder, of one stream.
InOrder(s) ==
  /\ \A i \in PayloadsOut(s) :
       LET n == Cardinality(PayloadsOut(s) \cap 1..i) IN
       n <= Len(Says[s]) /\ Out[i].body = Says[s][n]
  /\ egress = "running" =>
       LET n == taken[s] - Cardinality(InHand(s)) IN
       /\ Cardinality(PayloadsOut(s)) = n
       /\ InHand(s) = {Says[s][k] : k \in n + 1..taken[s]}

LEMMA InOrderIs == /\ DownInOrder <=> \A s \in Raw : InOrder(s)
                   /\ DownInOrder' <=> \A s \in Raw : InOrder(s)'
BY DEF DownInOrder, InOrder

LEMMA InOrderKept ==
  ASSUME NEW s, InOrder(s), PayloadsOut(s)' = PayloadsOut(s),
         \A i \in PayloadsOut(s) : Out'[i] = Out[i], InHand(s)' = InHand(s), taken'[s] = taken[s],
         egress' = egress
  PROVE  InOrder(s)'
BY DEF InOrder

LEMMA PumpReadsStep ==
  ASSUME Inductive, NEW t \in tasks, PumpReads(t), Typed'
  PROVE  Inductive'
<1> USE DEF readerVars, outVars, remoteVars, clientVars, linkVars
<1>1. /\ t.job = "pump" /\ t.at = "read"
      /\ UNCHANGED <<client, sent, ended, up, link, mode, reader, cur, streams, chan,
                     egress, wire, remote, said, heard, missed>>
  BY DEF PumpReads
<1>2. \A at, arg : LET w == Task(t.job, t.sid, at, arg) IN
        w.sid = t.sid /\ w.job = t.job /\ w.at = at /\ w.arg = arg
  BY DEF Task
<1>3. \E w : /\ tasks' = (tasks \ {t}) \cup {w} /\ w.sid = t.sid /\ w.job = t.job
             /\ \/ /\ taken[t.sid] < said[t.sid] /\ taken' = [taken EXCEPT ![t.sid] = @ + 1]
                   /\ w.at = "send" /\ w.arg = Says[t.sid][taken[t.sid] + 1]
                \/ /\ taken[t.sid] = said[t.sid] /\ remote[t.sid] = "closed" /\ taken' = taken
                   /\ w.at = IF Proto[t.sid] = "udp" THEN "remove" ELSE "end"
  <2>1. \/ /\ taken[t.sid] < said[t.sid] /\ taken' = [taken EXCEPT ![t.sid] = @ + 1]
           /\ Moves(t, "send", Says[t.sid][taken[t.sid] + 1])
        \/ /\ taken[t.sid] = said[t.sid] /\ remote[t.sid] = "closed" /\ taken' = taken
           /\ Moves(t, IF Proto[t.sid] = "udp" THEN "remove" ELSE "end", "none")
    BY DEF PumpReads
  <2> QED
    BY <1>2, <2>1 DEF Moves
<1>4. PICK w : /\ tasks' = (tasks \ {t}) \cup {w} /\ w.sid = t.sid /\ w.job = t.job
               /\ \/ /\ taken[t.sid] < said[t.sid] /\ taken' = [taken EXCEPT ![t.sid] = @ + 1]
                     /\ w.at = "send" /\ w.arg = Says[t.sid][taken[t.sid] + 1]
                  \/ /\ taken[t.sid] = said[t.sid] /\ remote[t.sid] = "closed" /\ taken' = taken
                     /\ w.at = IF Proto[t.sid] = "udp" THEN "remove" ELSE "end"
  BY <1>3
<1>5. taken \in [Sids -> Nat] /\ t.sid \in Sids /\ t.sid \in Raw
  BY <1>1, TaskFacts DEF Inductive, Typed, TypeOK
<1>6. TaskStep(t, w)
  BY <1>1, <1>4, <1>5 DEF TaskStep
<1>7. Ended' /\ EndIsTrue' /\ \A s : Answered(s)' <=> Answered(s)
  BY <1>1, <1>6, EndsKept
<1>8. MapFollowsPumps' /\ Known' /\ Whole'
  BY <1>1, <1>4, <1>6, MapKept, WholeStays
<1>9. TaskKinds'
  <2>1. Proto[t.sid] = "tcp" \/ Proto[t.sid] = "udp"
    BY <1>5, ConstantsTyped
  <2>2. TcpPump(w)' \/ UdpPump(w)'
    BY <1>1, <1>4, <2>1 DEF TcpPump, UdpPump
  <2> QED
    BY <1>6, <2>2, KindsKept
<1>10. DownInOrder'
  <2>1. CASE taken' = taken
    <3>1. w.at # "send"
      BY <1>4, <1>5, <2>1
    <3> QED
      BY <1>1, <1>6, <2>1, <3>1, OrderKept
  <2>2. CASE /\ taken[t.sid] < said[t.sid] /\ taken' = [taken EXCEPT ![t.sid] = @ + 1]
             /\ w.at = "send" /\ w.arg = Says[t.sid][taken[t.sid] + 1]
    <3>1. Out' = Out /\ \A s : PayloadsOut(s)' = PayloadsOut(s)
      BY <1>1 DEF Out, PayloadsOut
    <3>2. ASSUME NEW s \in Raw, s # t.sid PROVE InOrder(s)'
      <4>1. {u \in tasks : u.sid = s /\ u.job = "pump" /\ u.at = "send"}'
              = {u \in tasks : u.sid = s /\ u.job = "pump" /\ u.at = "send"}
        BY <1>4, <3>2
      <4>2. InHand(s)' = InHand(s)
        BY <4>1 DEF InHand
      <4>3. InOrder(s)
        BY InOrderIs DEF Inductive
      <4>4. taken'[s] = taken[s]
        BY <1>5, <2>2, <3>2
      <4> QED
        BY <1>1, <3>1, <4>2, <4>3, <4>4, InOrderKept
    <3>3. ASSUME NEW s \in Raw, s = t.sid PROVE InOrder(s)'
      <4>1. {u \in tasks : u.sid = s /\ u.job = "pump" /\ u.at = "send"} = {}
        BY <1>1, <3>3 DEF Inductive, OneEach
      <4>2. {u \in tasks : u.sid = s /\ u.job = "pump" /\ u.at = "send"}' = {w}
        BY <1>1, <1>4, <2>2, <3>3, <4>1
      <4>3. InHand(s) = {} /\ InHand(s)' = {w.arg}
        BY <4>1, <4>2 DEF InHand
      <4>4. Cardinality(InHand(s)) = 0 /\ Cardinality(InHand(s)') = 1
        BY <4>3, FS_EmptySet, FS_Singleton
      <4>5. taken[s] \in Nat /\ taken'[s] = taken[s] + 1
        BY <1>5, <2>2, <3>3
      <4>6. InOrder(s)
        BY InOrderIs DEF Inductive
      <4>7. egress = "running" => Cardinality(PayloadsOut(s)) = taken[s]
        BY <4>4, <4>5, <4>6 DEF InOrder
      <4>8. taken'[s] - Cardinality(InHand(s)') = taken[s]
        BY <4>4, <4>5
      <4>9. {Says[s][k] : k \in taken[s] + 1..taken'[s]} = {w.arg}
        <5>1. \A k : k \in taken[s] + 1..taken'[s] <=> k = taken[s] + 1
          BY <4>5
        <5> QED
          BY <2>2, <3>3, <5>1
      <4>10. egress' = "running" =>
               LET n == taken'[s] - Cardinality(InHand(s)') IN
               /\ Cardinality(PayloadsOut(s)') = n
               /\ InHand(s)' = {Says[s][k] : k \in n + 1..taken'[s]}
        BY <1>1, <3>1, <4>3, <4>7, <4>8, <4>9
      <4>11. \A i \in PayloadsOut(s)' :
               LET n == Cardinality(PayloadsOut(s)' \cap 1..i) IN
               n <= Len(Says[s]) /\ Out'[i].body = Says[s][n]
        BY <3>1, <4>6 DEF InOrder
      <4> QED
        BY <4>10, <4>11 DEF InOrder
    <3> QED
      BY <3>2, <3>3, InOrderIs
  <2> QED
    BY <1>4, <2>1, <2>2
<1> QED
  BY <1>1, <1>6, <1>7, <1>8, <1>9, <1>10, TaskTraces DEF Inductive

-----------------------------------------------------------------------------
\* A frame joins what is out.
LEMMA FrameOut ==
  ASSUME Inductive, NEW f \in WireFrames, chan' = Append(chan, f), wire' = wire
  PROVE  /\ DOMAIN Out = 1..Len(Out) /\ Len(Out) \in Nat /\ DOMAIN Out' = 1..(Len(Out) + 1)
         /\ \A i \in DOMAIN Out : Out'[i] = Out[i]
         /\ Out'[Len(Out) + 1] = f
         /\ \A s : Answered(s)' => Answered(s) \/ s = f.sid
         /\ \A s : PayloadsOut(s)' = IF IsPayload(f, s) THEN PayloadsOut(s) \cup {Len(Out) + 1}
                                                        ELSE PayloadsOut(s)
         /\ \A s : Len(Out) + 1 \notin PayloadsOut(s)
<1>1. chan \in Seq(WireFrames) /\ wire \in Seq(WireFrames) /\ Out \in Seq(WireFrames)
  BY OutIs DEF Inductive, Typed, TypeOK
<1>2. Out' = Append(Out, f)
  BY <1>1 DEF Out
<1>3. /\ DOMAIN Out = 1..Len(Out) /\ Len(Out) \in Nat /\ DOMAIN Out' = 1..(Len(Out) + 1)
      /\ \A i \in DOMAIN Out : Out'[i] = Out[i]
      /\ Out'[Len(Out) + 1] = f
  BY <1>1, <1>2, UpAdds
<1>4. \A i \in DOMAIN Out' : i \in DOMAIN Out \/ i = Len(Out) + 1
  BY <1>3
<1>5. \A s : Answered(s)' => Answered(s) \/ s = f.sid
  BY <1>3, <1>4 DEF Answered
<1>6. \A s : /\ PayloadsOut(s)' = IF IsPayload(f, s) THEN PayloadsOut(s) \cup {Len(Out) + 1}
                                                     ELSE PayloadsOut(s)
             /\ Len(Out) + 1 \notin PayloadsOut(s)
  <2>1. ASSUME NEW s
        PROVE  /\ PayloadsIn(Append(Out, f), s) =
                    IF IsPayload(f, s) THEN PayloadsIn(Out, s) \cup {Len(Out) + 1}
                                       ELSE PayloadsIn(Out, s)
               /\ Len(Out) + 1 \notin PayloadsIn(Out, s)
    BY <1>1, PayloadsAdd
  <2> QED
    BY <1>2, <2>1, ComingIs
<1> QED
  BY <1>3, <1>5, <1>6

\* What a task sends is no payload: the order stays.
LEMMA OrderOfOthers ==
  ASSUME Inductive, NEW f \in WireFrames, chan' = Append(chan, f), wire' = wire,
         NEW s \in Raw, ~ IsPayload(f, s), InHand(s)' = InHand(s), taken'[s] = taken[s],
         egress' = egress
  PROVE  InOrder(s)'
<1>1. PayloadsOut(s)' = PayloadsOut(s) /\ \A i \in DOMAIN Out : Out'[i] = Out[i]
  BY FrameOut
<1>2. PayloadsOut(s) \subseteq DOMAIN Out
  BY DEF PayloadsOut
<1>3. InOrder(s)
  BY InOrderIs DEF Inductive
<1> QED
  BY <1>1, <1>2, <1>3, InOrderKept

\* A pump sends what it holds: the next chunk.
LEMMA NextInOrder ==
  ASSUME Inductive, NEW t \in tasks, t.job = "pump", t.at = "send",
         NEW f \in WireFrames, chan' = Append(chan, f), wire' = wire, f.body = t.arg,
         IsPayload(f, t.sid), InHand(t.sid)' = {}, taken' = taken, said' = said,
         egress = "running"
  PROVE  InOrder(t.sid)'
<1> DEFINE s == t.sid
           n == Len(Out) + 1
<1>1. s \in Raw /\ s \in Sids
  BY TaskFacts
<1>2. InOrder(s)
  BY <1>1, InOrderIs DEF Inductive
<1>3. InHand(s) = {t.arg}
  <2>1. {u \in tasks : u.sid = s /\ u.job = "pump" /\ u.at = "send"} = {t}
    BY DEF Inductive, OneEach
  <2> QED
    BY <2>1 DEF InHand
<1>4. Cardinality(InHand(s)) = 1 /\ Cardinality(InHand(s)') = 0
  BY <1>3, FS_EmptySet, FS_Singleton
<1>5. taken[s] \in Nat /\ said[s] \in Nat /\ taken[s] <= said[s] /\ said[s] <= Len(Says[s])
      /\ Len(Says[s]) \in Nat
  <2>1. Len(Says[s]) \in Nat
    BY <1>1, ConstantsTyped
  <2>2. /\ taken \in [Sids -> Nat] /\ said \in [Sids -> Nat]
        /\ \A r \in Raw : taken[r] <= said[r] /\ said[r] <= Len(Says[r])
    BY DEF Inductive, Typed, TypeOK
  <2> HIDE DEF s
  <2> QED
    BY <1>1, <2>1, <2>2
<1>6. Cardinality(PayloadsOut(s)) = taken[s] - 1
      /\ {t.arg} = {Says[s][k] : k \in taken[s] - 1 + 1..taken[s]}
  BY <1>2, <1>3, <1>4 DEF InOrder
<1>7. t.arg = Says[s][taken[s]]
  <2>1. \A k : k \in taken[s] - 1 + 1..taken[s] <=> k = taken[s]
    BY <1>5
  <2> QED
    BY <1>6, <2>1
<1>8. /\ DOMAIN Out = 1..Len(Out) /\ Len(Out) \in Nat
      /\ \A i \in DOMAIN Out : Out'[i] = Out[i]
      /\ Out'[n] = f /\ PayloadsOut(s)' = PayloadsOut(s) \cup {n} /\ n \notin PayloadsOut(s)
  BY FrameOut
<1>9. PayloadsOut(s) \subseteq 1..Len(Out) /\ IsFiniteSet(PayloadsOut(s))
  <2>1. PayloadsOut(s) \subseteq 1..Len(Out)
    BY <1>8 DEF PayloadsOut
  <2> QED
    <3>1. IsFiniteSet(1..Len(Out))
      BY <1>8, FS_Interval
    <3> QED
      BY <2>1, <3>1, FS_Subset
<1>10. Cardinality(PayloadsOut(s)') = taken[s]
  <2>1. Cardinality(PayloadsOut(s) \cup {n}) = Cardinality(PayloadsOut(s)) + 1
    BY <1>8, <1>9, FS_AddElement
  <2> QED
    BY <1>5, <1>6, <1>8, <2>1
<1> HIDE DEF s
<1>11. ASSUME NEW i \in PayloadsOut(s)
       PROVE  LET m == Cardinality(PayloadsOut(s)' \cap 1..i) IN
              m <= Len(Says[s]) /\ Out'[i].body = Says[s][m]
  <2>1. i \in 1..Len(Out) /\ n \notin 1..i
    BY <1>8, <1>9, <1>11
  <2>2. PayloadsOut(s)' \cap 1..i = PayloadsOut(s) \cap 1..i
    BY <1>8, <2>1
  <2> QED
    BY <1>2, <1>8, <2>1, <2>2 DEF InOrder
<1>12. LET m == Cardinality(PayloadsOut(s)' \cap 1..n) IN
       m <= Len(Says[s]) /\ Out'[n].body = Says[s][m]
  <2>1. PayloadsOut(s)' \cap 1..n = PayloadsOut(s)'
    BY <1>8, <1>9
  <2> QED
    <3>1. Out'[n].body = Says[s][taken[s]]
      BY <1>7, <1>8
    <3>2. Cardinality(PayloadsOut(s)' \cap 1..n) = taken[s]
      BY <1>10, <2>1
    <3>3. taken[s] <= Len(Says[s])
      BY <1>5
    <3> HIDE DEF n
    <3> QED
      BY <3>1, <3>2, <3>3
<1>13. \A i \in PayloadsOut(s)' :
         LET m == Cardinality(PayloadsOut(s)' \cap 1..i) IN
         m <= Len(Says[s]) /\ Out'[i].body = Says[s][m]
  <2> HIDE DEF n
  <2> QED
    BY <1>8, <1>11, <1>12
<1>14. LET m == taken'[s] - Cardinality(InHand(s)') IN
       /\ Cardinality(PayloadsOut(s)') = m
       /\ InHand(s)' = {Says[s][k] : k \in m + 1..taken'[s]}
  <2>1. taken'[s] - Cardinality(InHand(s)') = taken[s] /\ taken[s] + 1..taken'[s] = {}
    BY <1>4, <1>5 DEF s
  <2>2. InHand(s)' = {}
    BY DEF s
  <2> QED
    BY <1>10, <2>1, <2>2
<1> QED
  BY <1>13, <1>14 DEF InOrder, s

-----------------------------------------------------------------------------
\* The tasks: sending.

\* The pumps that hold something, of a stream t is not about.
LEMMA HandsOfOthers ==
  ASSUME NEW t, NEW w, TaskStep(t, w), NEW s, s # t.sid \/ t.job # "pump"
  PROVE  InHand(s)' = InHand(s)
<1>1. /\ t \in tasks /\ w.sid = t.sid /\ w.job = t.job
      /\ tasks' \subseteq (tasks \ {t}) \cup {w} /\ tasks \ {t} \subseteq tasks'
  BY DEF TaskStep
<1>2. {u \in tasks : u.sid = s /\ u.job = "pump" /\ u.at = "send"}'
        = {u \in tasks : u.sid = s /\ u.job = "pump" /\ u.at = "send"}
  BY <1>1
<1> QED
  BY <1>2 DEF InHand

\* A task sends a frame of its stream that is not its END.
LEMMA EndsBehind ==
  ASSUME Inductive, NEW t, NEW w, TaskStep(t, w), taken' = taken,
         t.job \in {"pump", "fetch"}, t.at # "remove",
         NEW f \in WireFrames, chan' = Append(chan, f), f.sid = t.sid, f.type # END
  PROVE  Ended' /\ EndIsTrue'
<1>1. /\ t \in tasks /\ w.sid = t.sid /\ w.job = t.job
      /\ tasks' \subseteq (tasks \ {t}) \cup {w} /\ wire' = wire /\ remote' = remote /\ said' = said
  BY DEF TaskStep
<1>2. /\ DOMAIN Out = 1..Len(Out) /\ Len(Out) \in Nat /\ DOMAIN Out' = 1..(Len(Out) + 1)
      /\ \A i \in DOMAIN Out : Out'[i] = Out[i]
      /\ Out'[Len(Out) + 1] = f
  BY <1>1, FrameOut
<1>3. \A i \in DOMAIN Out' : i \in DOMAIN Out \/ i = Len(Out) + 1
  BY <1>2
<1>4. \A i \in DOMAIN Out' : Out'[i].type = END =>
        i \in DOMAIN Out /\ Out'[i] = Out[i] /\ Out[i].type = END /\ Out[i].sid # t.sid
  BY <1>1, <1>2, <1>3, TaskFacts
<1>5. Ended'
  <2>1. ASSUME NEW i \in DOMAIN Out', Out'[i].type = END
        PROVE  /\ Out'[i].sid \in Sids
               /\ \A u \in tasks' :
                    u.sid = Out'[i].sid /\ u.job \in {"pump", "fetch"} => u.at = "remove"
    <3>1. i \in DOMAIN Out /\ Out'[i] = Out[i] /\ Out[i].type = END /\ Out[i].sid # t.sid
      BY <1>4, <2>1
    <3> QED
      BY <1>1, <3>1 DEF Inductive, Ended
  <2> QED
    BY <2>1 DEF Ended
<1>6. EndIsTrue'
  <2>1. ASSUME NEW i \in DOMAIN Out', Out'[i].type = END
        PROVE  /\ \A j \in DOMAIN Out' : Out'[j].sid = Out'[i].sid => j <= i
               /\ Proto[Out'[i].sid] = "tcp" =>
                    remote'[Out'[i].sid] = "closed" /\ taken'[Out'[i].sid] = said'[Out'[i].sid]
    <3>1. i \in DOMAIN Out /\ Out'[i] = Out[i] /\ Out[i].type = END /\ Out[i].sid # t.sid
      BY <1>4, <2>1
    <3>2. \A j \in DOMAIN Out' : Out'[j].sid = Out'[i].sid => j \in DOMAIN Out /\ Out'[j] = Out[j]
      BY <1>2, <1>3, <3>1
    <3> QED
      BY <1>1, <3>1, <3>2 DEF Inductive, EndIsTrue
  <2> QED
    BY <2>1 DEF EndIsTrue
<1> QED
  BY <1>5, <1>6

LEMMA SendsDataStep ==
  ASSUME Inductive, NEW t \in tasks, SendsData(t), Typed'
  PROVE  Inductive'
<1> USE DEF readerVars, outVars, remoteVars, clientVars, linkVars
<1>1. /\ t.at = "send" /\ Sends(DataType(t), t.sid, t.arg)
      /\ UNCHANGED <<client, sent, ended, up, link, mode, reader, cur, streams,
                     egress, wire, remote, said, taken, heard, missed>>
  BY DEF SendsData
<1>2. PICK w : /\ tasks' = (tasks \ {t}) \cup {w} /\ w.sid = t.sid /\ w.job = t.job
               /\ w.at = AfterSend(t)
  <2>1. \A at : LET w == Task(t.job, t.sid, at, "none") IN
          w.sid = t.sid /\ w.job = t.job /\ w.at = at
    BY DEF Task
  <2> QED
    BY <2>1 DEF SendsData, Moves
<1>3. TaskStep(t, w)
  BY <1>1, <1>2 DEF TaskStep
<1>4. t.job \in {"pump", "fetch"} /\ t \in Tasks
  BY <1>1, TaskFacts DEF Inductive, TaskKinds, TcpPump, UdpPump, Writer
<1>5. MapFollowsPumps' /\ Known' /\ Whole'
  BY <1>1, <1>2, <1>3, <1>4, MapKept, WholeStays
<1>6. TaskKinds'
  <2>1. CASE t.job = "fetch"
    BY <1>2, <1>3, <2>1, KindsKept, TaskFacts
  <2>2. CASE t.job = "pump"
    <3>1. t.sid \in Raw /\ (Proto[t.sid] = "tcp" \/ Proto[t.sid] = "udp")
      BY <2>2, TaskFacts, ConstantsTyped
    <3>2. egress = "running" \/ egress = "done"
      BY DEF Inductive, Typed, TypeOK
    <3>3. TcpPump(w)' \/ UdpPump(w)'
      BY <1>1, <1>2, <2>2, <3>1, <3>2 DEF TcpPump, UdpPump, AfterSend
    <3> QED
      BY <1>3, <3>3, KindsKept
  <2> QED
    BY <1>4, <2>1, <2>2
<1>7. /\ DataType(t) \in FrameTypes /\ DataType(t) # END
      /\ t.job = "fetch" => DataType(t) \notin {DATA, UDP}
      /\ t.job = "pump" => DataType(t) \in {DATA, UDP}
  <2>1. t.job = "fetch" => DataType(t) = RES
    BY <1>4, TaskFacts DEF DataType
  <2>2. t.job = "pump" => DataType(t) = UDP \/ DataType(t) = DATA
    BY DEF DataType
  <2> QED
    BY <1>4, <2>1, <2>2 DEF FrameTypes, DATA, UDP, RES, END
<1>8. CASE egress # "running"
  <2>1. chan' = chan
    BY <1>1, <1>8 DEF Sends
  <2>2. Ended' /\ EndIsTrue' /\ \A s : Answered(s)' <=> Answered(s)
    BY <1>1, <1>3, <2>1, EndsKept
  <2>3. DownInOrder'
    <3>1. Out' = Out /\ \A s : PayloadsOut(s)' = PayloadsOut(s)
      BY <1>1, <2>1 DEF Out, PayloadsOut
    <3> QED
      BY <1>1, <1>8, <3>1 DEF Inductive, DownInOrder
  <2> QED
    BY <1>1, <1>3, <1>5, <1>6, <2>1, <2>2, <2>3, TaskTraces DEF Inductive
<1>9. CASE egress = "running"
  <2>1. PICK f \in WireFrames : /\ chan' = Append(chan, f) /\ f.type = DataType(t)
                                /\ f.sid = t.sid /\ f.body = t.arg
    BY <1>1, <1>4, <1>7, <1>9, SentTyped DEF Inductive, Tasks
  <2>2. Ended' /\ EndIsTrue'
    BY <1>1, <1>3, <1>4, <1>7, <2>1, EndsBehind
  <2>3. \A s \in Sids : s # t.sid => (Answered(s)' => Answered(s))
    BY <1>1, <2>1, FrameOut
  <2>4. DownInOrder'
    <3>1. ASSUME NEW s \in Raw, s # t.sid \/ t.job = "fetch" PROVE InOrder(s)'
      <4>1. ~ IsPayload(f, s)
        BY <1>7, <2>1, <3>1 DEF IsPayload
      <4>2. InHand(s)' = InHand(s)
        BY <1>3, <3>1, HandsOfOthers
      <4> QED
        BY <1>1, <2>1, <4>1, <4>2, OrderOfOthers
    <3>2. ASSUME t.job = "pump" PROVE InOrder(t.sid)'
      <4>1. IsPayload(f, t.sid)
        BY <1>7, <2>1, <3>2 DEF IsPayload
      <4>2. w.at # "send"
        BY <1>2 DEF AfterSend
      <4>3. {u \in tasks' : u.sid = t.sid /\ u.job = "pump" /\ u.at = "send"} = {}
        BY <1>2, <3>2, <4>2 DEF Inductive, OneEach
      <4>4. InHand(t.sid)' = {}
        BY <4>3 DEF InHand
      <4> QED
        BY <1>1, <1>9, <2>1, <3>2, <4>1, <4>4, NextInOrder
    <3> QED
      BY <1>4, <3>1, <3>2, InOrderIs
  <2> QED
    BY <1>1, <1>3, <1>5, <1>6, <1>9, <2>2, <2>3, <2>4, TaskTraces DEF Inductive
<1> QED
  BY <1>8, <1>9

LEMMA SendsEndStep ==
  ASSUME Inductive, NEW t \in tasks, SendsEnd(t), Typed'
  PROVE  Inductive'
<1> USE DEF readerVars, outVars, remoteVars, clientVars, linkVars
<1>1. /\ t.at = "end" /\ Sends(END, t.sid, "none")
      /\ UNCHANGED <<client, sent, ended, up, link, mode, reader, cur, streams,
                     egress, wire, remote, said, taken, heard, missed>>
  BY DEF SendsEnd
<1>2. PICK w : /\ tasks' = (tasks \ {t}) \cup {w} /\ w.sid = t.sid /\ w.job = t.job
               /\ w.at = "remove"
  <2>1. LET w == Task(t.job, t.sid, "remove", "none") IN
          w.sid = t.sid /\ w.job = t.job /\ w.at = "remove"
    BY DEF Task
  <2> QED
    BY <2>1 DEF SendsEnd, Moves
<1>3. TaskStep(t, w)
  BY <1>1, <1>2 DEF TaskStep
<1>4. /\ t.job \in {"pump", "fetch"} /\ t \in Tasks /\ t.sid \in Sids
      /\ t.job = "pump" => TcpPump(t)
      /\ t.job = "fetch" => Proto[t.sid] = "l7"
  BY <1>1, TaskFacts DEF Inductive, TaskKinds, TcpPump, UdpPump, Writer
<1>5. MapFollowsPumps' /\ Known' /\ Whole'
  BY <1>1, <1>2, <1>3, <1>4, MapKept, WholeStays
<1>6. TaskKinds'
  <2>1. CASE t.job = "fetch"
    BY <1>2, <1>3, <2>1, KindsKept, TaskFacts
  <2>2. CASE t.job = "pump"
    <3>1. TcpPump(w)'
      BY <1>1, <1>2, <1>4, <2>2 DEF TcpPump
    <3> QED
      BY <1>3, <3>1, KindsKept
  <2> QED
    BY <1>4, <2>1, <2>2
<1>7. CASE egress # "running"
  <2>1. chan' = chan
    BY <1>1, <1>7 DEF Sends
  <2>2. Ended' /\ EndIsTrue' /\ \A s : Answered(s)' <=> Answered(s)
    BY <1>1, <1>3, <2>1, EndsKept
  <2>3. DownInOrder'
    BY <1>1, <1>2, <1>3, <2>1, OrderKept
  <2> QED
    BY <1>1, <1>3, <1>5, <1>6, <2>1, <2>2, <2>3, TaskTraces DEF Inductive
<1>8. CASE egress = "running"
  <2>1. PICK f \in WireFrames : chan' = Append(chan, f) /\ f.type = END /\ f.sid = t.sid
    <3>1. END \in FrameTypes /\ "none" \in Payloads
      BY DEF FrameTypes, Payloads
    <3> QED
      BY <1>1, <1>4, <1>8, <3>1, SentTyped DEF Inductive
  <2>2. \A s \in Sids : s # t.sid => (Answered(s)' => Answered(s))
    BY <1>1, <2>1, FrameOut
  <2>3. /\ DOMAIN Out = 1..Len(Out) /\ Len(Out) \in Nat /\ DOMAIN Out' = 1..(Len(Out) + 1)
        /\ \A i \in DOMAIN Out : Out'[i] = Out[i]
        /\ Out'[Len(Out) + 1] = f
    BY <1>1, <2>1, FrameOut
  <2>4. \A i \in DOMAIN Out' : i \in DOMAIN Out \/ i = Len(Out) + 1
    BY <2>3
  <2>5. \A i \in DOMAIN Out : Out[i].type = END => Out[i].sid # t.sid
    BY <1>1, <1>4, TaskFacts
  <2>6. Ended'
    <3>1. ASSUME NEW i \in DOMAIN Out', Out'[i].type = END
          PROVE  /\ Out'[i].sid \in Sids
                 /\ \A u \in tasks' :
                      u.sid = Out'[i].sid /\ u.job \in {"pump", "fetch"} => u.at = "remove"
      <4>1. CASE i \in DOMAIN Out
        <5>1. Out'[i] = Out[i] /\ Out[i].type = END /\ Out[i].sid # t.sid
          BY <2>3, <2>5, <3>1, <4>1
        <5> QED
          BY <1>2, <4>1, <5>1 DEF Inductive, Ended
      <4>2. CASE i = Len(Out) + 1
        <5>1. \A u \in tasks : u.sid = t.sid /\ u.job \in {"pump", "fetch"} => u.job = t.job
          BY <1>4, TaskFacts
        <5>2. \A u \in tasks : u.sid = t.sid /\ u.job \in {"pump", "fetch"} => u = t
          BY <1>4, <5>1 DEF Inductive, OneEach
        <5> QED
          BY <1>2, <1>4, <2>1, <2>3, <4>2, <5>2
      <4> QED
        BY <2>4, <3>1, <4>1, <4>2
    <3> QED
      BY <3>1 DEF Ended
  <2>7. EndIsTrue'
    <3>1. ASSUME NEW i \in DOMAIN Out', Out'[i].type = END
          PROVE  /\ \A j \in DOMAIN Out' : Out'[j].sid = Out'[i].sid => j <= i
                 /\ Proto[Out'[i].sid] = "tcp" =>
                      remote'[Out'[i].sid] = "closed" /\ taken'[Out'[i].sid] = said'[Out'[i].sid]
      <4>1. CASE i \in DOMAIN Out
        <5>1. Out'[i] = Out[i] /\ Out[i].type = END /\ Out[i].sid # t.sid
          BY <2>3, <2>5, <3>1, <4>1
        <5>2. \A j \in DOMAIN Out' : Out'[j].sid = Out'[i].sid => j \in DOMAIN Out /\ Out'[j] = Out[j]
          BY <2>1, <2>3, <2>4, <5>1
        <5> QED
          BY <1>1, <4>1, <5>1, <5>2 DEF Inductive, EndIsTrue
      <4>2. CASE i = Len(Out) + 1
        <5>1. Out'[i].sid = t.sid
          BY <2>1, <2>3, <4>2
        <5>2. \A j \in DOMAIN Out' : j <= i
          BY <2>3, <4>2
        <5>3. Proto[t.sid] = "tcp" => remote[t.sid] = "closed" /\ taken[t.sid] = said[t.sid]
          BY <1>1, <1>4 DEF TcpPump
        <5> QED
          BY <1>1, <5>1, <5>2, <5>3
      <4> QED
        BY <2>4, <3>1, <4>1, <4>2
    <3> QED
      BY <3>1 DEF EndIsTrue
  <2>8. DownInOrder'
    <3>1. ASSUME NEW s \in Raw PROVE InOrder(s)'
      <4>1. ~ IsPayload(f, s)
        BY <2>1 DEF IsPayload, END, DATA, UDP
      <4>2. {u \in tasks : u.sid = s /\ u.job = "pump" /\ u.at = "send"}'
               = {u \in tasks : u.sid = s /\ u.job = "pump" /\ u.at = "send"}
        BY <1>1, <1>2
      <4>3. InHand(s)' = InHand(s)
        BY <4>2 DEF InHand
      <4> QED
        BY <1>1, <2>1, <4>1, <4>3, OrderOfOthers
    <3> QED
      BY <3>1, InOrderIs
  <2> QED
    BY <1>1, <1>3, <1>5, <1>6, <1>8, <2>2, <2>6, <2>7, <2>8, TaskTraces DEF Inductive
<1> QED
  BY <1>7, <1>8

-----------------------------------------------------------------------------
\* The egress pump and the remotes.

\* The pump, the remotes and the client leave the tasks and what was said on
\* its way alone.
LEMMA TasksQuiet ==
  ASSUME Inductive,
         UNCHANGED <<client, sent, ended, up, link, mode, reader, cur, streams, tasks, heard, missed>>
  PROVE  /\ Ciphers' /\ OneEach' /\ MapFollowsPumps' /\ UpOrder'
         /\ \A s : /\ Tasked(s)' <=> Tasked(s)
                   /\ Asking(s)' <=> Asking(s)
                   /\ Connecting(s)' <=> Connecting(s)
                   /\ Writers(s)' = Writers(s)
                   /\ Coming(s)' = Coming(s)
                   /\ InHand(s)' = InHand(s)
                   /\ WholeOf(s) => WholeOf(s)'
<1>1. Ciphers' /\ OneEach' /\ MapFollowsPumps' /\ UpOrder'
  BY DEF Inductive, Ciphers, Key, OneEach, MapFollowsPumps, UpOrder
<1>2. \A s : /\ Tasked(s)' <=> Tasked(s)
             /\ Asking(s)' <=> Asking(s)
             /\ Connecting(s)' <=> Connecting(s)
             /\ Writers(s)' = Writers(s)
             /\ Coming(s)' = Coming(s)
             /\ InHand(s)' = InHand(s)
  BY DEF Tasked, Asking, Connecting, Writers, Coming, InHand
<1>3. \A s : WholeOf(s) => WholeOf(s)'
  BY <1>2, WholeKept, FateKept
<1> QED
  BY <1>1, <1>2, <1>3

LEMMA EgressStep ==
  ASSUME Inductive, Egress, Typed'
  PROVE  Inductive'
<1> USE DEF readerVars, outVars, remoteVars, clientVars, linkVars
<1>1. /\ egress = "running" /\ chan # <<>>
      /\ UNCHANGED <<client, sent, ended, up, link, mode, reader, cur, streams, tasks,
                     remote, said, taken, heard, missed>>
      /\ \/ wire' = Append(wire, Head(chan)) /\ chan' = Tail(chan) /\ egress' = egress
         \/ /\ link = "lost" \/ reader = "draining"
            /\ egress' = "done" /\ chan' = <<>> /\ wire' = wire
  BY DEF Egress
<1>2. /\ Ciphers' /\ OneEach' /\ MapFollowsPumps' /\ UpOrder'
      /\ \A s : /\ Tasked(s)' <=> Tasked(s)
                /\ Asking(s)' <=> Asking(s)
                /\ Connecting(s)' <=> Connecting(s)
                /\ Writers(s)' = Writers(s)
                /\ Coming(s)' = Coming(s)
                /\ InHand(s)' = InHand(s)
                /\ WholeOf(s) => WholeOf(s)'
  BY <1>1, TasksQuiet
<1>3. UpFrames' /\ Unopened'
  BY <1>1 DEF Inductive, UpFrames, Fits, Unopened
<1>4. Starting'
  BY <1>1 DEF Inductive, Starting
<1>5. Known' /\ Whole'
  BY <1>1, <1>2 DEF Inductive, Known, Whole, Live
<1>6. TaskKinds'
  BY <1>1 DEF Inductive, TaskKinds, TcpPump, UdpPump, Writer
<1>7. wire \in Seq(WireFrames) /\ chan \in Seq(WireFrames)
      /\ Out \in Seq(WireFrames) /\ Len(Out) = Len(wire) + Len(chan)
      /\ \A i \in 1..Len(wire) : Out[i] = wire[i]
  BY OutIs DEF Inductive, Typed, TypeOK
<1>8. CASE wire' = Append(wire, Head(chan)) /\ chan' = Tail(chan) /\ egress' = egress
  <2>1. Out' = Out
    BY <1>1, <1>7, <1>8 DEF Out
  <2>2. \A s : (Answered(s)' <=> Answered(s)) /\ PayloadsOut(s)' = PayloadsOut(s)
    BY <2>1 DEF Answered, PayloadsOut
  <2>3. Fresh' /\ Unasked'
    BY <1>1, <1>2, <2>2 DEF Inductive, Fresh, Unasked
  <2>4. Ended' /\ EndIsTrue' /\ DownInOrder'
    BY <1>1, <1>2, <1>8, <2>1, <2>2 DEF Inductive, Ended, EndIsTrue, DownInOrder
  <2>5. Over'
    BY <1>1, <1>8 DEF Inductive, Over
  <2> QED
    BY <1>2, <1>3, <1>4, <1>5, <1>6, <2>3, <2>4, <2>5 DEF Inductive
<1>9. CASE /\ link = "lost" \/ reader = "draining"
           /\ egress' = "done" /\ chan' = <<>> /\ wire' = wire
  <2>1. Out' = wire
    BY <1>7, <1>9 DEF Out
  <2>2. /\ DOMAIN wire = 1..Len(wire) /\ DOMAIN Out = 1..Len(Out)
        /\ Len(wire) \in Nat /\ Len(chan) \in Nat
    BY <1>7
  <2>3. DOMAIN Out' \subseteq DOMAIN Out /\ \A i \in DOMAIN Out' : Out'[i] = Out[i]
    BY <1>7, <2>1, <2>2
  <2>4. \A s : Answered(s)' => Answered(s)
    BY <2>3 DEF Answered
  <2>5. Fresh' /\ Unasked'
    BY <1>1, <1>2, <2>4 DEF Inductive, Fresh, Unasked
  <2>6. Ended' /\ EndIsTrue'
    BY <1>1, <2>3 DEF Inductive, Ended, EndIsTrue
  <2>7. Over'
    BY <1>1, <1>9 DEF Inductive, Over
  <2>8. DownInOrder'
    <3>1. ASSUME NEW s \in Raw, NEW i \in PayloadsOut(s)'
          PROVE  LET n == Cardinality(PayloadsOut(s)' \cap 1..i) IN
                 n <= Len(Says[s]) /\ Out'[i].body = Says[s][n]
      <4>1. PayloadsOut(s)' = {j \in DOMAIN Out' : IsPayload(Out'[j], s)}
        BY DEF PayloadsOut
      <4>2. i \in DOMAIN Out' /\ i \in PayloadsOut(s) /\ i \in 1..Len(wire)
        BY <2>1, <2>2, <2>3, <3>1, <4>1 DEF PayloadsOut
      <4>3. \A j \in 1..i : j \in DOMAIN Out'
        BY <2>1, <2>2, <4>2
      <4>4. PayloadsOut(s)' \cap 1..i = PayloadsOut(s) \cap 1..i
        BY <2>3, <4>1, <4>3 DEF PayloadsOut
      <4>5. Out'[i] = Out[i]
        BY <2>3, <4>2
      <4> QED
        BY <4>2, <4>4, <4>5 DEF Inductive, DownInOrder
    <3> QED
      BY <1>9, <3>1 DEF DownInOrder
  <2> QED
    BY <1>2, <1>3, <1>4, <1>5, <1>6, <2>5, <2>6, <2>7, <2>8 DEF Inductive
<1> QED
  BY <1>1, <1>8, <1>9

LEMMA EgressEndsStep ==
  ASSUME Inductive, EgressEnds, Typed'
  PROVE  Inductive'
<1> USE DEF readerVars, outVars, remoteVars, clientVars, linkVars
<1>1. /\ chan = <<>> /\ reader \in {"draining", "returned"} /\ egress' = "done"
      /\ UNCHANGED <<client, sent, ended, up, link, mode, reader, cur, streams, tasks, chan, wire,
                     remote, said, taken, heard, missed>>
  BY DEF EgressEnds
<1>2. /\ Ciphers' /\ OneEach' /\ MapFollowsPumps' /\ UpOrder'
      /\ \A s : /\ Tasked(s)' <=> Tasked(s)
                /\ Asking(s)' <=> Asking(s)
                /\ Connecting(s)' <=> Connecting(s)
                /\ Writers(s)' = Writers(s)
                /\ Coming(s)' = Coming(s)
                /\ WholeOf(s) => WholeOf(s)'
  BY <1>1, TasksQuiet
<1>3. Out' = Out /\ \A s : (Answered(s)' <=> Answered(s)) /\ PayloadsOut(s)' = PayloadsOut(s)
  BY <1>1 DEF Out, Answered, PayloadsOut
<1>4. UpFrames' /\ Unopened' /\ Starting' /\ Over'
  BY <1>1 DEF Inductive, UpFrames, Fits, Unopened, Starting, Over
<1>5. Known' /\ Whole'
  BY <1>1, <1>2 DEF Inductive, Known, Whole, Live
<1>6. TaskKinds'
  BY <1>1 DEF Inductive, TaskKinds, TcpPump, UdpPump, Writer
<1>7. Fresh' /\ Unasked'
  BY <1>1, <1>2, <1>3 DEF Inductive, Fresh, Unasked
<1>8. Ended' /\ EndIsTrue'
  BY <1>1, <1>3 DEF Inductive, Ended, EndIsTrue
<1>9. DownInOrder'
  BY <1>1, <1>3 DEF Inductive, DownInOrder
<1> QED
  BY <1>2, <1>4, <1>5, <1>6, <1>7, <1>8, <1>9 DEF Inductive

LEMMA RemoteStep ==
  ASSUME Inductive, NEW s \in Sids, RemoteSays(s) \/ RemoteCloses(s), Typed'
  PROVE  Inductive'
<1> USE DEF readerVars, outVars, remoteVars, clientVars, linkVars
<1>1. /\ remote[s] = "open"
      /\ UNCHANGED <<client, sent, ended, up, link, mode, reader, cur, streams, tasks, chan, wire,
                     egress, taken, heard, missed>>
      /\ \/ said' = [said EXCEPT ![s] = @ + 1] /\ remote' = remote
         \/ remote' = [remote EXCEPT ![s] = "closed"] /\ said' = said
  BY DEF RemoteSays, RemoteCloses
<1>2. /\ Ciphers' /\ OneEach' /\ MapFollowsPumps' /\ UpOrder'
      /\ \A r : /\ Tasked(r)' <=> Tasked(r)
                /\ Asking(r)' <=> Asking(r)
                /\ Connecting(r)' <=> Connecting(r)
                /\ Writers(r)' = Writers(r)
                /\ Coming(r)' = Coming(r)
                /\ InHand(r)' = InHand(r)
                /\ WholeOf(r) => WholeOf(r)'
  BY <1>1, TasksQuiet
<1>3. Out' = Out /\ \A r : (Answered(r)' <=> Answered(r)) /\ PayloadsOut(r)' = PayloadsOut(r)
  BY <1>1 DEF Out, Answered, PayloadsOut
<1>4. remote \in [Sids -> {"none", "open", "closed"}] /\ said \in [Sids -> Nat]
  BY DEF Inductive, Typed, TypeOK
<1>5. \A r \in Sids : /\ remote'[r] = "none" <=> remote[r] = "none"
                      /\ remote'[r] = "open" => remote[r] = "open"
                      /\ remote[r] = "closed" => remote'[r] = "closed" /\ said'[r] = said[r]
                      /\ remote[r] = "none" => said'[r] = said[r]
  BY <1>1, <1>4
<1>6. UpFrames'
  <2>1. ASSUME NEW i \in DOMAIN up, Fits(up[i]) PROVE Fits(up[i])'
    BY <1>1, <1>5, <2>1 DEF Fits, CONNECT, Hello
  <2> QED
    BY <1>1, <2>1 DEF Inductive, UpFrames, Fits
<1>7. Unopened'
  BY <1>1, <1>5 DEF Inductive, Unopened
<1>8. Starting' /\ Over'
  BY <1>1 DEF Inductive, Starting, Over
<1>9. Known'
  <2>1. \A r \in Raw : r \in Sids
    BY DEF Raw
  <2> QED
    BY <1>1, <1>2, <1>5, <2>1 DEF Inductive, Known
<1>10. Whole'
  <2>1. \A r \in Raw : r \in Sids
    BY DEF Raw
  <2>2. \A r \in Raw : Live(r)' => Live(r)
    BY <1>1, <1>2, <1>5, <2>1 DEF Live
  <2> QED
    BY <1>2, <2>2 DEF Inductive, Whole
<1>11. TaskKinds'
  <2>1. ASSUME NEW t \in tasks
        PROVE  TcpPump(t)' \/ UdpPump(t)' \/ Writer(t)' \/ (t.job = "fetch" /\ Proto[t.sid] = "l7")
    <3>1. t.sid \in Sids
      BY TaskFacts
    <3> QED
      BY <1>1, <1>5, <3>1 DEF Inductive, TaskKinds, TcpPump, UdpPump, Writer
  <2> QED
    BY <1>1, <2>1 DEF TaskKinds
<1>12. Fresh' /\ Unasked'
  BY <1>1, <1>2, <1>3, <1>5 DEF Inductive, Fresh, Unasked
<1>13. Ended'
  BY <1>1, <1>3 DEF Inductive, Ended
<1>14. EndIsTrue'
  <2>1. \A i \in DOMAIN Out : Out[i].type = END => Out[i].sid \in Sids
    BY DEF Inductive, Ended
  <2> QED
    BY <1>1, <1>3, <1>5, <2>1 DEF Inductive, EndIsTrue
<1>15. DownInOrder'
  BY <1>1, <1>2, <1>3 DEF Inductive, DownInOrder
<1> QED
  BY <1>2, <1>6, <1>7, <1>8, <1>9, <1>10, <1>11, <1>12, <1>13, <1>14, <1>15 DEF Inductive

-----------------------------------------------------------------------------
\* The invariant holds at first and in every step.

LEMMA InductiveInit == Init => Inductive
<1> SUFFICES ASSUME Init PROVE Inductive
  OBVIOUS
<1>1. Typed
  BY TypedInit
<1>2. /\ client = "new" /\ sent = [s \in Sids |-> 0] /\ up = <<>> /\ link = "open"
      /\ mode = "start" /\ reader = "reading" /\ cur = "none" /\ streams = {} /\ tasks = {}
      /\ chan = <<>> /\ egress = "running" /\ wire = <<>>
      /\ remote = [s \in Sids |-> "none"] /\ said = [s \in Sids |-> 0]
      /\ taken = [s \in Sids |-> 0] /\ heard = [s \in Sids |-> <<>>]
      /\ missed = [s \in Sids |-> <<>>]
  BY DEF Init
<1>3. DOMAIN up = {} /\ Out = <<>> /\ DOMAIN Out = {}
  BY <1>2 DEF Out
<1>4. UpFrames /\ UpOrder /\ Ciphers /\ Starting /\ Unopened
  BY <1>2, <1>3, ConstantsTyped DEF UpFrames, UpOrder, Ciphers, Starting, Unopened
<1>5. \A s : ~ Tasked(s) /\ ~ Answered(s)
  BY <1>2, <1>3 DEF Tasked, Answered
<1>6. Fresh /\ Unasked
  BY <1>2, <1>5 DEF Fresh, Unasked
<1>7. TaskKinds /\ OneEach /\ Over /\ Ended /\ EndIsTrue
  BY <1>2, <1>3 DEF TaskKinds, OneEach, Over, Ended, EndIsTrue
<1>8. Known /\ MapFollowsPumps
  BY <1>2, ConstantsTyped DEF Known, MapFollowsPumps
<1>9. Whole
  BY <1>2, <1>3, ConstantsTyped DEF Whole, Live, Connecting
<1>10. DownInOrder
  <2>1. ASSUME NEW s \in Raw PROVE InOrder(s)
    <3>1. PayloadsOut(s) = {} /\ InHand(s) = {} /\ taken[s] = 0
      BY <1>2, <1>3, <2>1, ConstantsTyped DEF PayloadsOut, InHand
    <3>2. Cardinality({}) = 0
      BY FS_EmptySet
    <3>3. taken[s] - Cardinality(InHand(s)) = 0 /\ 0 + 1..taken[s] = {}
      BY <3>1, <3>2
    <3> QED
      BY <3>1, <3>2, <3>3 DEF InOrder
  <2> QED
    BY <2>1, InOrderIs
<1> QED
  BY <1>1, <1>4, <1>6, <1>7, <1>8, <1>9, <1>10 DEF Inductive

LEMMA InductiveStep == Inductive /\ [Next]_vars => Inductive'
<1> SUFFICES ASSUME Inductive, [Next]_vars PROVE Inductive'
  OBVIOUS
<1> USE DEF readerVars, outVars, remoteVars, clientVars, linkVars
<1>1. CASE ClientNext
  <2>1. Typed'
    BY <1>1, ClientTyped DEF Inductive
  <2> QED
    BY <1>1, <2>1, ClientQuiet, ClientStep DEF Inductive
<1>2. CASE ReaderNext \/ ConnectReturns
  <2>1. Typed'
    BY <1>2, ReaderTyped DEF Inductive
  <2> QED
    BY <1>2, <2>1, ReadFirstStep, ReadDropsStep, ReadConnectStep, ReadWorkStep, ReadShortStep,
       ReadEndStep, ReaderStopsStep, ConnectReturnsStep DEF ReaderNext
<1>3. ASSUME NEW t \in tasks, TaskNext(t) PROVE Inductive'
  <2>1. Typed'
    BY <1>3, TasksTyped DEF Inductive
  <2> QED
    BY <1>3, <2>1, TakesLockStep, WritesStep, PumpReadsStep, FetchReadsStep, SendsDataStep,
       SendsEndStep, RemovesStep DEF TaskNext
<1>4. CASE Egress \/ EgressEnds
  <2>1. Typed'
    BY <1>4, EgressTyped DEF Inductive
  <2> QED
    BY <1>4, <2>1, EgressStep, EgressEndsStep
<1>5. ASSUME NEW s \in Sids, RemoteSays(s) \/ RemoteCloses(s) PROVE Inductive'
  <2>1. Typed'
    BY <1>5, RemoteTyped DEF Inductive
  <2> QED
    BY <1>5, <2>1, RemoteStep
<1>6. CASE UNCHANGED vars
  <2>1. UNCHANGED <<client, sent, ended, up, link, mode, reader, cur, streams, tasks, chan, egress,
                    wire, remote, said, taken, heard, missed>>
    BY <1>6 DEF vars
  <2>2. Typed'
    BY <2>1 DEF Inductive, Typed, TypeOK
  <2>3. /\ TaskKinds' /\ Ended' /\ EndIsTrue' /\ DownInOrder'
        /\ \A s : Answered(s)' <=> Answered(s)
    BY <2>1, ReaderQuiet
  <2>4. /\ Ciphers' /\ OneEach' /\ MapFollowsPumps' /\ UpOrder'
        /\ \A s : /\ Tasked(s)' <=> Tasked(s)
                  /\ Asking(s)' <=> Asking(s)
                  /\ Connecting(s)' <=> Connecting(s)
                  /\ Coming(s)' = Coming(s)
                  /\ WholeOf(s) => WholeOf(s)'
    BY <2>1, TasksQuiet
  <2>5. UpFrames' /\ Starting' /\ Over' /\ Unopened'
    BY <2>1 DEF Inductive, UpFrames, Fits, Starting, Over, Unopened
  <2>6. Fresh' /\ Unasked'
    BY <2>1, <2>3, <2>4 DEF Inductive, Fresh, Unasked
  <2>7. Known' /\ Whole'
    BY <2>1, <2>4 DEF Inductive, Known, Whole, Live
  <2> QED
    BY <2>2, <2>3, <2>4, <2>5, <2>6, <2>7 DEF Inductive
<1> QED
  BY <1>1, <1>2, <1>3, <1>4, <1>5, <1>6 DEF Next

\* Every state serve_conn and its tasks reach satisfies the invariant.
THEOREM InductiveAlways == Spec => []Inductive
BY InductiveInit, InductiveStep, PTL DEF Spec

\* The reader, the tasks, the channel and the streams of one connection keep
\* their types: the channel never holds more than its room, and no pump has
\* read more than its remote said.
THEOREM NodeTyped == Spec => []TypeOK
<1>1. Inductive => TypeOK
  BY DEF Inductive, Typed
<1> QED
  BY <1>1, InductiveAlways, PTL

\* wisp.rs, spawn_io_pump: although what a pump reads crosses the
\* socket's mutex, the bounded channel and the egress pump, the n-th payload
\* frame of a raw stream carries the n-th chunk its remote sent, and while the
\* egress pump runs the chunks read are the chunks out and the one in hand.
THEOREM DownAlwaysInOrder == Spec => []DownInOrder
<1>1. Inductive => DownInOrder
  BY DEF Inductive
<1> QED
  BY <1>1, InductiveAlways, PTL

\* A TCP stream misses nothing until its remote has closed.
Delivered == \A s \in Raw : Proto[s] = "tcp" /\ remote[s] # "closed" => missed[s] = <<>>

LEMMA DeliveredStep ==
  ASSUME Inductive, Delivered, [Next]_vars
  PROVE  Delivered'
<1> USE DEF readerVars, outVars, remoteVars, clientVars, linkVars
<1>0. /\ Raw \subseteq Sids /\ missed \in [Sids -> Seq(Payloads)]
      /\ remote \in [Sids -> {"none", "open", "closed"}]
  BY DEF Inductive, Typed, TypeOK, Raw
<1>1. CASE missed' = missed /\ \A s \in Raw : remote[s] = "closed" => remote'[s] = "closed"
  BY <1>1 DEF Delivered
<1>2. CASE ReadShort
  <2>1. /\ remote' = remote /\ Head(up).type = UDP /\ up # <<>>
        /\ \/ missed' = missed
           \/ missed' = [missed EXCEPT ![Head(up).sid] = Append(@, Head(up).body)]
    BY <1>2 DEF ReadShort, Takes, IsHead
  <2>2. Proto[Head(up).sid] = "udp"
    <3>1. Head(up) = up[1] /\ 1 \in DOMAIN up
      <4>1. up \in Seq(WireFrames)
        BY DEF Inductive, Typed, TypeOK
      <4> QED
        BY <2>1, <4>1, UpTakes
    <3> QED
      BY <2>1, <3>1 DEF Inductive, UpFrames, Fits, UDP, DATA, REQ, CONNECT, END, Hello
  <2>3. \A s \in Raw : Proto[s] = "tcp" => missed'[s] = missed[s]
    BY <1>0, <2>1, <2>2
  <2> QED
    BY <2>1, <2>3 DEF Delivered
<1>3. ASSUME NEW t \in tasks, Writes(t) PROVE Delivered'
  <2>1. /\ remote' = remote
        /\ \/ missed' = missed
           \/ /\ missed' = [missed EXCEPT ![t.sid] = Append(@, t.arg)]
              /\ remote[t.sid] = "closed" \/ t.job \in {"fetch", "datagram"}
    BY <1>3 DEF Writes
  <2>2. t.job \in {"fetch", "datagram"} => Proto[t.sid] # "tcp"
    BY DEF Inductive, TaskKinds, TcpPump, UdpPump, Writer
  <2>3. \A s \in Raw : Proto[s] = "tcp" /\ remote[s] # "closed" => missed'[s] = missed[s]
    BY <1>0, <2>1, <2>2
  <2> QED
    BY <2>1, <2>3 DEF Delivered
<1>4. CASE ClientNext
  BY <1>1, <1>4, ClientQuiet
<1>5. CASE ReaderNext /\ ~ ReadShort
  <2>1. UNCHANGED <<missed, remote>>
    BY <1>5 DEF ReaderNext, ReadFirst, ReadDrops, ReadConnect, ReadWork, ReadEnd, ReadStops, Drained
  <2> QED
    BY <1>1, <2>1
<1>6. CASE ConnectReturns
  <2>1. missed' = missed /\ (remote' = remote \/ remote' = [remote EXCEPT ![cur] = "open"])
    BY <1>6 DEF ConnectReturns
  <2>2. remote[cur] = "none" \/ cur \notin Sids
    BY DEF Inductive, Unopened
  <2>3. \A s \in Raw : remote[s] = "closed" => remote'[s] = "closed"
    BY <1>0, <2>1, <2>2
  <2> QED
    BY <1>1, <2>1, <2>3
<1>7. ASSUME NEW t \in tasks, TaskNext(t), ~ Writes(t) PROVE Delivered'
  <2>1. UNCHANGED <<missed, remote>>
    BY <1>7 DEF TaskNext, TakesLock, PumpReads, FetchReads, SendsData, SendsEnd, Removes
  <2> QED
    BY <1>1, <2>1
<1>8. CASE Egress \/ EgressEnds
  BY <1>1, <1>8 DEF Egress, EgressEnds
<1>9. ASSUME NEW s \in Sids, RemoteSays(s) \/ RemoteCloses(s) PROVE Delivered'
  <2>1. missed' = missed /\ (remote' = remote \/ remote' = [remote EXCEPT ![s] = "closed"])
    BY <1>9 DEF RemoteSays, RemoteCloses
  <2>2. \A r \in Raw : remote[r] = "closed" => remote'[r] = "closed"
    BY <1>0, <2>1
  <2> QED
    BY <1>1, <2>1, <2>2
<1>10. CASE UNCHANGED vars
  BY <1>1, <1>10 DEF vars
<1> QED
  BY <1>2, <1>3, <1>4, <1>5, <1>6, <1>7, <1>8, <1>9, <1>10 DEF Next

LEMMA DeliveredInit == Init => Delivered
<1>1. Raw \subseteq Sids
  BY DEF Raw
<1> QED
  BY <1>1 DEF Init, Delivered

\* wisp.rs, serve_conn, DATA and UDP: while a raw stream's remote is there and
\* the link is not lost, every chunk the client sent is on its way, in the
\* hands of exactly one of the tasks that wait for the lock, with the remote,
\* or missed, and counted once; a TCP stream misses none of them, so what was
\* missed is a datagram of less than two bytes or one whose send failed.
THEOREM UpAlwaysWhole == Spec => []UpIsWhole
<1>1. Inductive /\ Delivered => UpIsWhole
  <2> SUFFICES ASSUME Inductive, Delivered, NEW s \in Raw, remote[s] = "open", link # "lost"
               PROVE  /\ Len(heard[s]) + Len(missed[s]) + Cardinality(Writers(s))
                           + Cardinality(Coming(s)) = sent[s] - 1
                      /\ ToSet(heard[s]) \cup ToSet(missed[s]) \cup {t.arg : t \in Writers(s)}
                           \cup {up[i].body : i \in Coming(s)}
                           = {Chunks[s][k] : k \in 1..sent[s] - 1}
                      /\ Proto[s] = "tcp" => missed[s] = <<>>
    BY DEF UpIsWhole
  <2>1. WholeOf(s)
    BY DEF Inductive, Whole, Live
  <2> QED
    BY <2>1 DEF WholeOf, Gone, Met, Delivered
<1>2. Spec => []Delivered
  BY DeliveredInit, DeliveredStep, InductiveAlways, PTL DEF Spec
<1> QED
  BY <1>1, <1>2, InductiveAlways, PTL

\* wisp.rs, spawn_io_pump and T_REQ: END is the last frame of its stream, and a
\* TCP stream's END is sent only when the remote has closed and all it said was
\* read, whatever the other tasks of the connection do meanwhile.
THEOREM EndAlwaysTrue == Spec => []EndIsTrue
<1>1. Inductive => EndIsTrue
  BY DEF Inductive
<1> QED
  BY <1>1, InductiveAlways, PTL

\* wisp.rs, serve_conn, T_END, and the last line of spawn_io_pump: the stream map has
\* an entry for a raw stream exactly while its pump lives, or until the client
\* ended it.
THEOREM MapAlwaysFollows == Spec => []MapFollowsPumps
<1>1. Inductive => MapFollowsPumps
  BY DEF Inductive
<1> QED
  BY <1>1, InductiveAlways, PTL

-----------------------------------------------------------------------------
\* To a client that seals, the node is L7Node.

\* The values L7Node's variables stand for, for its one connection.
MapStreams == {s \in streams \cap L7Sids : Fetches(s, {"remove"}) = {}}
MapTrip(t) == [sid |-> t.sid, req |-> t.sid, read |-> t.at = "end"]
MapTrips == {MapTrip(t) : t \in {u \in tasks : u.job = "fetch" /\ u.at # "remove"}}
MapDown == IF egress = "running" THEN L7Frames(Out) ELSE <<>>
Sock == IF egress = "running" THEN "open" ELSE "closed"

LEMMA MapIs ==
  /\ (L7!nodeVars = <<[c \in {"ws"} |-> mode = "sealed"], [c \in {"ws"} |-> MapStreams],
                     [c \in {"ws"} |-> MapTrips]>>)
  /\ L7Ups = L7Frames(Awaited \o up)
  /\ L7Frames(wire \o chan) = L7Frames(Out)
BY DEF L7!nodeVars, MapStreams, MapTrips, MapTrip, L7Ups, Out

\* Nothing the node keeps changes, nothing is sent.
LEMMA WireMaps ==
  ASSUME (mode' = "sealed") = (mode = "sealed"), MapStreams' = MapStreams, MapTrips' = MapTrips, L7Runs' = L7Runs,
         IsPrefix(L7Ups, L7Ups') \/ IsPrefix(L7Ups', L7Ups),
         egress' = "running" => L7Frames(Out)' = L7Frames(Out)
  PROVE  L7Wire
BY MapIs DEF L7Wire, L7!nodeVars, MapStreams, MapTrips, MapTrip, Out


LEMMA NamesAgree ==
  /\ L7!HelloFrame = HelloFrame
  /\ \A q, type : L7!IsHead(q, type) <=> IsHead(q, type)
  /\ \A key, f : L7!Opens(key, f) <=> Opens(key, f)
  /\ \A type, s, key, body : L7!Frame(type, s, key, body) = Frame(type, s, key, body)
  /\ L7!Hello = Hello /\ L7!CONNECT = CONNECT /\ L7!REQ = REQ /\ L7!RES = RES /\ L7!END = END
BY DEF L7!HelloFrame, HelloFrame, L7!IsHead, IsHead, L7!Opens, Opens, L7!Frame, Frame,
       L7!Hello, Hello, L7!CONNECT, CONNECT, L7!REQ, REQ, L7!RES, RES, L7!END, END

LEMMA HelloMaps ==
  ASSUME mode # "sealed", mode' = "sealed", IsHead(L7Ups, Hello), L7Ups' = Tail(L7Ups),
         Sock' = Sock,
         MapDown' = IF Sock = "open" THEN Append(MapDown, HelloFrame) ELSE MapDown,
         MapStreams' = MapStreams, MapTrips' = MapTrips, L7Runs' = L7Runs
  PROVE  L7!NodeNext
<1> DEFINE c == "ws"
<1>1. L7!NodeHello(c)
  BY NamesAgree DEF L7!NodeHello, L7!NodeSend, L7!Consume, MapStreams, MapTrips, MapTrip, MapDown, Sock,
         Out, L7Ups
<1> QED
  BY <1>1 DEF L7!NodeNext

LEMMA DropMaps ==
  ASSUME mode = "sealed", mode' = "sealed", L7Ups # <<>>, ~ Opens("ws", Head(L7Ups)),
         L7Ups' = Tail(L7Ups), Sock' = Sock, MapDown' = MapDown,
         MapStreams' = MapStreams, MapTrips' = MapTrips, L7Runs' = L7Runs
  PROVE  L7!NodeNext
<1> DEFINE c == "ws"
<1>1. L7!NodeDrop(c)
  BY NamesAgree DEF L7!NodeDrop, L7!nodeVars, L7!Consume, MapStreams, MapTrips, MapTrip, MapDown,
         Sock, Out, L7Ups
<1> QED
  BY <1>1 DEF L7!NodeNext

LEMMA ConnectMaps ==
  ASSUME mode = "sealed", mode' = "sealed", IsHead(L7Ups, CONNECT), Opens("ws", Head(L7Ups)),
         L7Ups' = Tail(L7Ups), Sock' = Sock, MapDown' = MapDown,
         MapStreams' = MapStreams \cup {Head(L7Ups).sid} \/ MapStreams' = MapStreams,
         MapTrips' = MapTrips, L7Runs' = L7Runs
  PROVE  L7!NodeNext
<1> DEFINE c == "ws"
<1>1. L7!NodeConnect(c)
  BY NamesAgree DEF L7!NodeConnect, L7!Consume, MapStreams, MapTrips, MapTrip, MapDown,
         Sock, Out, L7Ups
<1> QED
  BY <1>1 DEF L7!NodeNext

LEMMA ReqMaps ==
  ASSUME mode = "sealed", mode' = "sealed", IsHead(L7Ups, REQ), Opens("ws", Head(L7Ups)),
         L7Ups' = Tail(L7Ups), Sock' = Sock, MapDown' = MapDown, MapStreams' = MapStreams,
         MapTrips' = IF Head(L7Ups).sid \in MapStreams
                     THEN MapTrips \cup {[sid |-> Head(L7Ups).sid, req |-> Head(L7Ups).body,
                                          read |-> FALSE]}
                     ELSE MapTrips,
         L7Runs' = L7Runs
  PROVE  L7!NodeNext
<1> DEFINE c == "ws"
<1>1. L7!NodeReq(c)
  BY NamesAgree DEF L7!NodeReq, L7!Consume, MapStreams, MapTrips, MapTrip, MapDown,
         Sock, Out, L7Ups
<1> QED
  BY <1>1 DEF L7!NodeNext

LEMMA TripEnds ==
  ASSUME NEW s
  PROVE  [[sid |-> s, req |-> s, read |-> FALSE] EXCEPT !.read = TRUE]
           = [sid |-> s, req |-> s, read |-> TRUE]
<1> DEFINE R == [sid : {s}, req : {s}, read : BOOLEAN]
           t == [sid |-> s, req |-> s, read |-> FALSE]
<1>1. t \in R
  OBVIOUS
<1> HIDE DEF t
<1> DEFINE u == [t EXCEPT !.read = TRUE]
<1>2. u \in R /\ u.read = TRUE /\ u.sid = s /\ u.req = s
  BY <1>1
<1> HIDE DEF u
<1>3. u = [sid |-> s, req |-> s, read |-> TRUE]
  BY <1>2
<1> QED
  BY <1>3 DEF u, t

LEMMA RoundtripMaps ==
  ASSUME NEW s \in L7Sids,
         (mode' = "sealed") = (mode = "sealed"), L7Ups' = L7Ups, Sock' = Sock, MapStreams' = MapStreams,
         [sid |-> s, req |-> s, read |-> FALSE] \in MapTrips,
         MapTrips' = (MapTrips \ {[sid |-> s, req |-> s, read |-> FALSE]})
                       \cup {[sid |-> s, req |-> s, read |-> TRUE]},
         \/ /\ L7Runs' = [L7Runs EXCEPT ![s] = @ + 1]
            /\ \/ MapDown' = MapDown
               \/ \E b \in {s, "junk"} :
                    MapDown' = IF Sock = "open" THEN Append(MapDown, Frame(RES, s, "ws", b))
                               ELSE MapDown
         \/ L7Runs' = L7Runs /\ MapDown' = MapDown
  PROVE  L7!NodeNext
<1> DEFINE c == "ws"
           t == [sid |-> s, req |-> s, read |-> FALSE]
<1>1. /\ t.sid = s /\ t.req = s /\ ~ t.read
      /\ [t EXCEPT !.read = TRUE] = [sid |-> s, req |-> s, read |-> TRUE]
  <2>1. t.sid = s /\ t.req = s /\ ~ t.read
    OBVIOUS
  <2>2. [t EXCEPT !.read = TRUE] = [sid |-> s, req |-> s, read |-> TRUE]
    BY TripEnds
  <2> QED
    BY <2>1, <2>2
<1> HIDE DEF t
<1>2. L7!NodeRoundtrip(c, t)
  BY <1>1, NamesAgree DEF t, L7!NodeRoundtrip, L7!NodeSend, L7!Run, MapStreams, MapTrips, MapTrip, MapDown,
         Sock, Out, L7Ups
<1>3. t \in [c_1 \in {"ws"} |-> MapTrips][c]
  BY DEF t
<1> QED
  BY <1>2, <1>3 DEF L7!NodeNext, MapTrips, MapTrip

LEMMA EndMaps ==
  ASSUME NEW s \in L7Sids,
         (mode' = "sealed") = (mode = "sealed"), L7Ups' = L7Ups, Sock' = Sock,
         [sid |-> s, req |-> s, read |-> TRUE] \in MapTrips,
         MapTrips' = MapTrips \ {[sid |-> s, req |-> s, read |-> TRUE]},
         MapStreams' = MapStreams \ {s},
         MapDown' = IF Sock = "open" THEN Append(MapDown, Frame(END, s, "ws", "none")) ELSE MapDown,
         L7Runs' = L7Runs
  PROVE  L7!NodeNext
<1> DEFINE c == "ws"
           t == [sid |-> s, req |-> s, read |-> TRUE]
<1>1. t.sid = s /\ t.req = s /\ t.read
  OBVIOUS
<1> HIDE DEF t
<1>2. L7!NodeEnd(c, t)
  BY <1>1, NamesAgree DEF t, L7!NodeEnd, L7!NodeSend, MapStreams, MapTrips, MapTrip, MapDown,
         Sock, Out, L7Ups
<1>3. t \in [c_1 \in {"ws"} |-> MapTrips][c]
  BY DEF t
<1> QED
  BY <1>2, <1>3 DEF L7!NodeNext, MapTrips, MapTrip

LEMMA FramesAppend ==
  ASSUME NEW q \in Seq(WireFrames), NEW f \in WireFrames
  PROVE  L7Frames(Append(q, f)) = IF f \in L7Kept THEN Append(L7Frames(q), f) ELSE L7Frames(q)
BY SelectAppend DEF L7Frames

LEMMA FramesConcat ==
  ASSUME NEW p \in Seq(WireFrames), NEW q \in Seq(WireFrames)
  PROVE  L7Frames(p \o q) = L7Frames(p) \o L7Frames(q)
BY SelectConcat DEF L7Frames

LEMMA FramesHead ==
  ASSUME NEW q \in Seq(WireFrames), NEW f \in WireFrames
  PROVE  L7Frames(<<f>> \o q) = IF f \in L7Kept THEN <<f>> \o L7Frames(q) ELSE L7Frames(q)
BY SelectHead DEF L7Frames

LEMMA FramesTyped ==
  ASSUME NEW q \in Seq(WireFrames)
  PROVE  L7Frames(q) \in Seq(WireFrames)
BY SelectTyped DEF L7Frames

LEMMA FramesEmpty == L7Frames(<<>>) = <<>>
BY SelectEmpty DEF L7Frames

LEMMA HeadAndTail ==
  ASSUME NEW q \in Seq(WireFrames), q # <<>>
  PROVE  q = <<Head(q)>> \o Tail(q) /\ Head(q) \in WireFrames /\ Tail(q) \in Seq(WireFrames)
OBVIOUS

LEMMA InFront ==
  ASSUME NEW q \in Seq(WireFrames), NEW f \in WireFrames
  PROVE  <<f>> \o q # <<>> /\ Head(<<f>> \o q) = f /\ Tail(<<f>> \o q) = q
OBVIOUS

\* What is kept of a queue whose head is taken.
LEMMA FramesBehind ==
  ASSUME NEW q \in Seq(WireFrames), q # <<>>
  PROVE  /\ Head(q) \notin L7Kept => L7Frames(Tail(q)) = L7Frames(q)
         /\ Head(q) \in L7Kept => /\ L7Frames(q) # <<>> /\ Head(L7Frames(q)) = Head(q)
                                  /\ L7Frames(Tail(q)) = Tail(L7Frames(q))
<1>1. q = <<Head(q)>> \o Tail(q) /\ Head(q) \in WireFrames /\ Tail(q) \in Seq(WireFrames)
  BY HeadAndTail
<1> DEFINE h == Head(q)
           r == Tail(q)
<1>2. h \in WireFrames /\ r \in Seq(WireFrames) /\ q = <<h>> \o r
  BY <1>1
<1> HIDE DEF h, r
<1>3. L7Frames(q) = IF h \in L7Kept THEN <<h>> \o L7Frames(r) ELSE L7Frames(r)
  BY <1>2, FramesHead
<1>4. L7Frames(r) \in Seq(WireFrames)
  BY <1>2, FramesTyped
<1>5. <<h>> \o L7Frames(r) # <<>> /\ Head(<<h>> \o L7Frames(r)) = h /\ Tail(<<h>> \o L7Frames(r)) = L7Frames(r)
  BY <1>2, <1>4, InFront
<1> QED
  BY <1>3, <1>5 DEF h, r

LEMMA PrefixSelf ==
  ASSUME NEW S, NEW p \in Seq(S)
  PROVE  IsPrefix(p, p)
BY DEF IsPrefix

LEMMA PrefixConcat ==
  ASSUME NEW S, NEW p \in Seq(S), NEW q \in Seq(S)
  PROVE  IsPrefix(p, p \o q)
BY DEF IsPrefix

LEMMA PrefixAppend ==
  ASSUME NEW S, NEW p \in Seq(S), NEW e \in S
  PROVE  IsPrefix(p, Append(p, e))
BY DEF IsPrefix

\* What a CONNECT and a REQ carry, and what a round trip does on its way.
NamesItself(f) ==
  /\ f.type = CONNECT => f.body = "none"
  /\ f.type = REQ => f.body = f.sid
CarriesIts(t) ==
  t.job = "fetch" => /\ t.at \in {"lock", "write", "read"} => t.arg = t.sid
                     /\ t.at = "send" => t.arg \in {t.sid, "junk"}
Labelled == (\A i \in DOMAIN up : NamesItself(up[i])) /\ \A t \in tasks : CarriesIts(t)

LEMMA LabelledAdds ==
  ASSUME Inductive, Labelled, NEW f \in WireFrames, NamesItself(f), ClientSends(f)
  PROVE  Labelled'
<1>1. up' = Append(up, f) /\ tasks' = tasks
  BY DEF ClientSends
<1>2. up \in Seq(WireFrames)
  BY DEF Inductive, Typed, TypeOK
<1>3. DOMAIN up = 1..Len(up) /\ DOMAIN up' = 1..(Len(up) + 1)
      /\ up'[Len(up) + 1] = f /\ \A i \in 1..Len(up) : up'[i] = up[i]
  BY <1>1, <1>2, UpAdds
<1>4. Len(up) \in Nat /\ \A i \in 1..(Len(up) + 1) : i = Len(up) + 1 \/ i \in 1..Len(up)
  BY <1>2
<1> QED
  BY <1>1, <1>3, <1>4 DEF Labelled

LEMMA LabelledTakes ==
  ASSUME Inductive, Labelled, up # <<>>, up' = Tail(up), \A t \in tasks' : CarriesIts(t)
  PROVE  Labelled'
<1>1. up \in Seq(WireFrames)
  BY DEF Inductive, Typed, TypeOK
<1>2. /\ Len(up) \in Nat \ {0} /\ DOMAIN up = 1..Len(up) /\ DOMAIN up' = 1..(Len(up) - 1)
      /\ \A i \in 1..(Len(up) - 1) : up'[i] = up[i + 1]
  BY <1>1, UpTakes
<1>3. \A i \in 1..(Len(up) - 1) : i + 1 \in 1..Len(up)
  BY <1>2
<1>4. \A i \in DOMAIN up' : NamesItself(up'[i])
  BY <1>2, <1>3 DEF Labelled
<1> QED
  BY <1>4 DEF Labelled

LEMMA LabelledMoves ==
  ASSUME Inductive, Labelled, NEW t \in tasks, up' = up, NEW w, CarriesIts(w),
         tasks' \subseteq tasks \cup {w}
  PROVE  Labelled'
BY DEF Labelled

LEMMA TaskIs ==
  \A job, s, at, arg : /\ Task(job, s, at, arg).job = job /\ Task(job, s, at, arg).sid = s
                       /\ Task(job, s, at, arg).at = at /\ Task(job, s, at, arg).arg = arg
BY DEF Task

LEMMA FrameIs ==
  \A type, s, key, body : /\ Frame(type, s, key, body).type = type
                          /\ Frame(type, s, key, body).sid = s
                          /\ Frame(type, s, key, body).key = key
                          /\ Frame(type, s, key, body).body = body
BY DEF Frame

LEMMA KeyTyped == Key \in {"ws", "old", "none"}
BY DEF Key

LEMMA ClientFrames ==
  ASSUME Inductive, ClientNext
  PROVE  \/ \E f \in WireFrames : ClientSends(f) /\ NamesItself(f)
         \/ up' = up /\ UNCHANGED <<readerVars, streams, tasks, outVars, remoteVars>>
         \/ up' = <<>> /\ UNCHANGED <<readerVars, streams, tasks, outVars, remoteVars>>
<1>1. CASE ClientStarts
  <2>1. NamesItself(HelloFrame)
    BY FrameIs DEF NamesItself, HelloFrame, Hello, CONNECT, REQ
  <2> QED
    BY <1>1, <2>1, HelloTyped DEF ClientStarts, linkVars
<1>2. ASSUME NEW s \in Sids, ClientConnects(s)
      PROVE  \E f \in WireFrames : ClientSends(f) /\ NamesItself(f)
  <2> DEFINE f == Frame(CONNECT, s, Key, "none")
  <2>1. f \in WireFrames
    BY FrameTyped, KeyTyped, ConstantsTyped DEF FrameTypes
  <2>2. NamesItself(f)
    BY FrameIs DEF NamesItself, CONNECT, REQ
  <2>3. ClientSends(f)
    BY <1>2 DEF ClientConnects
  <2> QED
    BY <2>1, <2>2, <2>3
<1>3. ASSUME NEW s \in Sids, ClientTalks(s)
      PROVE  \E f \in WireFrames : ClientSends(f) /\ NamesItself(f)
  <2>1. CASE Proto[s] \in {"tcp", "udp"} /\ sent[s] <= Len(Chunks[s])
             /\ ClientSends(Frame(IF Proto[s] = "tcp" THEN DATA ELSE UDP, s, Key, Chunks[s][sent[s]]))
    <3> DEFINE type == IF Proto[s] = "tcp" THEN DATA ELSE UDP
               body == Chunks[s][sent[s]]
    <3>1. sent[s] \in Nat \ {0} /\ Chunks[s] \in Seq(Bodies)
      BY <1>3, ConstantsTyped DEF Inductive, Typed, TypeOK, ClientTalks
    <3>2. body \in Payloads
      BY <2>1, <3>1 DEF Payloads
    <3>3. type \in FrameTypes /\ type # CONNECT /\ type # REQ
      BY DEF FrameTypes, DATA, UDP, CONNECT, REQ
    <3> HIDE DEF type, body
    <3>4. Frame(type, s, Key, body) \in WireFrames /\ NamesItself(Frame(type, s, Key, body))
      BY <3>2, <3>3, FrameTyped, KeyTyped, FrameIs DEF NamesItself
    <3> QED
      BY <2>1, <3>4 DEF type, body
  <2>2. ASSUME NEW key \in {Key} \cup (IF client = "hello" THEN {"old"} ELSE {}),
               ClientSends(Frame(REQ, s, key, s))
        PROVE  \E f \in WireFrames : ClientSends(f) /\ NamesItself(f)
    <3>1. key \in {"ws", "old", "none"}
      BY <2>2, KeyTyped
    <3>2. Frame(REQ, s, key, s) \in WireFrames
      BY <3>1, FrameTyped, ConstantsTyped DEF FrameTypes
    <3>3. NamesItself(Frame(REQ, s, key, s))
      BY FrameIs DEF NamesItself, CONNECT, REQ
    <3> QED
      BY <2>2, <3>2, <3>3
  <2> QED
    BY <1>3, <2>1, <2>2 DEF ClientTalks
<1>4. ASSUME NEW s \in Sids, ClientEnds(s)
      PROVE  \E f \in WireFrames : ClientSends(f) /\ NamesItself(f)
  <2> DEFINE f == Frame(END, s, Key, "none")
  <2>1. f \in WireFrames
    BY FrameTyped, KeyTyped, ConstantsTyped DEF FrameTypes
  <2>2. NamesItself(f)
    BY FrameIs DEF NamesItself, CONNECT, REQ, END
  <2>3. ClientSends(f)
    BY <1>4 DEF ClientEnds
  <2> QED
    BY <2>1, <2>2, <2>3
<1>5. CASE LinkGoes
  BY <1>5 DEF LinkGoes
<1> QED
  BY <1>1, <1>2, <1>3, <1>4, <1>5 DEF ClientNext

LEMMA LabelledInit == Init => Labelled
BY DEF Init, Labelled

LEMMA LabelledStep ==
  ASSUME Inductive, Labelled, [Next]_vars
  PROVE  Labelled'
<1>0. up \in Seq(WireFrames)
  BY DEF Inductive, Typed, TypeOK
<1>1. CASE ClientNext
  BY <1>1, ClientFrames, LabelledAdds DEF Labelled
<1>2. CASE ReaderNext
  <2>1. CASE ReadFirst
    <3>1. up # <<>> /\ tasks' = tasks /\ (up' = Tail(up) \/ up' = up)
      BY <2>1 DEF ReadFirst
    <3>2. CASE up' = up
      BY <3>1, <3>2 DEF Labelled
    <3> QED
      BY <3>1, <3>2, LabelledTakes DEF Labelled
  <2>2. CASE ReadDrops \/ ReadConnect \/ ReadEnd
    <3>1. up # <<>> /\ tasks' = tasks /\ up' = Tail(up)
      BY <2>2 DEF ReadDrops, ReadConnect, ReadEnd, Takes, IsHead
    <3> QED
      BY <3>1, LabelledTakes DEF Labelled
  <2>3. CASE ReadWork
    <3>1. up # <<>> /\ up' = Tail(up)
      BY <2>3 DEF ReadWork, Takes, IsHead
    <3>2. NamesItself(Head(up))
      <4>1. Head(up) = up[1] /\ 1 \in DOMAIN up
        BY <1>0, <3>1, UpTakes
      <4> QED
        BY <4>1 DEF Labelled
    <3> DEFINE f == Head(up)
    <3>3. \/ tasks' = tasks
          \/ tasks' = tasks \cup {Task("write", f.sid, "lock", f.body)}
          \/ tasks' = tasks \cup {Task("datagram", f.sid, "write", f.body)}
          \/ tasks' = tasks \cup {Task("fetch", f.sid, "lock", f.body)} /\ f.type = REQ
      BY <2>3 DEF ReadWork, Spawn, Takes, IsHead
    <3> HIDE DEF f
    <3>4. /\ CarriesIts(Task("write", f.sid, "lock", f.body))
          /\ CarriesIts(Task("datagram", f.sid, "write", f.body))
          /\ f.type = REQ => CarriesIts(Task("fetch", f.sid, "lock", f.body))
      BY <3>2, TaskIs DEF CarriesIts, NamesItself, f
    <3>5. \A t \in tasks' : CarriesIts(t)
      BY <3>3, <3>4 DEF Labelled
    <3> QED
      BY <3>1, <3>5, LabelledTakes
  <2>4. CASE ReadStops \/ Drained
    BY <2>4 DEF ReadStops, Drained, linkVars, Labelled
  <2>5. CASE ReadShort
    <3>1. up # <<>> /\ tasks' = tasks /\ up' = Tail(up)
      BY <2>5 DEF ReadShort, Takes, IsHead
    <3> QED
      BY <3>1, LabelledTakes DEF Labelled
  <2> QED
    BY <1>2, <2>1, <2>2, <2>3, <2>4, <2>5 DEF ReaderNext
<1>3. CASE ConnectReturns
  <2>1. /\ up' = up
        /\ \/ tasks' = tasks
           \/ tasks' = tasks \cup {Task("pump", cur, "lock", "none")}
           \/ tasks' = tasks \cup {Task("pump", cur, "read", "none")}
    <3>1. cur \in Sids
      BY <1>3 DEF Inductive, Typed, TypeOK, ConnectReturns
    <3>2. Proto[cur] \in {"tcp", "udp", "l7"}
      BY <3>1, ConstantsTyped
    <3> QED
      BY <1>3, <3>2 DEF ConnectReturns, Spawn, linkVars
  <2>2. /\ CarriesIts(Task("pump", cur, "lock", "none"))
        /\ CarriesIts(Task("pump", cur, "read", "none"))
    BY TaskIs DEF CarriesIts
  <2> QED
    BY <2>1, <2>2 DEF Labelled
<1>4. ASSUME NEW t \in tasks, TaskNext(t) PROVE Labelled'
  <2>0. up' = up /\ CarriesIts(t)
    BY <1>4 DEF TaskNext, TakesLock, Writes, PumpReads, FetchReads, SendsData, SendsEnd, Removes,
                linkVars, Labelled
  <2>1. CASE TakesLock(t)
    <3> DEFINE w == Task(t.job, t.sid, IF t.job = "pump" THEN "read" ELSE "write", t.arg)
    <3>1. tasks' \subseteq tasks \cup {w}
      BY <2>1 DEF TakesLock, Moves
    <3>2. CarriesIts(w)
      BY <2>0, <2>1, TaskIs DEF CarriesIts, TakesLock
    <3> QED
      BY <2>0, <3>1, <3>2, LabelledMoves
  <2>2. CASE Writes(t)
    <3>1. \/ tasks' \subseteq tasks \cup {Task(t.job, t.sid, "read", t.arg)}
          \/ tasks' \subseteq tasks \cup {Task(t.job, t.sid, "end", "none")}
      BY <2>2 DEF Writes, Moves
    <3>2. /\ CarriesIts(Task(t.job, t.sid, "read", t.arg))
          /\ CarriesIts(Task(t.job, t.sid, "end", "none"))
      BY <2>0, <2>2, TaskIs DEF CarriesIts, Writes
    <3> QED
      BY <2>0, <3>1, <3>2, LabelledMoves
  <2>3. CASE PumpReads(t)
    <3>1. /\ t.job = "pump"
          /\ \E at, arg : tasks' \subseteq tasks \cup {Task(t.job, t.sid, at, arg)}
      BY <2>3 DEF PumpReads, Moves
    <3>2. \A at, arg : CarriesIts(Task(t.job, t.sid, at, arg))
      BY <3>1, TaskIs DEF CarriesIts
    <3> QED
      BY <2>0, <3>1, <3>2, LabelledMoves
  <2>4. CASE FetchReads(t)
    <3>1. \/ \E b \in {t.arg, "junk"} : tasks' \subseteq tasks \cup {Task(t.job, t.sid, "send", b)}
          \/ tasks' \subseteq tasks \cup {Task(t.job, t.sid, "end", "none")}
      BY <2>4 DEF FetchReads, Moves
    <3>2. /\ \A b \in {t.arg, "junk"} : CarriesIts(Task(t.job, t.sid, "send", b))
          /\ CarriesIts(Task(t.job, t.sid, "end", "none"))
      BY <2>0, <2>4, TaskIs DEF CarriesIts, FetchReads
    <3> QED
      BY <2>0, <3>1, <3>2, LabelledMoves
  <2>5. CASE SendsData(t)
    <3> DEFINE w == Task(t.job, t.sid, AfterSend(t), "none")
    <3>1. tasks' \subseteq tasks \cup {w}
      BY <2>5 DEF SendsData, Moves
    <3>2. CarriesIts(w)
      BY TaskIs DEF CarriesIts, AfterSend
    <3> QED
      BY <2>0, <3>1, <3>2, LabelledMoves
  <2>6. CASE SendsEnd(t)
    <3> DEFINE w == Task(t.job, t.sid, "remove", "none")
    <3>1. tasks' \subseteq tasks \cup {w}
      BY <2>6 DEF SendsEnd, Moves
    <3>2. CarriesIts(w)
      BY TaskIs DEF CarriesIts
    <3> QED
      BY <2>0, <3>1, <3>2, LabelledMoves
  <2>7. CASE Removes(t)
    BY <2>0, <2>7 DEF Removes, Labelled
  <2> QED
    BY <1>4, <2>1, <2>2, <2>3, <2>4, <2>5, <2>6, <2>7 DEF TaskNext
<1>5. CASE Egress \/ EgressEnds
  BY <1>5 DEF Egress, EgressEnds, linkVars, Labelled
<1>6. ASSUME NEW s \in Sids, RemoteSays(s) \/ RemoteCloses(s) PROVE Labelled'
  BY <1>6 DEF RemoteSays, RemoteCloses, linkVars, Labelled
<1>7. CASE UNCHANGED vars
  BY <1>7 DEF vars, linkVars, Labelled
<1> QED
  BY <1>1, <1>2, <1>3, <1>4, <1>5, <1>6, <1>7 DEF Next

LEMMA LabelledAlways == Spec => []Labelled
BY InductiveAlways, LabelledInit, LabelledStep, PTL DEF Spec

RoundTrips == {t \in tasks : t.job = "fetch"}

LEMMA KeptIs ==
  /\ \A s \in Sids : s \in L7Sids <=> Proto[s] = "l7"
  /\ L7Sids \subseteq Sids /\ \A s \in Sids : s \in Raw <=> s \notin L7Sids
  /\ \A f \in WireFrames : f \in L7Kept <=> f.type = Hello \/ f.sid \in L7Sids
BY ConstantsTyped DEF L7Sids, L7Kept

LEMMA SealedFacts ==
  ASSUME Inductive, client # "plain"
  PROVE  /\ mode \in {"start", "sealed"} /\ Key = "ws"
         /\ client = "new" => mode = "start"
         /\ tasks # {} \/ chan # <<>> \/ cur # "none" => mode = "sealed"
BY DEF Inductive, Typed, TypeOK, Ciphers, Starting, Key

LEMMA UpsAre ==
  ASSUME TypeOK
  PROVE  /\ Awaited \in Seq(WireFrames) /\ up \in Seq(WireFrames)
         /\ L7Ups = L7Frames(Awaited) \o L7Frames(up)
         /\ L7Ups \in Seq(WireFrames)
         /\ cur = "none" => L7Ups = L7Frames(up)
<1>1. up \in Seq(WireFrames) /\ cur \in Sids \cup {"none"}
  BY DEF TypeOK
<1>2. Awaited \in Seq(WireFrames)
  <2>1. CASE cur = "none"
    BY <2>1 DEF Awaited
  <2>2. CASE cur # "none"
    <3>1. Frame(CONNECT, cur, Key, "none") \in WireFrames
      BY <1>1, <2>2, FrameTyped, KeyTyped, ConstantsTyped DEF FrameTypes
    <3> QED
      BY <2>2, <3>1 DEF Awaited
  <2> QED
    BY <2>1, <2>2
<1>3. L7Ups = L7Frames(Awaited) \o L7Frames(up)
  BY <1>1, <1>2, FramesConcat DEF L7Ups
<1>4. Awaited \o up \in Seq(WireFrames)
  BY <1>1, <1>2
<1>5. L7Ups \in Seq(WireFrames)
  BY <1>4, FramesTyped DEF L7Ups
<1>6. cur = "none" => Awaited \o up = up
  BY <1>1 DEF Awaited
<1> QED
  BY <1>1, <1>2, <1>3, <1>5, <1>6 DEF L7Ups

LEMMA SameTrips ==
  ASSUME RoundTrips' = RoundTrips
  PROVE  /\ \A s, ats : Fetches(s, ats)' = Fetches(s, ats)
         /\ MapTrips' = MapTrips
<1>1. /\ \A s, ats : Fetches(s, ats) = {t \in RoundTrips : t.sid = s /\ t.at \in ats}
      /\ MapTrips = {MapTrip(t) : t \in {u \in RoundTrips : u.at # "remove"}}
  BY DEF Fetches, MapTrips, RoundTrips
<1>2. /\ \A s, ats : Fetches(s, ats)' = {t \in RoundTrips' : t.sid = s /\ t.at \in ats}
      /\ MapTrips' = {MapTrip(t) : t \in {u \in RoundTrips' : u.at # "remove"}}
  BY DEF Fetches, MapTrips, RoundTrips, MapTrip
<1> QED
  BY <1>1, <1>2

LEMMA SameStreams ==
  ASSUME streams' \cap L7Sids = streams \cap L7Sids,
         \A s \in L7Sids : Fetches(s, {"remove"})' = Fetches(s, {"remove"})
  PROVE  MapStreams' = MapStreams
BY DEF MapStreams

LEMMA SameRuns ==
  ASSUME \A s \in L7Sids : /\ heard'[s] = heard[s]
                           /\ Fetches(s, {"read", "send"})' = Fetches(s, {"read", "send"})
  PROVE  L7Runs' = L7Runs
BY DEF L7Runs

\* A step that has nothing to do with a fetch.
LEMMA Unseen ==
  ASSUME Inductive, mode' = mode, RoundTrips' = RoundTrips,
         streams' \cap L7Sids = streams \cap L7Sids,
         \A s \in L7Sids : heard'[s] = heard[s],
         L7Ups' = L7Ups \/ IsPrefix(L7Ups, L7Ups') \/ IsPrefix(L7Ups', L7Ups),
         egress' = "running" => L7Frames(Out)' = L7Frames(Out)
  PROVE  L7Wire
<1>1. L7Ups \in Seq(WireFrames)
  BY UpsAre DEF Inductive, Typed
<1>2. L7Ups' = L7Ups => IsPrefix(L7Ups, L7Ups')
  BY <1>1, PrefixSelf
<1>3. MapTrips' = MapTrips /\ MapStreams' = MapStreams /\ L7Runs' = L7Runs
  BY SameTrips, SameStreams, SameRuns
<1> QED
  BY <1>2, <1>3, WireMaps

\* The client adds a frame, or loses those under way.
LEMMA ClientMaps ==
  ASSUME Inductive, Inductive', ClientNext
  PROVE  L7Wire
<1>1. Awaited' = Awaited
  <2>1. cur' = cur /\ (client' = client \/ client = "new")
    BY DEF ClientNext, ClientStarts, ClientConnects, ClientTalks, ClientEnds, LinkGoes,
           ClientSends, readerVars, clientVars
  <2>2. client = "new" => cur = "none"
    BY DEF Inductive, Ciphers, Starting
  <2> QED
    BY <2>1, <2>2 DEF Awaited, Key
<1>2. UNCHANGED <<mode, streams, tasks, heard, wire, chan, egress>>
  BY DEF ClientNext, ClientStarts, ClientConnects, ClientTalks, ClientEnds, LinkGoes,
         ClientSends, readerVars, outVars, remoteVars
<1>3. /\ Awaited \in Seq(WireFrames) /\ up \in Seq(WireFrames)
      /\ L7Ups = L7Frames(Awaited) \o L7Frames(up) /\ L7Ups \in Seq(WireFrames)
  BY UpsAre DEF Inductive, Typed
<1>4. L7Ups' = L7Frames(Awaited \o up')
  BY <1>1 DEF L7Ups
<1>5. L7Ups' = L7Ups \/ IsPrefix(L7Ups, L7Ups') \/ IsPrefix(L7Ups', L7Ups)
  <2>1. ASSUME NEW f \in WireFrames, up' = Append(up, f)
        PROVE  L7Ups' = L7Ups \/ IsPrefix(L7Ups, L7Ups')
    <3>1. up' \in Seq(WireFrames)
      BY <1>3, <2>1
    <3>2. L7Ups' = L7Frames(Awaited) \o L7Frames(up')
      BY <1>3, <1>4, <3>1, FramesConcat
    <3>3. L7Frames(up') = IF f \in L7Kept THEN Append(L7Frames(up), f) ELSE L7Frames(up)
      BY <1>3, <2>1, FramesAppend
    <3>4. CASE f \notin L7Kept
      BY <1>3, <3>2, <3>3, <3>4
    <3>5. CASE f \in L7Kept
      <4> DEFINE a == L7Frames(Awaited)
                 b == L7Frames(up)
      <4>1. a \in Seq(WireFrames) /\ b \in Seq(WireFrames)
        BY <1>3, FramesTyped
      <4>2. L7Ups = a \o b /\ L7Ups' = a \o Append(b, f)
        BY <1>3, <3>2, <3>3, <3>5
      <4> HIDE DEF a, b
      <4>3. IsPrefix(a \o b, a \o Append(b, f))
        BY <2>1, <4>1 DEF IsPrefix
      <4> QED
        BY <4>2, <4>3
    <3> QED
      BY <3>4, <3>5
  <2>2. CASE up' = up
    BY <1>4, <2>2 DEF L7Ups
  <2>3. CASE up' = <<>>
    <3>1. L7Ups' = L7Frames(Awaited)
      <4>1. Awaited \o <<>> = Awaited
        BY <1>3
      <4> QED
        BY <1>4, <2>3, <4>1
    <3>2. L7Frames(Awaited) \in Seq(WireFrames) /\ L7Frames(up) \in Seq(WireFrames)
      BY <1>3, FramesTyped
    <3> QED
      BY <1>3, <3>1, <3>2, PrefixConcat
  <2> QED
    BY <2>1, <2>2, <2>3, ClientFrames DEF ClientSends
<1>6. RoundTrips' = RoundTrips /\ L7Frames(Out)' = L7Frames(Out)
  BY <1>2 DEF RoundTrips, Out
<1> QED
  BY <1>2, <1>5, <1>6, Unseen

\* What the reader finds at the head of its queue.
LEMMA HeadFacts ==
  ASSUME Inductive, Labelled, reader = "reading", up # <<>>
  PROVE  /\ Head(up) \in WireFrames /\ NamesItself(Head(up)) /\ Fits(Head(up))
         /\ cur = "none" /\ L7Ups = L7Frames(up)
         /\ Head(up) \notin L7Kept => L7Frames(Tail(up)) = L7Ups
         /\ Head(up) \in L7Kept => /\ L7Ups # <<>> /\ Head(L7Ups) = Head(up)
                                   /\ L7Frames(Tail(up)) = Tail(L7Ups)
<1>1. up \in Seq(WireFrames) /\ cur = "none"
  BY DEF Inductive, Typed, TypeOK
<1>2. Head(up) = up[1] /\ 1 \in DOMAIN up /\ Head(up) \in WireFrames
  BY <1>1, UpTakes
<1>3. NamesItself(Head(up)) /\ Fits(Head(up))
  BY <1>2 DEF Inductive, UpFrames, Labelled
<1>4. L7Ups = L7Frames(up)
  BY <1>1, UpsAre DEF Inductive, Typed
<1> QED
  BY <1>1, <1>2, <1>3, <1>4, FramesBehind

LEMMA UpsNext ==
  ASSUME TypeOK', cur' = "none"
  PROVE  L7Ups' = L7Frames(up')
<1>1. up' \in Seq(WireFrames)
  BY DEF TypeOK
<1>2. <<>> \o up' = up'
  BY <1>1
<1> QED
  BY <1>2 DEF L7Ups, Awaited

LEMMA ReadFirstMaps ==
  ASSUME Inductive, Labelled, Inductive', client # "plain", ReadFirst
  PROVE  L7!NodeNext
<1>1. /\ reader = "reading" /\ mode = "start" /\ up # <<>> /\ cur' = cur
      /\ UNCHANGED <<streams, tasks, chan, egress, heard, missed>>
  BY DEF ReadFirst, remoteVars
<1>2. tasks = {} /\ chan = <<>> /\ cur = "none"
  BY <1>1 DEF Inductive, Starting
<1>3. IsHead(up, Hello) /\ Head(up) \in L7Kept
  <2>1. client = "hello"
    BY <1>1 DEF Inductive, Typed, TypeOK, Ciphers
  <2>2. up \in Seq(WireFrames)
    BY DEF Inductive, Typed, TypeOK
  <2>3. Head(up) = up[1] /\ 1 \in DOMAIN up /\ Head(up) \in WireFrames
    BY <1>1, <2>2, UpTakes
  <2>4. Head(up).type = Hello
    BY <1>1, <2>1, <2>3 DEF Inductive, Ciphers
  <2> QED
    BY <1>1, <2>3, <2>4, KeptIs DEF IsHead
<1>4. mode' = "sealed" /\ up' = Tail(up) /\ wire' = Append(wire, HelloFrame)
  BY <1>3 DEF ReadFirst
<1>5. L7Ups # <<>> /\ Head(L7Ups) = Head(up) /\ L7Frames(Tail(up)) = Tail(L7Ups)
  BY <1>1, <1>3, HeadFacts
<1>6. L7Ups' = Tail(L7Ups)
  BY <1>1, <1>2, <1>4, <1>5, UpsNext DEF Inductive, Typed
<1>7. MapDown' = IF Sock = "open" THEN Append(MapDown, HelloFrame) ELSE MapDown
  <2>1. wire \in Seq(WireFrames) /\ Append(wire, HelloFrame) \in Seq(WireFrames)
    BY HelloTyped DEF Inductive, Typed, TypeOK
  <2>2. Out = wire /\ Out' = Append(wire, HelloFrame)
    BY <1>1, <1>2, <1>4, <2>1 DEF Out
  <2>3. HelloFrame \in L7Kept
    BY HelloTyped, KeptIs, FrameIs DEF HelloFrame
  <2>4. L7Frames(Append(wire, HelloFrame)) = Append(L7Frames(wire), HelloFrame)
    BY <2>1, <2>3, HelloTyped, FramesAppend
  <2> QED
    BY <1>1, <2>2, <2>4 DEF MapDown, Sock
<1>8. Sock' = Sock /\ MapStreams' = MapStreams /\ MapTrips' = MapTrips /\ L7Runs' = L7Runs
  BY <1>1, SameTrips, SameStreams, SameRuns DEF Sock, RoundTrips
<1> QED
  BY <1>1, <1>3, <1>4, <1>5, <1>6, <1>7, <1>8, HelloMaps DEF IsHead

LEMMA ReadDropsMaps ==
  ASSUME Inductive, Labelled, Inductive', ReadDrops
  PROVE  L7!NodeNext \/ L7Wire
<1>1. /\ reader = "reading" /\ mode = "sealed" /\ up # <<>> /\ ~ Opens("ws", Head(up))
      /\ up' = Tail(up) /\ cur' = cur /\ mode' = mode
      /\ UNCHANGED <<streams, tasks, wire, chan, egress, heard, missed>>
  BY DEF ReadDrops, readerVars, outVars, remoteVars
<1>2. cur = "none" /\ L7Ups' = L7Frames(Tail(up))
  BY <1>1, HeadFacts, UpsNext DEF Inductive, Typed
<1>3. /\ RoundTrips' = RoundTrips /\ Sock' = Sock /\ MapDown' = MapDown
      /\ L7Frames(Out)' = L7Frames(Out)
  BY <1>1 DEF RoundTrips, Sock, MapDown, Out
<1>4. CASE Head(up) \in L7Kept
  <2>1. L7Ups # <<>> /\ Head(L7Ups) = Head(up) /\ L7Ups' = Tail(L7Ups)
    BY <1>1, <1>2, <1>4, HeadFacts
  <2>2. MapStreams' = MapStreams /\ MapTrips' = MapTrips /\ L7Runs' = L7Runs
    BY <1>1, <1>3, SameTrips, SameStreams, SameRuns
  <2> QED
    BY <1>1, <1>3, <2>1, <2>2, DropMaps
<1>5. CASE Head(up) \notin L7Kept
  <2>1. L7Ups' = L7Ups
    BY <1>1, <1>2, <1>5, HeadFacts
  <2> QED
    BY <1>1, <1>3, <2>1, Unseen
<1> QED
  BY <1>4, <1>5

\* The CONNECT the reader awaits is the frame it took.
LEMMA ReadConnectMaps ==
  ASSUME Inductive, Labelled, Inductive', client # "plain", ReadConnect
  PROVE  L7Wire
<1>1. /\ reader = "reading" /\ up # <<>> /\ up' = Tail(up) /\ mode' = mode /\ client' = client
      /\ cur' = Head(up).sid /\ Head(up).type = CONNECT /\ mode # "start"
      /\ mode = "plain" \/ Opens("ws", Head(up))
      /\ UNCHANGED <<streams, tasks, wire, chan, egress, heard, missed>>
  BY DEF ReadConnect, Takes, IsHead, outVars, remoteVars, clientVars
<1>2. /\ Head(up) \in WireFrames /\ NamesItself(Head(up)) /\ Fits(Head(up)) /\ cur = "none"
      /\ L7Ups = L7Frames(up)
  BY <1>1, HeadFacts
<1>3. Head(up) = Frame(CONNECT, Head(up).sid, "ws", "none")
  <2>1. Head(up).key = "ws" /\ Head(up).body = "none"
    BY <1>1, <1>2, SealedFacts DEF Opens, NamesItself
  <2> QED
    BY <1>1, <1>2, <2>1 DEF WireFrames, Frame
<1>4. Key' = "ws"
  BY <1>1, SealedFacts DEF Key
<1>5. cur' \in Sids /\ cur' # "none"
  BY <1>1, <1>2, ConstantsTyped DEF Fits, CONNECT, Hello
<1>6. Awaited' = <<Head(up)>>
  BY <1>1, <1>3, <1>4, <1>5 DEF Awaited
<1>7. up \in Seq(WireFrames)
  BY DEF Inductive, Typed, TypeOK
<1>8. L7Ups' = L7Ups
  BY <1>1, <1>2, <1>6, <1>7, HeadAndTail DEF L7Ups
<1>9. RoundTrips' = RoundTrips /\ L7Frames(Out)' = L7Frames(Out)
  BY <1>1 DEF RoundTrips, Out
<1> QED
  BY <1>1, <1>8, <1>9, Unseen

\* The open returned: for a fetch, that is the node's CONNECT.
LEMMA ConnectReturnsMaps ==
  ASSUME Inductive, Labelled, Inductive', client # "plain", ConnectReturns
  PROVE  L7!NodeNext \/ L7Wire
<1>1. /\ reader = "opening" /\ cur' = "none" /\ up' = up /\ mode' = mode
      /\ UNCHANGED <<wire, chan, egress, heard, missed>>
  BY DEF ConnectReturns, linkVars, outVars
<1>2. cur \in Sids /\ cur # "none" /\ up \in Seq(WireFrames)
  BY <1>1, ConstantsTyped DEF Inductive, Typed, TypeOK
<1> DEFINE f == Frame(CONNECT, cur, "ws", "none")
<1>3. f \in WireFrames /\ f.sid = cur /\ f.type = CONNECT /\ Opens("ws", f)
  BY <1>2, FrameTyped, FrameIs, ConstantsTyped DEF FrameTypes, Opens
<1>4. L7Ups = L7Frames(<<f>> \o up)
  BY <1>2, SealedFacts DEF L7Ups, Awaited
<1> HIDE DEF f
<1>5. L7Ups' = L7Frames(up)
  BY <1>1, UpsNext DEF Inductive, Typed
<1>6. L7Ups = IF f \in L7Kept THEN <<f>> \o L7Frames(up) ELSE L7Frames(up)
  BY <1>2, <1>3, <1>4, FramesHead
<1>7. f \in L7Kept <=> Proto[cur] = "l7"
  BY <1>2, <1>3, KeptIs DEF CONNECT, Hello
<1>8. RoundTrips' = RoundTrips
  <2>1. \/ tasks' = tasks
        \/ tasks' = tasks \cup {Task("pump", cur, "lock", "none")}
        \/ tasks' = tasks \cup {Task("pump", cur, "read", "none")}
    BY <1>2, ConstantsTyped DEF ConnectReturns, Spawn
  <2> QED
    BY <2>1, TaskIs DEF RoundTrips
<1>9. streams' = streams \/ streams' = streams \cup {cur}
  BY DEF ConnectReturns
<1>10. Sock' = Sock /\ MapDown' = MapDown /\ L7Frames(Out)' = L7Frames(Out)
  BY <1>1 DEF Sock, MapDown, Out
<1>11. CASE Proto[cur] # "l7"
  <2>1. L7Ups' = L7Ups
    BY <1>5, <1>6, <1>7, <1>11
  <2>2. streams' \cap L7Sids = streams \cap L7Sids
    BY <1>2, <1>9, <1>11, KeptIs
  <2> QED
    BY <1>1, <1>8, <1>10, <2>1, <2>2, Unseen
<1>12. CASE Proto[cur] = "l7"
  <2>1. L7Frames(up) \in Seq(WireFrames)
    BY <1>2, FramesTyped
  <2>2. L7Ups # <<>> /\ Head(L7Ups) = f /\ L7Ups' = Tail(L7Ups)
    BY <1>3, <1>5, <1>6, <1>7, <1>12, <2>1, InFront
  <2>3. MapTrips' = MapTrips /\ L7Runs' = L7Runs /\ \A s, ats : Fetches(s, ats)' = Fetches(s, ats)
    BY <1>1, <1>8, SameTrips, SameRuns
  <2>4. Fetches(cur, {"remove"}) = {}
    <3>1. remote[cur] = "none"
      BY <1>2 DEF Inductive, Unopened
    <3>2. ~ Tasked(cur)
      BY <1>2, <3>1 DEF Inductive, Fresh
    <3> QED
      BY <3>2 DEF Tasked, Fetches
  <2>5. cur \in L7Sids
    BY <1>2, <1>12, KeptIs
  <2>6. MapStreams' = {s \in streams' \cap L7Sids : Fetches(s, {"remove"}) = {}}
    BY <2>3 DEF MapStreams
  <2>7. MapStreams' = MapStreams \/ MapStreams' = MapStreams \cup {cur}
    BY <1>9, <2>4, <2>5, <2>6 DEF MapStreams
  <2>8. mode = "sealed"
    BY <1>2, SealedFacts
  <2> QED
    BY <1>1, <1>3, <1>10, <2>2, <2>3, <2>7, <2>8, ConnectMaps DEF IsHead
<1> QED
  BY <1>11, <1>12

\* A frame of a raw stream is taken from the queue.
LEMMA RawTaken ==
  ASSUME Inductive, Labelled, Inductive', reader = "reading", up # <<>>, up' = Tail(up),
         cur' = cur, mode' = mode, Head(up) \notin L7Kept,
         RoundTrips' = RoundTrips, streams' \cap L7Sids = streams \cap L7Sids,
         UNCHANGED <<wire, chan, egress, heard>>
  PROVE  L7Wire
<1>1. cur = "none" /\ L7Frames(Tail(up)) = L7Ups
  BY HeadFacts
<1>2. L7Ups' = L7Ups
  BY <1>1, UpsNext DEF Inductive, Typed
<1>3. L7Frames(Out)' = L7Frames(Out)
  BY DEF Out
<1> QED
  BY <1>2, <1>3, Unseen

LEMMA ReadWorkMaps ==
  ASSUME Inductive, Labelled, Inductive', client # "plain", ReadWork
  PROVE  L7!NodeNext \/ L7Wire
<1>1. /\ reader = "reading" /\ up # <<>> /\ up' = Tail(up) /\ mode' = mode /\ cur' = cur
      /\ mode # "start" /\ (mode = "plain" \/ Opens("ws", Head(up)))
      /\ UNCHANGED <<streams, wire, chan, egress, heard, missed>>
  BY DEF ReadWork, Takes, IsHead, outVars, remoteVars
<1> DEFINE f == Head(up)
<1>2. /\ f \in WireFrames /\ NamesItself(f) /\ Fits(f) /\ cur = "none"
      /\ f \in L7Kept => L7Ups # <<>> /\ Head(L7Ups) = f /\ L7Frames(Tail(up)) = Tail(L7Ups)
  BY <1>1, HeadFacts
<1>3. \/ /\ f.type \in {DATA, UDP}
         /\ \/ tasks' = tasks
            \/ tasks' = tasks \cup {Task("write", f.sid, "lock", f.body)}
            \/ tasks' = tasks \cup {Task("datagram", f.sid, "write", f.body)}
      \/ /\ f.type = REQ
         /\ tasks' = IF f.sid \in streams /\ Proto[f.sid] \in {"tcp", "l7"}
                     THEN tasks \cup {Task("fetch", f.sid, "lock", f.body)} ELSE tasks
  BY DEF ReadWork, Spawn, Takes, IsHead
<1> HIDE DEF f
<1>4. CASE f.type \in {DATA, UDP}
  <2>1. f.sid \in Sids /\ Proto[f.sid] # "l7" /\ f.type # Hello /\ f.type # REQ
    BY <1>2, <1>4 DEF Fits, DATA, UDP, Hello, REQ
  <2>2. f \notin L7Kept
    BY <1>2, <2>1, KeptIs
  <2>3. RoundTrips' = RoundTrips
    BY <1>3, <2>1, TaskIs DEF RoundTrips
  <2> QED
    BY <1>1, <2>2, <2>3, RawTaken DEF f
<1>5. CASE f.type = REQ
  <2> DEFINE s == f.sid
             w == Task("fetch", s, "lock", f.body)
  <2>1. s \in Sids /\ Proto[s] = "l7" /\ f.body = s /\ s \in L7Sids /\ f \in L7Kept
    BY <1>2, <1>5, KeptIs DEF Fits, REQ, Hello, NamesItself
  <2>2. tasks' = IF s \in streams THEN tasks \cup {w} ELSE tasks
    BY <1>3, <1>5, <2>1 DEF DATA, UDP, REQ
  <2>3. ~ Tasked(s)
    <3>1. up \in Seq(WireFrames)
      BY DEF Inductive, Typed, TypeOK
    <3>2. f = up[1] /\ 1 \in DOMAIN up
      BY <1>1, <3>1, UpTakes DEF f
    <3>3. Asking(s)
      BY <1>5, <3>2 DEF Asking
    <3> QED
      BY <2>1, <3>3 DEF Inductive, Unasked
  <2>4. s \in MapStreams <=> s \in streams
    BY <2>1, <2>3 DEF MapStreams, Fetches, Tasked
  <2>5. w.job = "fetch" /\ w.at = "lock" /\ w.sid = s
    BY TaskIs
  <2> HIDE DEF s, w
  <2>6. \A x, ats : ats \in {{"remove"}, {"read", "send"}} => Fetches(x, ats)' = Fetches(x, ats)
    BY <2>2, <2>5 DEF Fetches
  <2>7. MapStreams' = MapStreams /\ L7Runs' = L7Runs
    BY <1>1, <2>6, SameStreams, SameRuns
  <2>8. MapTrip(w) = [sid |-> s, req |-> s, read |-> FALSE]
    BY <2>5 DEF MapTrip
  <2>9. MapTrips' = IF s \in streams THEN MapTrips \cup {MapTrip(w)} ELSE MapTrips
    BY <2>2, <2>5 DEF MapTrips, MapTrip
  <2>10. MapTrips' = IF f.sid \in MapStreams
                     THEN MapTrips \cup {[sid |-> f.sid, req |-> f.body, read |-> FALSE]}
                     ELSE MapTrips
    BY <2>1, <2>4, <2>8, <2>9 DEF s
  <2>11. L7Ups # <<>> /\ Head(L7Ups) = f /\ L7Ups' = Tail(L7Ups)
    BY <1>1, <1>2, <2>1, UpsNext DEF Inductive, Typed
  <2>12. mode = "sealed" /\ Opens("ws", f)
    BY <1>1, SealedFacts DEF f
  <2>13. Sock' = Sock /\ MapDown' = MapDown
    BY <1>1 DEF Sock, MapDown, Out
  <2> QED
    BY <1>1, <1>5, <2>7, <2>10, <2>11, <2>12, <2>13, ReqMaps DEF IsHead
<1> QED
  BY <1>3, <1>4, <1>5

LEMMA ReadShortMaps ==
  ASSUME Inductive, Labelled, Inductive', ReadShort
  PROVE  L7Wire
<1>1. /\ reader = "reading" /\ up # <<>> /\ up' = Tail(up) /\ mode' = mode /\ cur' = cur
      /\ Head(up).type = UDP
      /\ UNCHANGED <<streams, tasks, wire, chan, egress, heard>>
  BY DEF ReadShort, Takes, IsHead, outVars
<1>2. Head(up) \in WireFrames /\ Head(up).sid \in Sids /\ Proto[Head(up).sid] # "l7"
      /\ Head(up).type # Hello
  BY <1>1, HeadFacts DEF Fits, UDP, Hello
<1>3. Head(up) \notin L7Kept
  BY <1>2, KeptIs
<1>4. RoundTrips' = RoundTrips
  BY <1>1 DEF RoundTrips
<1> QED
  BY <1>1, <1>3, <1>4, RawTaken

LEMMA ReadEndMaps ==
  ASSUME Inductive, Labelled, Inductive', ReadEnd
  PROVE  L7Wire
<1>1. /\ reader = "reading" /\ up # <<>> /\ up' = Tail(up) /\ mode' = mode /\ cur' = cur
      /\ Head(up).type = END /\ streams' = streams \ {Head(up).sid}
      /\ UNCHANGED <<tasks, wire, chan, egress, heard, missed>>
  BY DEF ReadEnd, Takes, IsHead, outVars, remoteVars
<1>2. Head(up) \in WireFrames /\ Head(up).sid \in Raw /\ Head(up).sid \in Sids /\ Head(up).type # Hello
  BY <1>1, HeadFacts, ConstantsTyped DEF Fits, END, Hello
<1>3. Head(up) \notin L7Kept /\ streams' \cap L7Sids = streams \cap L7Sids
  BY <1>1, <1>2, KeptIs
<1>4. RoundTrips' = RoundTrips
  BY <1>1 DEF RoundTrips
<1> QED
  BY <1>1, <1>3, <1>4, RawTaken

LEMMA ReaderStopsMaps ==
  ASSUME Inductive, ReadStops \/ Drained
  PROVE  L7Wire
<1>1. UNCHANGED <<client, up, mode, cur, streams, tasks, wire, chan, egress, heard, missed>>
  BY DEF ReadStops, Drained, clientVars, linkVars, outVars, remoteVars
<1>2. /\ RoundTrips' = RoundTrips /\ L7Frames(Out)' = L7Frames(Out) /\ L7Ups' = L7Ups
  BY <1>1 DEF RoundTrips, Out, L7Ups, Awaited, Key
<1> QED
  BY <1>1, <1>2, Unseen

LEMMA RemoteMaps ==
  ASSUME Inductive, NEW s \in Sids, RemoteSays(s) \/ RemoteCloses(s)
  PROVE  L7Wire
<1>1. UNCHANGED <<client, up, mode, cur, streams, tasks, wire, chan, egress, heard, missed>>
  BY DEF RemoteSays, RemoteCloses, clientVars, linkVars, readerVars, outVars
<1>2. /\ RoundTrips' = RoundTrips /\ L7Frames(Out)' = L7Frames(Out) /\ L7Ups' = L7Ups
  BY <1>1 DEF RoundTrips, Out, L7Ups, Awaited, Key
<1> QED
  BY <1>1, <1>2, Unseen

\* What leaves the channel was the client's to come already.
LEMMA EgressMaps ==
  ASSUME Inductive, Egress \/ EgressEnds
  PROVE  L7Wire
<1>1. UNCHANGED <<client, up, mode, cur, streams, tasks, heard, missed>>
  BY DEF Egress, EgressEnds, clientVars, linkVars, readerVars, remoteVars
<1>2. RoundTrips' = RoundTrips /\ L7Ups' = L7Ups
  BY <1>1 DEF RoundTrips, L7Ups, Awaited, Key
<1>3. egress' = "running" => Out' = Out
  <2>1. ASSUME egress' = "running" PROVE Out' = Out
    <3>1. chan # <<>> /\ wire' = Append(wire, Head(chan)) /\ chan' = Tail(chan)
      BY <2>1 DEF Egress, EgressEnds
    <3>2. wire \in Seq(WireFrames) /\ chan \in Seq(WireFrames)
      BY DEF Inductive, Typed, TypeOK
    <3>3. Append(wire, Head(chan)) \o Tail(chan) = wire \o chan
      BY <3>1, <3>2
    <3> QED
      BY <3>1, <3>3 DEF Out
  <2> QED
    BY <2>1
<1>4. egress' = "running" => L7Frames(Out)' = L7Frames(Out)
  BY <1>3
<1> QED
  BY <1>1, <1>2, <1>4, Unseen

LEMMA LastOfTwo ==
  ASSUME NEW S, NEW v \in Seq(S), NEW c \in Seq(S), NEW e \in S
  PROVE  v \o Append(c, e) = Append(v \o c, e)
OBVIOUS

\* A task sends a frame; of a raw stream it does not count.
LEMMA SentMaps ==
  ASSUME Inductive, client # "plain", tasks # {}, NEW type \in FrameTypes \ {Hello}, NEW s \in Sids,
         NEW body \in Payloads, Sends(type, s, body), UNCHANGED <<wire, egress>>
  PROVE  /\ s \notin L7Sids => L7Frames(Out)' = L7Frames(Out)
         /\ s \in L7Sids =>
              MapDown' = IF Sock = "open" THEN Append(MapDown, Frame(type, s, "ws", body)) ELSE MapDown
<1> DEFINE f == Frame(type, s, "ws", body)
<1>1. mode = "sealed"
  BY SealedFacts
<1>2. f \in WireFrames /\ (f \in L7Kept <=> s \in L7Sids)
  BY FrameTyped, FrameIs, KeptIs
<1>3. IF egress = "running" THEN chan' = Append(chan, f) ELSE chan' = chan
  BY <1>1 DEF Sends
<1> HIDE DEF f
<1>4. CASE egress = "running"
  <2>1. wire \in Seq(WireFrames) /\ chan \in Seq(WireFrames) /\ Out \in Seq(WireFrames)
    BY OutIs DEF Inductive, Typed, TypeOK
  <2>2. Out' = Append(Out, f)
    <3>1. wire' = wire /\ chan' = Append(chan, f)
      BY <1>3, <1>4
    <3>2. wire \o Append(chan, f) = Append(wire \o chan, f)
      BY <1>2, <2>1, LastOfTwo
    <3> QED
      BY <3>1, <3>2, Zenon DEF Out
  <2>3. L7Frames(Append(Out, f)) = IF f \in L7Kept THEN Append(L7Frames(Out), f) ELSE L7Frames(Out)
    BY <1>2, <2>1, FramesAppend
  <2> QED
    BY <1>2, <1>4, <2>2, <2>3 DEF MapDown, Sock, f
<1>5. CASE egress # "running"
  <2>1. Out' = Out
    BY <1>3, <1>5 DEF Out
  <2> QED
    BY <1>5, <2>1 DEF MapDown, Sock
<1> QED
  BY <1>4, <1>5

LEMMA RawTaskMaps ==
  ASSUME Inductive, client # "plain", NEW t \in tasks, t.job # "fetch", TaskNext(t)
  PROVE  L7Wire
<1>1. t.sid \in Raw /\ t.sid \in Sids /\ t.sid \notin L7Sids /\ t \in Tasks
  BY TaskFacts, KeptIs
<1>2. UNCHANGED <<client, up, mode, cur, wire, egress>>
  BY DEF TaskNext, TakesLock, Writes, PumpReads, FetchReads, SendsData, SendsEnd, Removes,
         clientVars, linkVars, readerVars, outVars
<1>3. L7Ups' = L7Ups
  BY <1>2 DEF L7Ups, Awaited, Key
<1>4. tasks' = tasks \ {t} \/ \E at, arg : tasks' = (tasks \ {t}) \cup {Task(t.job, t.sid, at, arg)}
  BY DEF TaskNext, TakesLock, Writes, PumpReads, FetchReads, SendsData, SendsEnd, Removes, Moves
<1>5. RoundTrips' = RoundTrips
  BY <1>4, TaskIs DEF RoundTrips
<1>6. streams' = streams \/ streams' = streams \ {t.sid}
  BY DEF TaskNext, TakesLock, Writes, PumpReads, FetchReads, SendsData, SendsEnd, Removes
<1>7. streams' \cap L7Sids = streams \cap L7Sids
  BY <1>1, <1>6
<1>8. heard' = heard \/ \E a : heard' = [heard EXCEPT ![t.sid] = a]
  BY DEF TaskNext, TakesLock, Writes, PumpReads, FetchReads, SendsData, SendsEnd, Removes,
         remoteVars
<1>9. \A s \in L7Sids : heard'[s] = heard[s]
  <2>1. heard \in [Sids -> Seq(Payloads)]
    BY DEF Inductive, Typed, TypeOK
  <2> QED
    BY <1>1, <1>8, <2>1, KeptIs
<1>10. L7Frames(Out)' = L7Frames(Out)
  <2>1. CASE SendsData(t)
    <3>1. DataType(t) \in FrameTypes \ {Hello} /\ t.arg \in Payloads
      BY <1>1 DEF DataType, FrameTypes, RES, UDP, DATA, Hello, Tasks
    <3> QED
      BY <1>1, <1>2, <2>1, <3>1, SentMaps DEF SendsData
  <2>2. CASE SendsEnd(t)
    <3>1. END \in FrameTypes \ {Hello} /\ "none" \in Payloads
      BY DEF END, FrameTypes, Hello, Payloads
    <3> QED
      BY <1>1, <1>2, <2>2, <3>1, SentMaps DEF SendsEnd
  <2>3. CASE ~ SendsData(t) /\ ~ SendsEnd(t)
    <3>1. chan' = chan
      BY <2>3 DEF TaskNext, TakesLock, Writes, PumpReads, FetchReads, Removes, outVars
    <3> QED
      BY <1>2, <3>1 DEF Out
  <2> QED
    BY <2>1, <2>2, <2>3
<1> QED
  BY <1>2, <1>3, <1>5, <1>7, <1>9, <1>10, Unseen

-----------------------------------------------------------------------------
\* There is one round trip of a stream: where it stands tells what L7Node sees.
LEMMA FetchMoves ==
  ASSUME Inductive, NEW t \in tasks, t.job = "fetch", NEW w, w.job = "fetch", w.sid = t.sid,
         tasks' = (tasks \ {t}) \cup {w} \/ (w.at = "remove" /\ tasks' = tasks \ {t})
  PROVE  /\ \A ats : Fetches(t.sid, ats) = IF t.at \in ats THEN {t} ELSE {}
         /\ tasks' # tasks \ {t} => \A ats : Fetches(t.sid, ats)' = IF w.at \in ats THEN {w} ELSE {}
         /\ tasks' = tasks \ {t} => \A ats : Fetches(t.sid, ats)' = {}
         /\ \A s, ats : s # t.sid => Fetches(s, ats)' = Fetches(s, ats)
         /\ t.at # "remove" => MapTrip(t) \in MapTrips
         /\ MapTrips' = (MapTrips \ {MapTrip(t)})
                          \cup (IF w.at # "remove" THEN {MapTrip(w)} ELSE {})
<1>1. \A u \in tasks : u.job = "fetch" /\ u.sid = t.sid => u = t
  BY DEF Inductive, OneEach
<1>2. \A ats : Fetches(t.sid, ats) = IF t.at \in ats THEN {t} ELSE {}
  BY <1>1 DEF Fetches
<1>3. tasks' # tasks \ {t} => \A ats : Fetches(t.sid, ats)' = IF w.at \in ats THEN {w} ELSE {}
  BY <1>1 DEF Fetches
<1>4. tasks' = tasks \ {t} => \A ats : Fetches(t.sid, ats)' = {}
  BY <1>1 DEF Fetches
<1>5. \A s, ats : s # t.sid => Fetches(s, ats)' = Fetches(s, ats)
  BY DEF Fetches
<1>6. t.at # "remove" => MapTrip(t) \in MapTrips
  BY DEF MapTrips
<1>7. MapTrips' = (MapTrips \ {MapTrip(t)}) \cup (IF w.at # "remove" THEN {MapTrip(w)} ELSE {})
  <2> DEFINE others == {u \in tasks : u.job = "fetch" /\ u.at # "remove" /\ u # t}
             trips == {MapTrip(u) : u \in others}
  <2>1. \A u : MapTrip(u)' = MapTrip(u) /\ MapTrip(u).sid = u.sid
    BY DEF MapTrip
  <2>2. \A u \in others : MapTrip(u) # MapTrip(t)
    BY <1>1, <2>1
  <2>3. MapTrips = trips \cup (IF t.at # "remove" THEN {MapTrip(t)} ELSE {})
    BY DEF MapTrips
  <2>4. MapTrips \ {MapTrip(t)} = trips
    BY <2>2, <2>3
  <2>5. {u \in tasks' : u.job = "fetch" /\ u.at # "remove"}
          = others \cup (IF w.at # "remove" THEN {w} ELSE {})
    OBVIOUS
  <2>6. MapTrips' = {MapTrip(u) : u \in {u \in tasks' : u.job = "fetch" /\ u.at # "remove"}}
    BY <2>1 DEF MapTrips
  <2>7. MapTrips' = trips \cup (IF w.at # "remove" THEN {MapTrip(w)} ELSE {})
    BY <2>5, <2>6
  <2> QED
    BY <2>4, <2>7
<1> QED
  BY <1>2, <1>3, <1>4, <1>5, <1>6, <1>7

One(b) == IF b THEN 1 ELSE 0

\* The requests counted: those the remote has, but for one under way.
LEMMA RunsMove ==
  ASSUME Inductive, NEW t \in tasks, t.job = "fetch", NEW w, w.job = "fetch", w.sid = t.sid,
         tasks' = (tasks \ {t}) \cup {w} \/ (w.at = "remove" /\ tasks' = tasks \ {t}),
         heard' \in [Sids -> Seq(Payloads)], \A s \in Sids : s # t.sid => heard'[s] = heard[s]
  PROVE  LET n == Len(heard[t.sid]) - One(t.at \in {"read", "send"})
             m == Len(heard'[t.sid]) - One(w.at \in {"read", "send"})
         IN  /\ m = n => L7Runs' = L7Runs
             /\ m = n + 1 => L7Runs' = [L7Runs EXCEPT ![t.sid] = @ + 1]
<1> DEFINE s == t.sid
           n == Len(heard[s]) - One(t.at \in {"read", "send"})
           m == Len(heard'[s]) - One(w.at \in {"read", "send"})
<1>1. s \in Sids /\ s \in L7Sids
  BY TaskFacts, KeptIs
<1>2. /\ \A ats : Fetches(s, ats) = IF t.at \in ats THEN {t} ELSE {}
      /\ \A ats : "remove" \notin ats => Fetches(s, ats)' = IF w.at \in ats THEN {w} ELSE {}
      /\ \A x, ats : x # s => Fetches(x, ats)' = Fetches(x, ats)
  <2>1. /\ \A ats : Fetches(s, ats) = IF t.at \in ats THEN {t} ELSE {}
        /\ tasks' # tasks \ {t} => \A ats : Fetches(s, ats)' = IF w.at \in ats THEN {w} ELSE {}
        /\ tasks' = tasks \ {t} => \A ats : Fetches(s, ats)' = {}
        /\ \A x, ats : x # s => Fetches(x, ats)' = Fetches(x, ats)
    BY FetchMoves
  <2>2. tasks' = tasks \ {t} => w.at = "remove" \/ w \in tasks \ {t}
    OBVIOUS
  <2>3. w \notin tasks \ {t}
    BY DEF Inductive, OneEach
  <2> QED
    BY <2>1, <2>2, <2>3
<1>3. Cardinality({t}) = 1 /\ Cardinality({w}) = 1 /\ Cardinality({}) = 0
  BY FS_Singleton, FS_EmptySet
<1>4. Cardinality(Fetches(s, {"read", "send"})) = One(t.at \in {"read", "send"})
  BY <1>2, <1>3 DEF One
<1>5. Cardinality(Fetches(s, {"read", "send"})') = One(w.at \in {"read", "send"})
  BY <1>2, <1>3 DEF One
<1>6. L7Runs[s] = n /\ L7Runs'[s] = m
  BY <1>1, <1>4, <1>5 DEF L7Runs
<1>7. \A x \in L7Sids : x # s => L7Runs'[x] = L7Runs[x]
  BY <1>2, KeptIs DEF L7Runs
<1>8. DOMAIN L7Runs = L7Sids /\ DOMAIN L7Runs' = L7Sids
      /\ L7Runs = [x \in L7Sids |-> L7Runs[x]] /\ L7Runs' = [x \in L7Sids |-> L7Runs'[x]]
  BY DEF L7Runs
<1> HIDE DEF n, m
<1>9. m = n => L7Runs' = L7Runs
  BY <1>6, <1>7, <1>8
<1>10. m = n + 1 => L7Runs' = [L7Runs EXCEPT ![s] = @ + 1]
  BY <1>1, <1>6, <1>7, <1>8
<1> QED
  BY <1>9, <1>10 DEF n, m

\* A stream is there for L7Node until its round trip is about to be removed.
LEMMA StreamsMove ==
  ASSUME Inductive, NEW t \in tasks, t.job = "fetch", NEW w, w.job = "fetch", w.sid = t.sid,
         \/ tasks' = (tasks \ {t}) \cup {w} /\ streams' = streams /\ t.at # "remove"
         \/ tasks' = tasks \ {t} /\ streams' = streams \ {t.sid} /\ t.at = "remove" /\ w = t
  PROVE  MapStreams' = IF t.at # "remove" /\ w.at = "remove" THEN MapStreams \ {t.sid}
                                                             ELSE MapStreams
<1> DEFINE s == t.sid
           rm == {"remove"}
<1>1. /\ \A ats : Fetches(s, ats) = IF t.at \in ats THEN {t} ELSE {}
      /\ tasks' # tasks \ {t} => \A ats : Fetches(s, ats)' = IF w.at \in ats THEN {w} ELSE {}
      /\ tasks' = tasks \ {t} => \A ats : Fetches(s, ats)' = {}
      /\ \A x, ats : x # s => Fetches(x, ats)' = Fetches(x, ats)
  BY FetchMoves
<1>2. MapStreams' = {x \in streams' \cap L7Sids : Fetches(x, rm)' = {}}
  BY DEF MapStreams
<1>3. CASE tasks' = tasks \ {t} /\ streams' = streams \ {s} /\ t.at = "remove" /\ w = t
  <2>1. Fetches(s, rm) # {}
    BY <1>1, <1>3
  <2> QED
    BY <1>1, <1>2, <1>3, <2>1 DEF MapStreams
<1>4. CASE tasks' = (tasks \ {t}) \cup {w} /\ streams' = streams /\ t.at # "remove"
  <2>1. w \notin tasks \ {t}
    BY DEF Inductive, OneEach
  <2>2. tasks' # tasks \ {t}
    BY <1>4, <2>1
  <2>3. Fetches(s, rm) = {} /\ Fetches(s, rm)' = IF w.at = "remove" THEN {w} ELSE {}
    BY <1>1, <1>4, <2>2
  <2> QED
    BY <1>1, <1>2, <1>4, <2>3 DEF MapStreams
<1> QED
  BY <1>3, <1>4

\* What the steps of a round trip have in common.
LEMMA FetchFacts ==
  ASSUME Inductive, Labelled, client # "plain", NEW t \in tasks, t.job = "fetch", TaskNext(t)
  PROVE  /\ t.sid \in Sids /\ t.sid \in L7Sids /\ CarriesIts(t) /\ t \in Tasks
         /\ mode = "sealed" /\ mode' = "sealed" /\ L7Ups' = L7Ups /\ Sock' = Sock
         /\ UNCHANGED <<wire, egress>>
         /\ heard \in [Sids -> Seq(Payloads)] /\ Len(heard[t.sid]) \in Nat
         /\ L7Ups \in Seq(WireFrames)
<1>1. t.sid \in Sids /\ Proto[t.sid] = "l7" /\ t \in Tasks
  BY TaskFacts
<1>2. UNCHANGED <<client, up, mode, cur, wire, egress>>
  BY DEF TaskNext, TakesLock, Writes, PumpReads, FetchReads, SendsData, SendsEnd, Removes,
         clientVars, linkVars, readerVars, outVars
<1>3. L7Ups' = L7Ups /\ Sock' = Sock
  BY <1>2 DEF L7Ups, Awaited, Key, Sock
<1>4. heard \in [Sids -> Seq(Payloads)]
  BY DEF Inductive, Typed, TypeOK
<1>5. Len(heard[t.sid]) \in Nat
  BY <1>1, <1>4
<1> QED
  BY <1>1, <1>2, <1>3, <1>4, <1>5, SealedFacts, KeptIs, UpsAre DEF Labelled, Inductive, Typed

\* The steps L7Node does not see.
LEMMA FetchWaits ==
  ASSUME Inductive, Labelled, client # "plain", NEW t \in tasks, t.job = "fetch", TaskNext(t),
         MapTrips' = MapTrips, MapStreams' = MapStreams, L7Runs' = L7Runs, chan' = chan
  PROVE  L7Wire
<1>1. L7Ups' = L7Ups /\ mode' = mode /\ UNCHANGED <<wire, egress>> /\ IsPrefix(L7Ups, L7Ups')
  BY FetchFacts, PrefixSelf
<1>2. L7Frames(Out)' = L7Frames(Out)
  BY <1>1 DEF Out
<1> QED
  BY <1>1, <1>2, WireMaps

\* The trip of a round trip that is not over, and of one that is.
LEMMA TripIs ==
  ASSUME NEW t
  PROVE  /\ t.at # "end" => MapTrip(t) = [sid |-> t.sid, req |-> t.sid, read |-> FALSE]
         /\ t.at = "end" => MapTrip(t) = [sid |-> t.sid, req |-> t.sid, read |-> TRUE]
BY DEF MapTrip

LEMMA TakesLockMaps ==
  ASSUME Inductive, Labelled, client # "plain", NEW t \in tasks, t.job = "fetch", TakesLock(t)
  PROVE  L7Wire
<1> DEFINE w == Task("fetch", t.sid, "write", t.arg)
<1>1. w.job = "fetch" /\ w.sid = t.sid /\ w.at = "write"
  BY TaskIs
<1>2. /\ t.at = "lock" /\ tasks' = (tasks \ {t}) \cup {w}
      /\ UNCHANGED <<streams, heard, chan>>
  BY DEF TakesLock, Moves, outVars, remoteVars
<1> HIDE DEF w
<1>3. TaskNext(t)
  BY DEF TaskNext
<1>4. t.sid \in Sids /\ heard \in [Sids -> Seq(Payloads)] /\ Len(heard[t.sid]) \in Nat
  BY <1>3, FetchFacts
<1>5. MapTrips' = MapTrips
  <2>1. MapTrip(w) = MapTrip(t)
    BY <1>1, <1>2, TripIs
  <2>2. MapTrip(t) \in MapTrips /\ MapTrips' = (MapTrips \ {MapTrip(t)}) \cup {MapTrip(w)}
    BY <1>1, <1>2, FetchMoves
  <2> QED
    BY <2>1, <2>2
<1>6. MapStreams' = MapStreams
  BY <1>1, <1>2, StreamsMove
<1>7. L7Runs' = L7Runs
  <2>1. Len(heard[t.sid]) - One(t.at \in {"read", "send"})
          = Len(heard'[t.sid]) - One(w.at \in {"read", "send"})
    BY <1>1, <1>2 DEF One
  <2> QED
    BY <1>1, <1>2, <1>4, <2>1, RunsMove
<1> QED
  BY <1>2, <1>3, <1>5, <1>6, <1>7, FetchWaits

\* write_all: on to read, or over without the remote having had the request.
LEMMA WritesMaps ==
  ASSUME Inductive, Labelled, Inductive', client # "plain", NEW t \in tasks, t.job = "fetch", Writes(t)
  PROVE  L7!NodeNext \/ L7Wire
<1> DEFINE s == t.sid
<1>1. TaskNext(t)
  BY DEF TaskNext
<1>2. /\ s \in Sids /\ s \in L7Sids /\ mode = "sealed" /\ mode' = "sealed" /\ L7Ups' = L7Ups
      /\ Sock' = Sock /\ UNCHANGED <<wire, egress>>
      /\ heard \in [Sids -> Seq(Payloads)] /\ Len(heard[s]) \in Nat
  BY <1>1, FetchFacts
<1>3. t.at = "write" /\ UNCHANGED <<streams, chan>> /\ heard' \in [Sids -> Seq(Payloads)]
  BY DEF Writes, outVars, Inductive, Typed, TypeOK
<1>4. CASE heard' = [heard EXCEPT ![s] = Append(@, t.arg)]
           /\ tasks' = (tasks \ {t}) \cup {Task("fetch", s, "read", t.arg)}
  <2> DEFINE w == Task("fetch", s, "read", t.arg)
  <2>1. w.job = "fetch" /\ w.sid = s /\ w.at = "read" /\ tasks' = (tasks \ {t}) \cup {w}
    BY <1>4, TaskIs
  <2> HIDE DEF w
  <2>2. MapTrips' = MapTrips
    <3>1. MapTrip(w) = MapTrip(t)
      BY <1>3, <2>1, TripIs
    <3>2. MapTrip(t) \in MapTrips /\ MapTrips' = (MapTrips \ {MapTrip(t)}) \cup {MapTrip(w)}
      BY <1>3, <2>1, FetchMoves
    <3> QED
      BY <3>1, <3>2
  <2>3. MapStreams' = MapStreams
    BY <1>3, <2>1, StreamsMove
  <2>4. L7Runs' = L7Runs
    <3>1. heard[s] \in Seq(Payloads) /\ heard'[s] = Append(heard[s], t.arg)
          /\ \A x \in Sids : x # s => heard'[x] = heard[x]
      BY <1>2, <1>4
    <3>2. Len(heard'[s]) = Len(heard[s]) + 1
      BY <3>1
    <3>3. Len(heard[s]) - One(t.at \in {"read", "send"})
            = Len(heard'[s]) - One(w.at \in {"read", "send"})
      BY <1>2, <1>3, <2>1, <3>2 DEF One
    <3> QED
      BY <1>3, <2>1, <3>1, <3>3, RunsMove
  <2> QED
    BY <1>1, <1>3, <2>2, <2>3, <2>4, FetchWaits
<1>5. CASE heard' = heard /\ tasks' = (tasks \ {t}) \cup {Task("fetch", s, "end", "none")}
  <2> DEFINE w == Task("fetch", s, "end", "none")
  <2>1. w.job = "fetch" /\ w.sid = s /\ w.at = "end" /\ tasks' = (tasks \ {t}) \cup {w}
    BY <1>5, TaskIs
  <2> HIDE DEF w
  <2>2. /\ MapTrip(t) = [sid |-> s, req |-> s, read |-> FALSE]
        /\ MapTrip(w) = [sid |-> s, req |-> s, read |-> TRUE]
    BY <1>3, <2>1, TripIs
  <2>3. MapTrip(t) \in MapTrips /\ MapTrips' = (MapTrips \ {MapTrip(t)}) \cup {MapTrip(w)}
    BY <1>3, <2>1, FetchMoves
  <2>4. MapStreams' = MapStreams
    BY <1>3, <2>1, StreamsMove
  <2>5. L7Runs' = L7Runs
    <3>1. Len(heard[s]) - One(t.at \in {"read", "send"})
            = Len(heard'[s]) - One(w.at \in {"read", "send"})
      BY <1>3, <1>5, <2>1 DEF One
    <3> QED
      BY <1>3, <1>5, <2>1, <3>1, RunsMove
  <2>6. MapDown' = MapDown
    BY <1>2, <1>3 DEF MapDown, Out
  <2> QED
    BY <1>2, <2>2, <2>3, <2>4, <2>5, <2>6, RoundtripMaps
<1> QED
  BY <1>4, <1>5 DEF Writes, Moves

\* read_to_end: an answer to be sent, or none, and the request counts.
LEMMA FetchReadsMaps ==
  ASSUME Inductive, Labelled, client # "plain", NEW t \in tasks, t.job = "fetch", FetchReads(t)
  PROVE  L7!NodeNext \/ L7Wire
<1> DEFINE s == t.sid
<1>1. TaskNext(t)
  BY DEF TaskNext
<1>2. /\ s \in Sids /\ s \in L7Sids /\ mode = "sealed" /\ mode' = "sealed" /\ L7Ups' = L7Ups
      /\ Sock' = Sock /\ UNCHANGED <<wire, egress>>
      /\ heard \in [Sids -> Seq(Payloads)] /\ Len(heard[s]) \in Nat
  BY <1>1, FetchFacts
<1>3. t.at = "read" /\ UNCHANGED <<streams, heard, chan>>
  BY DEF FetchReads, outVars, remoteVars
<1>4. ASSUME NEW b, tasks' = (tasks \ {t}) \cup {Task("fetch", s, "send", b)}
      PROVE  L7Wire
  <2> DEFINE w == Task("fetch", s, "send", b)
  <2>1. w.job = "fetch" /\ w.sid = s /\ w.at = "send" /\ tasks' = (tasks \ {t}) \cup {w}
    BY <1>4, TaskIs
  <2> HIDE DEF w
  <2>2. MapTrips' = MapTrips
    <3>1. MapTrip(w) = MapTrip(t)
      BY <1>3, <2>1, TripIs
    <3>2. MapTrip(t) \in MapTrips /\ MapTrips' = (MapTrips \ {MapTrip(t)}) \cup {MapTrip(w)}
      BY <1>3, <2>1, FetchMoves
    <3> QED
      BY <3>1, <3>2
  <2>3. MapStreams' = MapStreams
    BY <1>3, <2>1, StreamsMove
  <2>4. L7Runs' = L7Runs
    <3>1. Len(heard[s]) - One(t.at \in {"read", "send"})
            = Len(heard'[s]) - One(w.at \in {"read", "send"})
      BY <1>3, <2>1 DEF One
    <3> QED
      BY <1>2, <1>3, <2>1, <3>1, RunsMove
  <2> QED
    BY <1>1, <1>3, <2>2, <2>3, <2>4, FetchWaits
<1>5. CASE tasks' = (tasks \ {t}) \cup {Task("fetch", s, "end", "none")}
  <2> DEFINE w == Task("fetch", s, "end", "none")
  <2>1. w.job = "fetch" /\ w.sid = s /\ w.at = "end" /\ tasks' = (tasks \ {t}) \cup {w}
    BY <1>5, TaskIs
  <2> HIDE DEF w
  <2>2. /\ MapTrip(t) = [sid |-> s, req |-> s, read |-> FALSE]
        /\ MapTrip(w) = [sid |-> s, req |-> s, read |-> TRUE]
    BY <1>3, <2>1, TripIs
  <2>3. MapTrip(t) \in MapTrips /\ MapTrips' = (MapTrips \ {MapTrip(t)}) \cup {MapTrip(w)}
    BY <1>3, <2>1, FetchMoves
  <2>4. MapStreams' = MapStreams
    BY <1>3, <2>1, StreamsMove
  <2>5. L7Runs' = [L7Runs EXCEPT ![s] = @ + 1]
    <3>1. Len(heard[s]) - One(t.at \in {"read", "send"}) + 1
            = Len(heard'[s]) - One(w.at \in {"read", "send"})
      BY <1>2, <1>3, <2>1 DEF One
    <3> QED
      BY <1>2, <1>3, <2>1, <3>1, RunsMove
  <2>6. MapDown' = MapDown
    BY <1>2, <1>3 DEF MapDown, Out
  <2> QED
    BY <1>2, <2>2, <2>3, <2>4, <2>5, <2>6, RoundtripMaps
<1> QED
  BY <1>4, <1>5 DEF FetchReads, Moves

\* RES: the answer is on its way, and the request counts.
LEMMA SendsDataMaps ==
  ASSUME Inductive, Labelled, client # "plain", NEW t \in tasks, t.job = "fetch", SendsData(t)
  PROVE  L7!NodeNext
<1> DEFINE s == t.sid
           w == Task("fetch", s, "end", "none")
<1>1. TaskNext(t)
  BY DEF TaskNext
<1>2. /\ s \in Sids /\ s \in L7Sids /\ CarriesIts(t) /\ t \in Tasks
      /\ mode = "sealed" /\ mode' = "sealed" /\ L7Ups' = L7Ups
      /\ Sock' = Sock /\ UNCHANGED <<wire, egress>>
      /\ heard \in [Sids -> Seq(Payloads)] /\ Len(heard[s]) \in Nat
  BY <1>1, FetchFacts
<1>3. t.at = "send" /\ UNCHANGED <<streams, heard, missed>> /\ Sends(RES, s, t.arg)
  <2>1. DataType(t) = RES
    BY TaskFacts DEF DataType
  <2> QED
    BY <2>1 DEF SendsData, remoteVars
<1>4. w.job = "fetch" /\ w.sid = s /\ w.at = "end" /\ tasks' = (tasks \ {t}) \cup {w}
  BY TaskIs DEF SendsData, Moves, AfterSend
<1> HIDE DEF w
<1>5. /\ MapTrip(t) = [sid |-> s, req |-> s, read |-> FALSE]
      /\ MapTrip(w) = [sid |-> s, req |-> s, read |-> TRUE]
  BY <1>3, <1>4, TripIs
<1>6. MapTrip(t) \in MapTrips /\ MapTrips' = (MapTrips \ {MapTrip(t)}) \cup {MapTrip(w)}
  BY <1>3, <1>4, FetchMoves
<1>7. MapStreams' = MapStreams
  BY <1>3, <1>4, StreamsMove
<1>8. L7Runs' = [L7Runs EXCEPT ![s] = @ + 1]
  <2>1. Len(heard[s]) - One(t.at \in {"read", "send"}) + 1
          = Len(heard'[s]) - One(w.at \in {"read", "send"})
    BY <1>2, <1>3, <1>4 DEF One
  <2> QED
    BY <1>2, <1>3, <1>4, <2>1, RunsMove
<1>9. \E b \in {s, "junk"} :
        MapDown' = IF Sock = "open" THEN Append(MapDown, Frame(RES, s, "ws", b)) ELSE MapDown
  <2>1. t.arg \in {s, "junk"}
    BY <1>2, <1>3 DEF CarriesIts
  <2>2. t.arg \in Payloads /\ RES \in FrameTypes \ {Hello}
    BY <1>2 DEF Tasks, RES, Hello, FrameTypes
  <2>3. MapDown' = IF Sock = "open" THEN Append(MapDown, Frame(RES, s, "ws", t.arg)) ELSE MapDown
    BY <1>2, <1>3, <2>2, SentMaps
  <2> QED
    BY <2>1, <2>3
<1> QED
  BY <1>2, <1>5, <1>6, <1>7, <1>8, <1>9, RoundtripMaps

\* END: and the stream is forgotten, as far as L7Node can tell.
LEMMA SendsEndMaps ==
  ASSUME Inductive, Labelled, client # "plain", NEW t \in tasks, t.job = "fetch", SendsEnd(t)
  PROVE  L7!NodeNext
<1> DEFINE s == t.sid
           w == Task("fetch", s, "remove", "none")
<1>1. TaskNext(t)
  BY DEF TaskNext
<1>2. /\ s \in Sids /\ s \in L7Sids /\ mode = "sealed" /\ mode' = "sealed" /\ L7Ups' = L7Ups
      /\ Sock' = Sock /\ UNCHANGED <<wire, egress>>
      /\ heard \in [Sids -> Seq(Payloads)] /\ Len(heard[s]) \in Nat
  BY <1>1, FetchFacts
<1>3. t.at = "end" /\ UNCHANGED <<streams, heard, missed>> /\ Sends(END, s, "none")
  BY DEF SendsEnd, remoteVars
<1>4. w.job = "fetch" /\ w.sid = s /\ w.at = "remove" /\ tasks' = (tasks \ {t}) \cup {w}
  BY TaskIs DEF SendsEnd, Moves
<1> HIDE DEF w
<1>5. MapTrip(t) = [sid |-> s, req |-> s, read |-> TRUE]
  BY <1>3, TripIs
<1>6. MapTrip(t) \in MapTrips /\ MapTrips' = MapTrips \ {MapTrip(t)}
  BY <1>3, <1>4, FetchMoves
<1>7. MapStreams' = MapStreams \ {s}
  BY <1>3, <1>4, StreamsMove
<1>8. L7Runs' = L7Runs
  <2>1. Len(heard[s]) - One(t.at \in {"read", "send"})
          = Len(heard'[s]) - One(w.at \in {"read", "send"})
    BY <1>3, <1>4 DEF One
  <2> QED
    BY <1>2, <1>3, <1>4, <2>1, RunsMove
<1>9. MapDown' = IF Sock = "open" THEN Append(MapDown, Frame(END, s, "ws", "none")) ELSE MapDown
  <2>1. "none" \in Payloads /\ END \in FrameTypes \ {Hello}
    BY DEF Payloads, END, Hello, FrameTypes
  <2> QED
    BY <1>2, <1>3, <2>1, SentMaps
<1> QED
  BY <1>2, <1>5, <1>6, <1>7, <1>8, <1>9, EndMaps

LEMMA RemovesMaps ==
  ASSUME Inductive, Labelled, client # "plain", NEW t \in tasks, t.job = "fetch", Removes(t)
  PROVE  L7Wire
<1>1. TaskNext(t)
  BY DEF TaskNext
<1>2. t.sid \in Sids /\ heard \in [Sids -> Seq(Payloads)]
  BY <1>1, FetchFacts
<1>3. /\ t.at = "remove" /\ tasks' = tasks \ {t} /\ streams' = streams \ {t.sid}
      /\ UNCHANGED <<heard, chan>>
  BY DEF Removes, outVars, remoteVars
<1>4. MapTrips' = MapTrips
  <2>1. MapTrips' = MapTrips \ {MapTrip(t)}
    BY <1>3, FetchMoves
  <2>2. MapTrip(t) \notin MapTrips
    <3>1. ASSUME NEW u \in tasks, u.job = "fetch", u.at # "remove" PROVE MapTrip(u) # MapTrip(t)
      <4>1. u.sid # t.sid
        BY <1>3, <3>1 DEF Inductive, OneEach
      <4> QED
        BY <4>1 DEF MapTrip
    <3> QED
      BY <3>1 DEF MapTrips
  <2> QED
    BY <2>1, <2>2
<1>5. MapStreams' = MapStreams
  BY <1>3, StreamsMove
<1>6. L7Runs' = L7Runs
  <2>1. Len(heard[t.sid]) - One(t.at \in {"read", "send"})
          = Len(heard'[t.sid]) - One(t.at \in {"read", "send"})
    BY <1>3
  <2> QED
    BY <1>2, <1>3, <2>1, RunsMove
<1> QED
  BY <1>1, <1>3, <1>4, <1>5, <1>6, FetchWaits

-----------------------------------------------------------------------------
\* Each step of the node is one of L7Node's, or one it does not see.
LEMMA StepMaps ==
  ASSUME Inductive, Labelled, Inductive', client # "plain", Next
  PROVE  L7!NodeNext \/ L7Wire
<1>1. CASE ClientNext
  BY <1>1, ClientMaps
<1>2. CASE ReaderNext
  BY <1>2, ReadFirstMaps, ReadDropsMaps, ReadConnectMaps, ReadWorkMaps, ReadShortMaps,
     ReadEndMaps, ReaderStopsMaps DEF ReaderNext
<1>3. CASE ConnectReturns
  BY <1>3, ConnectReturnsMaps
<1>4. ASSUME NEW t \in tasks, TaskNext(t) PROVE L7!NodeNext \/ L7Wire
  <2>1. CASE t.job # "fetch"
    BY <1>4, <2>1, RawTaskMaps
  <2>2. CASE t.job = "fetch"
    <3>1. ~ PumpReads(t)
      BY <2>2 DEF PumpReads
    <3> QED
      BY <1>4, <2>2, <3>1, TakesLockMaps, WritesMaps, FetchReadsMaps, SendsDataMaps, SendsEndMaps,
         RemovesMaps DEF TaskNext
  <2> QED
    BY <2>1, <2>2
<1>5. CASE Egress \/ EgressEnds
  BY <1>5, EgressMaps
<1>6. ASSUME NEW s \in Sids, RemoteSays(s) \/ RemoteCloses(s) PROVE L7!NodeNext \/ L7Wire
  BY <1>6, RemoteMaps
<1> QED
  BY <1>1, <1>2, <1>3, <1>4, <1>5, <1>6 DEF Next

\* wisp.rs, serve_conn, its first lines: a connection begins as L7Node has one
\* begin, with no key, no stream, no round trip, and nothing under way.
THEOREM NodeBegins ==
  Init => /\ L7!nodeVars = <<[c \in {"ws"} |-> FALSE], [c \in {"ws"} |-> {}], [c \in {"ws"} |-> {}]>>
          /\ L7Ups = <<>> /\ MapDown = <<>> /\ L7Runs = [s \in L7Sids |-> 0]
<1> SUFFICES ASSUME Init
             PROVE  /\ (mode = "sealed") = FALSE /\ MapStreams = {} /\ MapTrips = {}
                    /\ L7Ups = <<>> /\ MapDown = <<>> /\ L7Runs = [s \in L7Sids |-> 0]
  BY MapIs
<1>1. MapStreams = {} /\ MapTrips = {} /\ \A s : Fetches(s, {"read", "send"}) = {}
  BY DEF Init, MapStreams, MapTrips, Fetches
<1>2. L7Ups = <<>> /\ MapDown = <<>>
  <2>1. Awaited \o up = <<>> /\ Out = <<>>
    BY DEF Init, Awaited, Out
  <2> QED
    BY <2>1, FramesEmpty DEF L7Ups, MapDown
<1>3. L7Runs = [s \in L7Sids |-> 0]
  <2>1. \A s \in L7Sids : Len(heard[s]) - Cardinality(Fetches(s, {"read", "send"})) = 0
    BY <1>1, FS_EmptySet, KeptIs DEF Init
  <2> QED
    BY <2>1 DEF L7Runs
<1> QED
  BY <1>1, <1>2, <1>3 DEF Init

\* wisp.rs, serve_conn: to a client that seals, whatever the reader, the tasks,
\* the mutexes, the bounded channel and the egress pump do is a step of L7Node
\* or changes nothing that L7Node sees; so the worker's fetches may be reasoned
\* about with L7Node in the place of the node.
THEOREM NodeAlwaysSteps == Spec => NodeSteps
<1>1. Inductive /\ Labelled /\ Inductive' /\ [Next]_vars
        => [client = "plain" \/ L7!NodeNext \/ L7Wire]_vars
  BY StepMaps
<1> QED
  BY <1>1, InductiveAlways, LabelledAlways, PTL DEF Spec, NodeSteps
=============================================================================
