------------------------------- MODULE WispNode -------------------------------
(***************************************************************************)
(* One connection of the wisp node (server/src/wisp.rs): serve_conn's      *)
(* reader loop, the tasks it spawns, the bounded channel they send through *)
(* and the egress pump that empties it into the WebSocket.                 *)
(*                                                                         *)
(* Tasks run on a multi-threaded runtime: a step is what a task does       *)
(* between two awaits that can wait.  A stream's socket sits behind a      *)
(* tokio mutex; who holds it is told by where the tasks stand.             *)
(*                                                                         *)
(* The client and the remote ends are the environment.  A client opens a   *)
(* stream id once, as the service worker does (tunnel.sid only grows).     *)
(***************************************************************************)
EXTENDS WispFrames, Selection, FiniteSets, SequencesExt

CONSTANTS Sids,      \* the stream ids the client opens
          Proto,     \* Proto[s]: what it opens s as: "tcp", "udp" or "l7"
          Chunks,    \* Chunks[s]: what the client sends on a raw stream, in order
          Says,      \* Says[s]: what its remote sends, in order
          Short,     \* the chunks of less than two bytes
          Capacity,  \* room in the channel (1024 frames in the code)
          MaxUp      \* bound: frames on their way to the node

\* What is said on raw streams.
Bodies == UNION {ToSet(Chunks[s]) \cup ToSet(Says[s]) : s \in Sids}

ASSUME ProtoAssumption == Proto \in [Sids -> {"tcp", "udp", "l7"}]
ASSUME RoomAssumption == Capacity \in Nat \ {0} /\ MaxUp \in Nat \ {0}
\* Chunks and ids are names: two chunks of a client are told apart, and no
\* stream has the id 0 (tunnel.sid starts at 1).
ASSUME PayloadAssumption ==
  /\ {"none", "junk", 0} \cap (Sids \cup Bodies) = {}
  /\ \A s \in Sids : Chunks[s] \in Seq(Bodies) /\ Says[s] \in Seq(Bodies)
  /\ Short \subseteq Bodies
  /\ \A s \in Sids : \A i, j \in DOMAIN Chunks[s] :
       Chunks[s][i] = Chunks[s][j] => i = j

VARIABLES
  client,   \* "new", "hello" (sealed from its second message on) or "plain"
  sent,     \* sent[s]: frames the client sent on s, its END not counted
  ended,    \* the streams the client sent END for
  up,       \* the client's frames the reader has not taken
  link,     \* the WebSocket: "open", "closing" (Close sent) or "lost"
  mode,     \* the reader's cipher: "start" (no message yet), "sealed", "plain"
  reader,   \* "reading", "opening" (inside a CONNECT), "draining", "returned"
  cur,      \* the stream whose CONNECT the reader awaits
  streams,  \* the keys of the stream map
  tasks,    \* the spawned tasks
  chan,     \* the channel from the tasks to the egress pump
  egress,   \* the egress pump: "running" or "done"
  wire,     \* every frame that left for the client
  remote,   \* remote[s]: "none", "open", "closed"
  said,     \* said[s]: chunks the remote sent
  taken,    \* taken[s]: chunks the node read
  heard,    \* heard[s]: what the remote received, in order
  missed    \* missed[s]: what the node took for it and did not deliver

clientVars == <<client, sent, ended>>
linkVars == <<up, link>>
readerVars == <<mode, reader, cur>>
outVars == <<chan, egress, wire>>
remoteVars == <<remote, said, taken, heard, missed>>
vars == <<clientVars, linkVars, readerVars, streams, tasks, outVars, remoteVars>>

Payloads == Bodies \cup Sids \cup {"none", "junk"}
WireFrames == [type: FrameTypes, sid: Sids \cup {0},
               key: {"ws", "old", "none"}, body: Payloads]

\* Task(job, s, at, arg): where a task of stream s stands and what it carries.
Task(job, s, at, arg) == [job |-> job, sid |-> s, at |-> at, arg |-> arg]
Tasks == [job: {"pump", "write", "datagram", "fetch"}, sid: Sids,
          at: {"lock", "write", "read", "send", "end", "remove"}, arg: Payloads]

Raw == {s \in Sids : Proto[s] # "l7"}

TypeOK ==
  /\ client \in {"new", "hello", "plain"}
  /\ sent \in [Sids -> Nat] /\ \A s \in Raw : sent[s] <= Len(Chunks[s]) + 1
  /\ ended \subseteq Sids
  /\ up \in Seq(WireFrames) /\ Len(up) <= MaxUp
  /\ link \in {"open", "closing", "lost"}
  /\ mode \in {"start", "sealed", "plain"}
  /\ reader \in {"reading", "opening", "draining", "returned"}
  /\ cur \in Sids \cup {"none"} /\ (cur # "none" <=> reader = "opening")
  /\ streams \subseteq Sids
  /\ tasks \subseteq Tasks
  /\ chan \in Seq(WireFrames) /\ Len(chan) <= Capacity
  /\ egress \in {"running", "done"}
  /\ wire \in Seq(WireFrames)
  /\ remote \in [Sids -> {"none", "open", "closed"}]
  /\ said \in [Sids -> Nat] /\ taken \in [Sids -> Nat]
  /\ \A s \in Raw : taken[s] <= said[s] /\ said[s] <= Len(Says[s])
  /\ heard \in [Sids -> Seq(Payloads)] /\ missed \in [Sids -> Seq(Payloads)]

Init ==
  /\ client = "new"
  /\ sent = [s \in Sids |-> 0]
  /\ ended = {}
  /\ up = <<>>
  /\ link = "open"
  /\ mode = "start" /\ reader = "reading" /\ cur = "none"
  /\ streams = {}
  /\ tasks = {}
  /\ chan = <<>> /\ egress = "running" /\ wire = <<>>
  /\ remote = [s \in Sids |-> "none"]
  /\ said = [s \in Sids |-> 0] /\ taken = [s \in Sids |-> 0]
  /\ heard = [s \in Sids |-> <<>>] /\ missed = [s \in Sids |-> <<>>]

-----------------------------------------------------------------------------
\* The client.  A legacy client sends no hello and seals nothing; a worker
\* that changed tunnels may still send a frame under its old key.

ClientSends(frame) ==
  /\ link = "open"
  /\ Len(up) < MaxUp
  /\ up' = Append(up, frame)
  /\ UNCHANGED <<link, readerVars, streams, tasks, outVars, remoteVars>>

ClientStarts ==
  /\ client = "new"
  /\ \/ client' = "hello" /\ ClientSends(HelloFrame)
     \/ client' = "plain" /\ UNCHANGED <<linkVars, readerVars, streams, tasks,
                                         outVars, remoteVars>>
  /\ UNCHANGED <<sent, ended>>

Ready == client = "plain" \/ mode = "sealed"
Key == IF client = "plain" THEN "none" ELSE "ws"

ClientConnects(s) ==
  /\ Ready
  /\ sent[s] = 0
  /\ sent' = [sent EXCEPT ![s] = 1]
  /\ ClientSends(Frame(CONNECT, s, Key, "none"))
  /\ UNCHANGED <<client, ended>>

ClientTalks(s) ==
  /\ sent[s] > 0
  /\ s \notin ended
  /\ sent' = [sent EXCEPT ![s] = @ + 1]
  /\ \/ /\ Proto[s] \in {"tcp", "udp"}
        /\ sent[s] <= Len(Chunks[s])
        /\ ClientSends(Frame(IF Proto[s] = "tcp" THEN DATA ELSE UDP, s, Key,
                             Chunks[s][sent[s]]))
     \/ /\ Proto[s] = "l7"
        /\ sent[s] = 1
        /\ \E key \in {Key} \cup (IF client = "hello" THEN {"old"} ELSE {}) :
             ClientSends(Frame(REQ, s, key, s))
  /\ UNCHANGED <<client, ended>>

\* END, on raw streams only: the worker never ends a fetch stream.
ClientEnds(s) ==
  /\ Proto[s] # "l7"
  /\ sent[s] > 0
  /\ s \notin ended
  /\ ended' = ended \cup {s}
  /\ ClientSends(Frame(END, s, Key, "none"))
  /\ UNCHANGED <<client, sent>>

\* The client closes (behind what it sent), or the connection is lost.
LinkGoes ==
  /\ link = "open"
  /\ \/ link' = "closing" /\ UNCHANGED up
     \/ link' = "lost" /\ up' = <<>>
  /\ UNCHANGED <<clientVars, readerVars, streams, tasks, outVars, remoteVars>>

-----------------------------------------------------------------------------
\* The reader loop.

Spawn(task) == tasks' = tasks \cup {task}

\* The head frame is of this type and opens (or nothing is sealed here).
Takes(type) ==
  /\ reader = "reading"
  /\ mode # "start"
  /\ IsHead(up, type)
  /\ mode = "plain" \/ Opens("ws", Head(up))
  /\ up' = Tail(up)
  /\ UNCHANGED <<link, clientVars, mode>>

\* The first message decides: a hello is answered with the node's key,
\* anything else comes from a legacy client.
ReadFirst ==
  /\ reader = "reading"
  /\ mode = "start"
  /\ up # <<>>
  /\ IF IsHead(up, Hello)
     THEN /\ mode' = "sealed"
          /\ up' = Tail(up)
          /\ wire' = Append(wire, HelloFrame)
     ELSE mode' = "plain" /\ UNCHANGED <<up, wire>>
  /\ UNCHANGED <<link, clientVars, reader, cur, streams, tasks, chan, egress,
                 remoteVars>>

\* A frame that fails authentication is dropped.
ReadDrops ==
  /\ reader = "reading"
  /\ mode = "sealed"
  /\ up # <<>>
  /\ ~Opens("ws", Head(up))
  /\ up' = Tail(up)
  /\ UNCHANGED <<link, clientVars, readerVars, streams, tasks, outVars,
                 remoteVars>>

\* CONNECT: the reader itself awaits the open; no other frame is read.
ReadConnect ==
  /\ Takes(CONNECT)
  /\ reader' = "opening"
  /\ cur' = Head(up).sid
  /\ UNCHANGED <<streams, tasks, outVars, remoteVars>>

\* open_tcp, open_udp or open_l7 returns.  A failure leaves a warning.
ConnectReturns ==
  /\ reader = "opening"
  /\ reader' = "reading"
  /\ cur' = "none"
  /\ \/ /\ streams' = streams \cup {cur}
        /\ remote' = [remote EXCEPT ![cur] = "open"]
        /\ CASE Proto[cur] = "tcp" -> Spawn(Task("pump", cur, "lock", "none"))
             [] Proto[cur] = "udp" -> Spawn(Task("pump", cur, "read", "none"))
             [] Proto[cur] = "l7"  -> UNCHANGED tasks
     \/ UNCHANGED <<streams, tasks, remote>>
  /\ UNCHANGED <<linkVars, clientVars, mode, outVars, said, taken, heard, missed>>

\* Mutant of ReadWork: what finds the stream's lock taken is dropped.
ReadWorkIfFree ==
  LET f == Head(up)
      Serve(kinds, job, at) ==
        IF /\ f.sid \in streams /\ Proto[f.sid] \in kinds
           /\ ~\E t \in tasks : t.sid = f.sid /\ t.at \in {"write", "read"}
        THEN Spawn(Task(job, f.sid, at, f.body))
        ELSE UNCHANGED tasks
  IN
  /\ \/ Takes(DATA) /\ Serve({"tcp", "l7"}, "write", "lock")
     \/ Takes(REQ) /\ Serve({"tcp", "l7"}, "fetch", "lock")
     \/ Takes(UDP) /\ f.body \notin Short /\ Serve({"udp"}, "datagram", "write")
  /\ UNCHANGED <<reader, cur, streams, outVars, remoteVars>>

\* DATA, REQ, UDP: a task per frame, if the stream is there and of the kind.
ReadWork ==
  LET f == Head(up)
      Serve(kinds, job, at) ==
        IF f.sid \in streams /\ Proto[f.sid] \in kinds
        THEN Spawn(Task(job, f.sid, at, f.body))
        ELSE UNCHANGED tasks
  IN
  /\ \/ Takes(DATA) /\ Serve({"tcp", "l7"}, "write", "lock")
     \/ Takes(REQ) /\ Serve({"tcp", "l7"}, "fetch", "lock")
     \/ Takes(UDP) /\ f.body \notin Short /\ Serve({"udp"}, "datagram", "write")
  /\ UNCHANGED <<reader, cur, streams, outVars, remoteVars>>

\* A datagram of less than two bytes is discarded without a word.
ReadShort ==
  /\ Takes(UDP)
  /\ Head(up).body \in Short
  /\ IF Head(up).sid \in streams
     THEN missed' = [missed EXCEPT ![Head(up).sid] = Append(@, Head(up).body)]
     ELSE UNCHANGED missed
  /\ UNCHANGED <<reader, cur, streams, tasks, outVars, remote, said, taken, heard>>

\* END: the map forgets the stream; its pump is not told.
ReadEnd ==
  /\ Takes(END)
  /\ streams' = streams \ {Head(up).sid}
  /\ UNCHANGED <<reader, cur, tasks, outVars, remoteVars>>

\* Close leaves the loop and waits for the egress pump; a read error returns.
ReadStops ==
  /\ reader = "reading"
  /\ link # "open"
  /\ up = <<>>
  /\ reader' = IF link = "closing" THEN "draining" ELSE "returned"
  /\ UNCHANGED <<linkVars, clientVars, mode, cur, streams, tasks, outVars,
                 remoteVars>>

Drained ==
  /\ reader = "draining"
  /\ egress = "done"
  /\ reader' = "returned"
  /\ UNCHANGED <<linkVars, clientVars, mode, cur, streams, tasks, outVars,
                 remoteVars>>

-----------------------------------------------------------------------------
\* The tasks.

Moves(t, at, arg) ==
  tasks' = (tasks \ {t}) \cup {Task(t.job, t.sid, at, arg)}

\* A task that writes to or reads from a stream socket holds its mutex.
Holds(t) == t.job # "datagram" /\ Proto[t.sid] # "udp" /\ t.at \in {"write", "read"}
Locked(s) == \E t \in tasks : t.sid = s /\ Holds(t)

TakesLock(t) ==
  /\ t.at = "lock"
  /\ ~Locked(t.sid)
  /\ Moves(t, IF t.job = "pump" THEN "read" ELSE "write", t.arg)
  /\ UNCHANGED <<clientVars, linkVars, readerVars, streams, outVars, remoteVars>>

\* write_all or send: the remote gets the bytes, or an error is ignored and
\* nobody hears of them: the remote has gone, the round trip fails, or it is a
\* datagram, which may fail at any time (a report of an earlier one, no
\* buffer).  A round trip goes on to read, still holding the lock, or ends.
Writes(t) ==
  /\ t.at = "write"
  /\ \/ /\ remote[t.sid] = "open"
        /\ heard' = [heard EXCEPT ![t.sid] = Append(@, t.arg)]
        /\ UNCHANGED missed
        /\ IF t.job = "fetch" THEN Moves(t, "read", t.arg)
                              ELSE tasks' = tasks \ {t}
     \/ /\ remote[t.sid] = "closed" \/ t.job \in {"fetch", "datagram"}
        /\ missed' = [missed EXCEPT ![t.sid] = Append(@, t.arg)]
        /\ UNCHANGED heard
        /\ IF t.job = "fetch" THEN Moves(t, "end", "none")
                              ELSE tasks' = tasks \ {t}
  /\ UNCHANGED <<clientVars, linkVars, readerVars, streams, outVars, remote,
                 said, taken>>

\* Mutant of PumpReads: the end of a TCP stream goes unreported.
PumpReadsQuietly(t) ==
  /\ t.job = "pump"
  /\ t.at = "read"
  /\ \/ /\ taken[t.sid] < said[t.sid]
        /\ taken' = [taken EXCEPT ![t.sid] = @ + 1]
        /\ Moves(t, "send", Says[t.sid][taken[t.sid] + 1])
     \/ /\ taken[t.sid] = said[t.sid]
        /\ remote[t.sid] = "closed"
        /\ UNCHANGED taken
        /\ Moves(t, "remove", "none")
  /\ UNCHANGED <<clientVars, linkVars, readerVars, streams, outVars, remote,
                 said, heard, missed>>

\* Mutant of PumpReads: a task of its own sends what was read.
PumpReadsAhead(t) ==
  /\ t.job = "pump"
  /\ t.at = "read"
  /\ \/ /\ taken[t.sid] < said[t.sid]
        /\ taken' = [taken EXCEPT ![t.sid] = @ + 1]
        /\ tasks' = (tasks \ {t}) \cup
             {Task(t.job, t.sid, "send", Says[t.sid][taken[t.sid] + 1]),
              Task(t.job, t.sid, IF Proto[t.sid] = "udp" THEN "read" ELSE "lock", "none")}
     \/ /\ taken[t.sid] = said[t.sid]
        /\ remote[t.sid] = "closed"
        /\ UNCHANGED taken
        /\ Moves(t, IF Proto[t.sid] = "udp" THEN "remove" ELSE "end", "none")
  /\ UNCHANGED <<clientVars, linkVars, readerVars, streams, outVars, remote,
                 said, heard, missed>>

\* One read of a pump: a chunk, or the end of a TCP stream (a UDP socket
\* reports an error and says nothing to the client).
PumpReads(t) ==
  /\ t.job = "pump"
  /\ t.at = "read"
  /\ \/ /\ taken[t.sid] < said[t.sid]
        /\ taken' = [taken EXCEPT ![t.sid] = @ + 1]
        /\ Moves(t, "send", Says[t.sid][taken[t.sid] + 1])
     \/ /\ taken[t.sid] = said[t.sid]
        /\ remote[t.sid] = "closed"
        /\ UNCHANGED taken
        /\ Moves(t, IF Proto[t.sid] = "udp" THEN "remove" ELSE "end", "none")
  /\ UNCHANGED <<clientVars, linkVars, readerVars, streams, outVars, remote,
                 said, heard, missed>>

\* read_to_end of a round trip: the response, bytes that are none, or an
\* error.
FetchReads(t) ==
  /\ t.job = "fetch"
  /\ t.at = "read"
  /\ \/ \E b \in {t.arg, "junk"} : Moves(t, "send", b)
     \/ Moves(t, "end", "none")
  /\ UNCHANGED <<clientVars, linkVars, readerVars, streams, outVars, remoteVars>>

\* Mutant of Sends: the channel has no limit.
SendsUnbounded(type, s, body) ==
  IF egress = "running"
  THEN chan' = Append(chan, Frame(type, s, IF mode = "sealed" THEN "ws"
                                           ELSE "none", body))
  ELSE UNCHANGED chan

\* tx.send: waits for room.  Once the egress pump is gone it fails at once.
\* The pump will seal the frame, if this connection seals at all.
Sends(type, s, body) ==
  IF egress = "running"
  THEN /\ Len(chan) < Capacity
       /\ chan' = Append(chan, Frame(type, s, IF mode = "sealed" THEN "ws"
                                             ELSE "none", body))
  ELSE UNCHANGED chan

DataType(t) ==
  CASE t.job = "fetch" -> RES
    [] Proto[t.sid] = "udp" -> UDP
    [] OTHER -> DATA

AfterSend(t) ==
  CASE t.job = "fetch"                      -> "end"
    [] t.job = "pump" /\ egress = "done"    -> "remove"
    [] OTHER -> IF Proto[t.sid] = "udp" THEN "read" ELSE "lock"

\* What was read goes to the client.
SendsData(t) ==
  /\ t.at = "send"
  /\ Sends(DataType(t), t.sid, t.arg)
  /\ Moves(t, AfterSend(t), "none")
  /\ UNCHANGED <<clientVars, linkVars, readerVars, streams, egress, wire,
                 remoteVars>>

\* Mutant of SendsEnd: a pump that reported the end reads on.
SendsEndReadsOn(t) ==
  /\ t.at = "end"
  /\ Sends(END, t.sid, "none")
  /\ Moves(t, IF t.job = "pump" THEN "lock" ELSE "remove", "none")
  /\ UNCHANGED <<clientVars, linkVars, readerVars, streams, egress, wire,
                 remoteVars>>

SendsEnd(t) ==
  /\ t.at = "end"
  /\ Sends(END, t.sid, "none")
  /\ Moves(t, "remove", "none")
  /\ UNCHANGED <<clientVars, linkVars, readerVars, streams, egress, wire,
                 remoteVars>>

\* Mutant of Removes: the map keeps the entry.
RemovesNothing(t) ==
  /\ t.at = "remove"
  /\ tasks' = tasks \ {t}
  /\ UNCHANGED <<clientVars, linkVars, readerVars, streams, outVars, remoteVars>>

\* The last thing a pump or a round trip does: streams.remove(&sid).
Removes(t) ==
  /\ t.at = "remove"
  /\ tasks' = tasks \ {t}
  /\ streams' = streams \ {t.sid}
  /\ UNCHANGED <<clientVars, linkVars, readerVars, outVars, remoteVars>>

-----------------------------------------------------------------------------
\* The egress pump: frames leave in channel order; the first send that fails
\* (the connection is gone, or the peer's Close was seen) ends it.
Egress ==
  /\ egress = "running"
  /\ chan # <<>>
  /\ \/ /\ link # "lost" /\ reader # "draining"
        /\ wire' = Append(wire, Head(chan))
        /\ chan' = Tail(chan)
        /\ UNCHANGED egress
     \/ /\ link = "lost" \/ reader = "draining"
        /\ egress' = "done"
        /\ chan' = <<>>
        /\ UNCHANGED wire
  /\ UNCHANGED <<clientVars, linkVars, readerVars, streams, tasks, remoteVars>>

\* Everyone who could still send: the reader until it leaves its loop, and
\* each pump and round trip until it is over.
Senders == {t \in tasks : t.job \in {"pump", "fetch"}}

\* Mutant of EgressEnds: the reader waits for the pump with its own sender
\* still in hand.
EgressEndsLate ==
  /\ egress = "running"
  /\ chan = <<>>
  /\ reader = "returned"
  /\ Senders = {}
  /\ egress' = "done"
  /\ UNCHANGED <<clientVars, linkVars, readerVars, streams, tasks, chan, wire,
                 remoteVars>>

\* recv() returns None: the channel is empty and every sender was dropped.
EgressEnds ==
  /\ egress = "running"
  /\ chan = <<>>
  /\ reader \in {"draining", "returned"}
  /\ Senders = {}
  /\ egress' = "done"
  /\ UNCHANGED <<clientVars, linkVars, readerVars, streams, tasks, chan, wire,
                 remoteVars>>

-----------------------------------------------------------------------------
\* The remote ends.

RemoteSays(s) ==
  /\ remote[s] = "open"
  /\ Proto[s] # "l7"
  /\ said[s] < Len(Says[s])
  /\ said' = [said EXCEPT ![s] = @ + 1]
  /\ UNCHANGED <<clientVars, linkVars, readerVars, streams, tasks, outVars,
                 remote, taken, heard, missed>>

RemoteCloses(s) ==
  /\ remote[s] = "open"
  /\ Proto[s] # "l7"
  /\ remote' = [remote EXCEPT ![s] = "closed"]
  /\ UNCHANGED <<clientVars, linkVars, readerVars, streams, tasks, outVars,
                 said, taken, heard, missed>>

-----------------------------------------------------------------------------
ClientNext ==
  \/ ClientStarts
  \/ \E s \in Sids : ClientConnects(s) \/ ClientTalks(s) \/ ClientEnds(s)
  \/ LinkGoes

ReaderNext ==
  \/ ReadFirst
  \/ ReadDrops
  \/ ReadConnect
  \/ ReadWork
  \/ ReadShort
  \/ ReadEnd
  \/ ReadStops
  \/ Drained

TaskNext(t) ==
  \/ TakesLock(t)
  \/ Writes(t)
  \/ PumpReads(t)
  \/ FetchReads(t)
  \/ SendsData(t)
  \/ SendsEnd(t)
  \/ Removes(t)

Next ==
  \/ ClientNext
  \/ ReaderNext
  \/ ConnectReturns
  \/ \E t \in tasks : TaskNext(t)
  \/ Egress
  \/ EgressEnds
  \/ \E s \in Sids : RemoteSays(s) \/ RemoteCloses(s)

Spec == Init /\ [][Next]_vars

\* What the runtime guarantees: the reader, the egress pump and the tasks of
\* each stream are polled when they can go on.  A dial may take for ever: no
\* open_* has a time limit.
NodeFairness ==
  /\ WF_vars(ReaderNext)
  /\ WF_vars(Egress \/ EgressEnds)
  /\ \A s \in Sids : \A job \in {"pump", "write", "datagram", "fetch"} :
       WF_vars(\E t \in tasks : t.job = job /\ t.sid = s /\ TaskNext(t))

NodeSpec == Spec /\ NodeFairness

\* ... with dials that end and remote ends that, some day, hang up.
FairSpec ==
  NodeSpec /\ WF_vars(ConnectReturns) /\ \A s \in Sids : WF_vars(RemoteCloses(s))

-----------------------------------------------------------------------------
\* What is in the channel or has left, and the payload frames of one stream.
Out == wire \o chan
IsPayload(f, s) == f.sid = s /\ f.type \in {DATA, UDP}
PayloadsOut(s) == {i \in DOMAIN Out : IsPayload(Out[i], s)}

InHand(s) == {t.arg : t \in {u \in tasks : u.sid = s /\ u.job = "pump"
                                         /\ u.at = "send"}}

\* A raw stream's bytes reach the client in the order the remote sent them,
\* none twice and none left out, although they cross a mutex, a bounded
\* channel and a pump: its n-th payload frame carries the n-th chunk, and what
\* a pump still holds is the next.
DownInOrder ==
  \A s \in Raw :
    /\ \A i \in PayloadsOut(s) :
         LET n == Cardinality(PayloadsOut(s) \cap 1..i) IN
         n <= Len(Says[s]) /\ Out[i].body = Says[s][n]
    /\ egress = "running" =>
         LET n == taken[s] - Cardinality(InHand(s)) IN
         /\ Cardinality(PayloadsOut(s)) = n
         /\ InHand(s) = {Says[s][k] : k \in n + 1..taken[s]}

\* Each chunk the client sent on a raw stream is in exactly one place: on its
\* way, in the hands of one of the tasks that wait for the lock, with the
\* remote, or missed.  The tasks may take the lock in any order; none is lost
\* or doubled between them.  While its remote is there a TCP stream misses
\* nothing; what a UDP stream misses was too short or failed to be sent.
Writers(s) == {t \in tasks : t.sid = s /\ t.job \in {"write", "datagram"}}
Coming(s) == {i \in DOMAIN up : IsPayload(up[i], s)}
UpIsWhole ==
  \A s \in Raw : remote[s] = "open" /\ link # "lost" =>
    /\ Len(heard[s]) + Len(missed[s]) + Cardinality(Writers(s)) + Cardinality(Coming(s))
         = sent[s] - 1
    /\ ToSet(heard[s]) \cup ToSet(missed[s]) \cup {t.arg : t \in Writers(s)}
         \cup {up[i].body : i \in Coming(s)} = {Chunks[s][k] : k \in 1..sent[s] - 1}
    /\ Proto[s] = "tcp" => missed[s] = <<>>

\* END is the last frame of a stream, and a TCP stream's END comes after all
\* that its remote said.
EndIsTrue ==
  \A i \in DOMAIN Out : Out[i].type = END =>
    LET s == Out[i].sid IN
    /\ \A j \in DOMAIN Out : Out[j].sid = s => j <= i
    /\ Proto[s] = "tcp" => remote[s] = "closed" /\ taken[s] = said[s]

\* The map holds a raw stream exactly as long as its pump lives, or until the
\* client ends it: no dead entry stays behind, no live one is forgotten.
MapFollowsPumps ==
  \A s \in Raw :
    LET pumped == \E t \in tasks : t.job = "pump" /\ t.sid = s IN
    /\ s \in streams => pumped
    /\ pumped /\ s \notin streams => s \in ended

\* The client learns of every stream that is over: the remote hung up, or a
\* round trip was begun (and its remote answers or fails).
EndReachesClient ==
  \A s \in Sids :
    (\/ Proto[s] = "tcp" /\ remote[s] = "closed"
     \/ \E t \in tasks : t.job = "fetch" /\ t.sid = s)
      ~> (link # "open" \/ \E i \in DOMAIN wire : wire[i].sid = s /\ wire[i].type = END)

\* serve_conn returns once the client has gone: the pump it awaits ends,
\* because every sender is dropped some day.  (The remotes must hang up.)
Returns == link # "open" ~> reader = "returned"

\* main.rs:3: a connection "carries N multiplexed TCP/UDP streams".  On a TCP
\* stream a side may write before the other has said anything: DATA that was
\* accepted is written.
WritesGoOut ==
  \A s \in Sids :
    (\E t \in tasks : t.job = "write" /\ t.sid = s)
      ~> (link # "open" \/ ~\E t \in tasks : t.job = "write" /\ t.sid = s)

-----------------------------------------------------------------------------
\* The node as SwTunnel sees it.  L7Node takes a CONNECT when its open
\* returns, counts a request when its round trip is over, and forgets a stream
\* as it sends END.
L7Sids == Sids \ Raw
L7Kept == {f \in WireFrames : f.type = Hello \/ f.sid \in L7Sids}
L7Frames(q) == Select(q, L7Kept)
Awaited == IF cur = "none" THEN <<>> ELSE <<Frame(CONNECT, cur, Key, "none")>>
Fetches(s, ats) == {t \in tasks : t.job = "fetch" /\ t.sid = s /\ t.at \in ats}

L7Runs == [s \in L7Sids |->
             Len(heard[s]) - Cardinality(Fetches(s, {"read", "send"}))]

L7 == INSTANCE L7Node WITH
  Conns   <- {"ws"},
  Reqs    <- L7Sids,
  sock    <- [c \in {"ws"} |-> IF egress = "running" THEN "open" ELSE "closed"],
  up      <- [c \in {"ws"} |-> L7Frames(Awaited \o up)],
  down    <- [c \in {"ws"} |-> IF egress = "running" THEN L7Frames(wire \o chan)
                                                   ELSE <<>>],
  secured <- [c \in {"ws"} |-> mode = "sealed"],
  streams <- [c \in {"ws"} |->
                {s \in streams \cap L7Sids : Fetches(s, {"remove"}) = {}}],
  trips   <- [c \in {"ws"} |->
                {[sid |-> t.sid, req |-> t.sid, read |-> t.at = "end"] :
                   t \in {u \in tasks : u.job = "fetch" /\ u.at # "remove"}}],
  runs    <- L7Runs

\* What is not the node's doing: the client adds a message, what is on its
\* way is lost, the egress pump ends and nothing more arrives.
L7Ups == L7Frames(Awaited \o up)
L7Wire ==
  /\ UNCHANGED <<L7!nodeVars, L7Runs>>
  /\ IsPrefix(L7Ups, L7Ups') \/ IsPrefix(L7Ups', L7Ups)
  /\ egress' = "running" => L7Frames(wire' \o chan') = L7Frames(wire \o chan)

\* To a client that seals, each step of the reader, of a task and of the pump
\* is a step of L7Node, or none at all: the mutex, the channel and the raw
\* streams on the same connection change nothing for its fetches.
NodeSteps == [][client = "plain" \/ L7!NodeNext \/ L7Wire]_vars
=============================================================================
