------------------------------- MODULE L7Node -------------------------------
(***************************************************************************)
(* The node's side of L7 fetch mode (server/src/wisp.rs, protocol 3): the  *)
(* only mode the service worker uses.  One instance of serve_conn per      *)
(* WebSocket, each with its own key and its own map of streams.  The raw   *)
(* TCP and UDP modes, the mutexes and the egress channel are in WispNode.  *)
(*                                                                         *)
(* The reader loop awaits CONNECT inline, so the frames behind it wait:    *)
(* here, NodeConnect is the step that ends that wait and nothing forces    *)
(* it.  REQ spawns a task per request; tasks interleave freely.            *)
(***************************************************************************)
EXTENDS WispFrames

CONSTANTS Conns,   \* WebSockets the worker may open, one per connect attempt
          Reqs     \* requests the page may issue

VARIABLES sock,     \* sock[c]: readyState of c in the browser
          up,       \* up[c]: messages on their way to the node, in order
          down,     \* down[c]: messages on their way to the worker, in order
          secured,  \* secured[c]: the node answered the handshake of c
          streams,  \* streams[c]: the node's stream ids (DashMap<u32, _>)
          trips,    \* trips[c]: the L7 round trips in flight
          runs      \* runs[r]: how often the origin received request r

nodeVars == <<secured, streams, trips>>
wireVars == <<sock, up, down>>

SockStates == {"off", "connecting", "open", "closing", "closed"}

\* What a RES can carry: the whole response to a request, or bytes without
\* an end of header (the origin closed early, or answered another protocol).
Bodies == Reqs \cup {"junk"}

Frames == [type: FrameTypes, sid: Nat, key: Conns \cup {"none"},
           body: Bodies \cup {"none"}]

Trips == [sid: Nat, req: Bodies \cup {"none"}, read: BOOLEAN]

NodeTypeOK ==
  /\ sock \in [Conns -> SockStates]
  /\ up \in [Conns -> Seq(Frames)]
  /\ down \in [Conns -> Seq(Frames)]
  /\ secured \in [Conns -> BOOLEAN]
  /\ streams \in [Conns -> SUBSET Nat]
  /\ trips \in [Conns -> SUBSET Trips]
  /\ runs \in [Reqs -> Nat]

NodeInit ==
  /\ sock = [c \in Conns |-> "off"]
  /\ up = [c \in Conns |-> <<>>]
  /\ down = [c \in Conns |-> <<>>]
  /\ secured = [c \in Conns |-> FALSE]
  /\ streams = [c \in Conns |-> {}]
  /\ trips = [c \in Conns |-> {}]
  /\ runs = [r \in Reqs |-> 0]

-----------------------------------------------------------------------------
\* A message the node sends reaches the worker only while the socket is open.
NodeSend(c, frame) ==
  down' = IF sock[c] = "open" THEN [down EXCEPT ![c] = Append(@, frame)]
                              ELSE down

Consume(c) == up' = [up EXCEPT ![c] = Tail(@)]

\* The first text message: key exchange, answered with the node's key.
NodeHello(c) ==
  /\ ~secured[c]
  /\ IsHead(up[c], Hello)
  /\ Consume(c)
  /\ secured' = [secured EXCEPT ![c] = TRUE]
  /\ NodeSend(c, HelloFrame)
  /\ UNCHANGED <<sock, streams, trips, runs>>

\* A frame that does not authenticate under this connection's key is dropped.
NodeDrop(c) ==
  /\ secured[c]
  /\ up[c] # <<>>
  /\ ~Opens(c, Head(up[c]))
  /\ Consume(c)
  /\ UNCHANGED <<sock, down, nodeVars, runs>>

\* CONNECT: open_l7 ends.  A failure is a warning in the log, nothing more.
NodeConnect(c) ==
  /\ secured[c]
  /\ IsHead(up[c], CONNECT)
  /\ Opens(c, Head(up[c]))
  /\ Consume(c)
  /\ \/ streams' = [streams EXCEPT ![c] = @ \cup {Head(up[c]).sid}]
     \/ UNCHANGED streams
  /\ UNCHANGED <<sock, down, secured, trips, runs>>

\* REQ: spawn a round trip if the stream is there; otherwise ignore it.
NodeReq(c) ==
  LET f == Head(up[c]) IN
  /\ secured[c]
  /\ IsHead(up[c], REQ)
  /\ Opens(c, f)
  /\ Consume(c)
  /\ trips' = IF f.sid \in streams[c]
              THEN [trips EXCEPT ![c] =
                      @ \cup {[sid |-> f.sid, req |-> f.body, read |-> FALSE]}]
              ELSE trips
  /\ UNCHANGED <<sock, down, secured, streams, runs>>

\* The origin receives request r once more.
Run(r) == runs' = [runs EXCEPT ![r] = @ + 1]

\* Mutant of NodeRoundtrip: the completion is announced before the response.
NodeRoundtripSwapped(c, t) ==
  /\ t \in trips[c]
  /\ ~t.read
  /\ trips' = [trips EXCEPT ![c] = (@ \ {t}) \cup {[t EXCEPT !.read = TRUE]}]
  /\ Run(t.req)
  /\ down' = [down EXCEPT ![c] = @ \o <<Frame(END, t.sid, c, "none"),
                                        Frame(RES, t.sid, c, t.req)>>]
  /\ UNCHANGED <<sock, up, secured, streams>>

\* l7_roundtrip returned: the response read to its end, or bytes that are no
\* HTTP response, or nothing (and then the origin may have acted or not).
NodeRoundtrip(c, t) ==
  /\ t \in trips[c]
  /\ ~t.read
  /\ trips' = [trips EXCEPT ![c] = (@ \ {t}) \cup {[t EXCEPT !.read = TRUE]}]
  /\ \/ \E b \in {t.req, "junk"} :
          /\ Run(t.req)
          /\ NodeSend(c, Frame(RES, t.sid, c, b))
     \/ Run(t.req) /\ UNCHANGED down
     \/ UNCHANGED <<runs, down>>
  /\ UNCHANGED <<sock, up, secured, streams>>

\* ... then END is sent and the stream forgotten.
NodeEnd(c, t) ==
  /\ t \in trips[c]
  /\ t.read
  /\ trips' = [trips EXCEPT ![c] = @ \ {t}]
  /\ streams' = [streams EXCEPT ![c] = @ \ {t.sid}]
  /\ NodeSend(c, Frame(END, t.sid, c, "none"))
  /\ UNCHANGED <<sock, up, secured, runs>>

NodeNext ==
  \E c \in Conns :
    \/ NodeHello(c)
    \/ NodeDrop(c)
    \/ NodeConnect(c)
    \/ NodeReq(c)
    \/ \E t \in trips[c] : NodeRoundtrip(c, t) \/ NodeEnd(c, t)
=============================================================================
