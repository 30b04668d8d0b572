------------------------------ MODULE SwTunnel ------------------------------
(***************************************************************************)
(* The service worker's encrypted tunnel (public/sw.js): connectTunnel,    *)
(* tunnelFetch, the socket handlers and proxyFetch's choice between the    *)
(* tunnel and the local path, composed with the node (L7Node).             *)
(*                                                                         *)
(* The worker is one thread, but every await lets other handlers run, so   *)
(* each function is cut at its awaits and a step is what runs between two  *)
(* of them.  Several connect attempts may be in flight: the shell posts    *)
(* connect-tunnel on every change of its settings and nothing serialises   *)
(* the handlers.  The key of an attempt is named by its connection.        *)
(*                                                                         *)
(* isBlocked, the first guard of proxyFetch, is in Shield: the requests     *)
(* here are the ones it lets through.                                      *)
(***************************************************************************)
EXTENDS L7Node

CONSTANT Bodied     \* the requests that carry a body (never GET or HEAD)

ASSUME BodiedAssumption == Bodied \subseteq Reqs
ASSUME TokensAssumption ==
  /\ "none" \notin Conns \cup Reqs
  /\ Reqs \cap {"junk", "null", "empty", "bad gateway"} = {}

VARIABLES
  conn,       \* conn[c]: where connectTunnel stands for attempt c
  tunnelWs,   \* tunnel.ws
  tunnelKey,  \* tunnel.key
  nextSid,    \* tunnel.sid
  pending,    \* tunnel.pending: one entry per sid, [sid, req, res]
  opening,    \* messages whose decryption has not resolved yet
  pc,         \* pc[r]: where proxyFetch stands for request r
  sidOf,      \* sidOf[r]: the sid tunnelFetch took for r (0: none)
  cap,        \* cap[r]: the key the tunnelSend in progress read, if any
  timer,      \* timer[r]: the 8 s timer of r is running
  out,        \* out[r]: what r's promise resolved with ("none": not yet)
  ans         \* ans[r]: what respondWith got ("none": nothing yet)

tunnelVars == <<tunnelWs, tunnelKey, nextSid, pending, opening>>
reqVars == <<pc, sidOf, cap, timer, out, ans>>
clientVars == <<conn, tunnelVars, reqVars>>
vars == <<wireVars, nodeVars, runs, clientVars>>

ConnStates == {"idle", "connecting", "hello", "deriving", "live", "failed"}
ReqStates == {"new", "body", "seal CONNECT", "seal REQ", "wait", "local",
              "done"}
Entries == [sid: Nat, req: Reqs, res: Bodies \cup {"none"}]

TypeOK ==
  /\ NodeTypeOK
  /\ conn \in [Conns -> ConnStates]
  /\ tunnelWs \in Conns \cup {"none"}
  /\ tunnelKey \in Conns \cup {"none"}
  /\ nextSid \in Nat \ {0}
  /\ pending \in SUBSET Entries
  /\ opening \in SUBSET Frames
  /\ pc \in [Reqs -> ReqStates]
  /\ sidOf \in [Reqs -> Nat]
  /\ cap \in [Reqs -> Conns \cup {"none"}]
  /\ timer \in [Reqs -> BOOLEAN]
  /\ out \in [Reqs -> Bodies \cup {"none", "null", "empty"}]
  /\ ans \in [Reqs -> Reqs \cup {"none", "bad gateway"}]

Init ==
  /\ NodeInit
  /\ conn = [c \in Conns |-> "idle"]
  /\ tunnelWs = "none"
  /\ tunnelKey = "none"
  /\ nextSid = 1
  /\ pending = {}
  /\ opening = {}
  /\ pc = [r \in Reqs |-> "new"]
  /\ sidOf = [r \in Reqs |-> 0]
  /\ cap = [r \in Reqs |-> "none"]
  /\ timer = [r \in Reqs |-> FALSE]
  /\ out = [r \in Reqs |-> "none"]
  /\ ans = [r \in Reqs |-> "none"]

-----------------------------------------------------------------------------
\* connectTunnel, and the handlers of its socket.

\* A connect-tunnel message with a gateway: new WebSocket(wsUrl).  (Without
\* a gateway connectTunnel returns false and touches nothing.)
Dial(c) ==
  /\ conn[c] = "idle"
  /\ conn' = [conn EXCEPT ![c] = "connecting"]
  /\ sock' = [sock EXCEPT ![c] = "connecting"]
  /\ UNCHANGED <<up, down, nodeVars, runs, tunnelVars, reqVars>>

\* The socket opens in time: send the hello.
Opened(c) ==
  /\ conn[c] = "connecting"
  /\ sock[c] = "connecting"
  /\ sock' = [sock EXCEPT ![c] = "open"]
  /\ conn' = [conn EXCEPT ![c] = "hello"]
  /\ up' = [up EXCEPT ![c] = Append(@, HelloFrame)]
  /\ UNCHANGED <<down, nodeVars, runs, tunnelVars, reqVars>>

\* The node's hello arrives in time; its key goes to the key derivation.
HelloAnswered(c) ==
  /\ conn[c] = "hello"
  /\ sock[c] = "open"
  /\ IsHead(down[c], Hello)
  /\ down' = [down EXCEPT ![c] = Tail(@)]
  /\ conn' = [conn EXCEPT ![c] = "deriving"]
  /\ UNCHANGED <<sock, up, nodeVars, runs, tunnelVars, reqVars>>

\* A 3 s timeout, an error event, or an answer that cannot be used: caught,
\* "tunnel unavailable", false.  The tunnel is left as it is, and so is the
\* socket: nobody closes it, and no handler is left that its later events
\* could reach.
ConnectFails(c) ==
  /\ conn[c] \in {"connecting", "hello", "deriving"}
  /\ conn' = [conn EXCEPT ![c] = "failed"]
  /\ UNCHANGED <<wireVars, nodeVars, runs, tunnelVars, reqVars>>

\* Mutants of Install: each new tunnel numbers its streams from 1 again, or
\* forgets the streams of the tunnel it replaces.
InstallFromOne(c) ==
  /\ conn[c] = "deriving"
  /\ conn' = [conn EXCEPT ![c] = "live"]
  /\ tunnelWs' = c /\ tunnelKey' = c /\ nextSid' = 1
  /\ UNCHANGED <<wireVars, nodeVars, runs, pending, opening, reqVars>>

InstallForgetful(c) ==
  /\ conn[c] = "deriving"
  /\ conn' = [conn EXCEPT ![c] = "live"]
  /\ tunnelWs' = c /\ tunnelKey' = c /\ pending' = {}
  /\ UNCHANGED <<wireVars, nodeVars, runs, nextSid, opening, reqVars>>

\* The key is derived: the new socket and key replace whatever was there,
\* and the message and close handlers are installed.
Install(c) ==
  /\ conn[c] = "deriving"
  /\ conn' = [conn EXCEPT ![c] = "live"]
  /\ tunnelWs' = c
  /\ tunnelKey' = c
  /\ UNCHANGED <<wireVars, nodeVars, runs, nextSid, pending, opening, reqVars>>

\* The connection goes down; what is on its way is lost.  (What the node read
\* before, it goes on working on.)
Closing(c) ==
  /\ conn[c] \in {"hello", "deriving", "live"}
  /\ sock[c] = "open"
  /\ sock' = [sock EXCEPT ![c] = "closing"]
  /\ up' = [up EXCEPT ![c] = <<>>]
  /\ down' = [down EXCEPT ![c] = <<>>]
  /\ UNCHANGED <<nodeVars, runs, clientVars>>

\* Mutant of OnClose: only the key is cleared.
OnCloseKeyOnly(c) ==
  /\ sock[c] = "closing"
  /\ sock' = [sock EXCEPT ![c] = "closed"]
  /\ tunnelKey' = IF conn[c] = "live" THEN "none" ELSE tunnelKey
  /\ UNCHANGED <<up, down, nodeVars, runs, conn, tunnelWs, nextSid, pending,
                 opening, reqVars>>

\* The close event.  The handler does not ask whose socket closed; before
\* Install there is none and the event is missed.
OnClose(c) ==
  /\ sock[c] = "closing"
  /\ sock' = [sock EXCEPT ![c] = "closed"]
  /\ IF conn[c] = "live"
     THEN tunnelWs' = "none" /\ tunnelKey' = "none"
     ELSE UNCHANGED <<tunnelWs, tunnelKey>>
  /\ UNCHANGED <<up, down, nodeVars, runs, conn, nextSid, pending,
                 opening, reqVars>>

-----------------------------------------------------------------------------
\* onmessage: decryption under the key of the moment, then the frame.

\* A message arrives on any installed socket.  Under another connection's
\* key it does not open; with no key its ciphertext is read as a frame, which
\* is noise.  Either way nothing comes of it.
OnMessage(c) ==
  /\ conn[c] = "live"
  /\ sock[c] = "open"
  /\ down[c] # <<>>
  /\ down' = [down EXCEPT ![c] = Tail(@)]
  /\ opening' = IF Opens(tunnelKey, Head(down[c]))
                THEN opening \cup {Head(down[c])}
                ELSE opening
  /\ UNCHANGED <<sock, up, nodeVars, runs, conn, tunnelWs, tunnelKey,
                 nextSid, pending, reqVars>>

Without(sid) == {p \in pending : p.sid # sid}

\* A promise keeps the first value it is resolved with.
Resolve(r, value) ==
  out' = IF out[r] = "none" THEN [out EXCEPT ![r] = value] ELSE out

\* The decryption of RES resolves: remember the payload.
OpenedRes(f) ==
  /\ f \in opening
  /\ f.type = RES
  /\ opening' = opening \ {f}
  /\ pending' = {IF p.sid = f.sid THEN [p EXCEPT !.res = f.body] ELSE p :
                   p \in pending}
  /\ UNCHANGED <<wireVars, nodeVars, runs, conn, tunnelWs, tunnelKey,
                 nextSid, reqVars>>

\* The decryption of END resolves: p.res, or no bytes at all.
OpenedEnd(f) ==
  /\ f \in opening
  /\ f.type = END
  /\ opening' = opening \ {f}
  /\ IF \E p \in pending : p.sid = f.sid
     THEN \E p \in pending :
            /\ p.sid = f.sid
            /\ pending' = Without(f.sid)
            /\ Resolve(p.req, IF p.res = "none" THEN "empty" ELSE p.res)
     ELSE UNCHANGED <<pending, out>>
  /\ UNCHANGED <<wireVars, nodeVars, runs, conn, tunnelWs, tunnelKey,
                 nextSid, pc, sidOf, cap, timer, ans>>

-----------------------------------------------------------------------------
\* proxyFetch and tunnelFetch, for one request.

Goto(r, state) == pc' = [pc EXCEPT ![r] = state]

\* tunnelFetch up to the first seal: take a sid, register it, start the
\* timer, and read the key for CONNECT.
TunnelFetch(r) ==
  IF tunnelWs = "none" \/ sock[tunnelWs] # "open"
  THEN /\ Goto(r, "local")
       /\ UNCHANGED <<nextSid, pending, sidOf, cap, timer>>
  ELSE /\ Goto(r, "seal CONNECT")
       /\ sidOf' = [sidOf EXCEPT ![r] = nextSid]
       /\ nextSid' = nextSid + 1
       /\ pending' = Without(nextSid) \cup
                       {[sid |-> nextSid, req |-> r, res |-> "none"]}
       /\ timer' = [timer EXCEPT ![r] = TRUE]
       /\ cap' = [cap EXCEPT ![r] = tunnelKey]

\* A fetch event on a proxied link.  A request with a body is read first.
ProxyFetch(r) ==
  /\ pc[r] = "new"
  /\ IF tunnelWs # "none" /\ r \in Bodied
     THEN /\ Goto(r, "body")
          /\ UNCHANGED <<nextSid, pending, sidOf, cap, timer>>
     ELSE TunnelFetch(r)
  /\ UNCHANGED <<wireVars, nodeVars, runs, conn, tunnelWs, tunnelKey,
                 opening, out, ans>>

BodyRead(r) ==
  /\ pc[r] = "body"
  /\ TunnelFetch(r)
  /\ UNCHANGED <<wireVars, nodeVars, runs, conn, tunnelWs, tunnelKey,
                 opening, out, ans>>

\* The second half of tunnelSend: the socket of the moment, whatever key the
\* first half read.  A socket that is closing discards what it is given.
SocketSend(frame) ==
  up' = IF sock[tunnelWs] = "open"
        THEN [up EXCEPT ![tunnelWs] = Append(@, frame)]
        ELSE up

\* CONNECT is sealed: send it and read the key for REQ.  With no socket left
\* the send throws, tunnelFetch returns null and the entry stays behind.
SealedConnect(r) ==
  /\ pc[r] = "seal CONNECT"
  /\ IF tunnelWs = "none"
     THEN Goto(r, "local") /\ cap' = [cap EXCEPT ![r] = "none"] /\ UNCHANGED up
     ELSE /\ SocketSend(Frame(CONNECT, sidOf[r], cap[r], "none"))
          /\ cap' = [cap EXCEPT ![r] = tunnelKey]
          /\ Goto(r, "seal REQ")
  /\ UNCHANGED <<sock, down, nodeVars, runs, conn, tunnelVars, sidOf,
                 timer, out, ans>>

SealedReq(r) ==
  /\ pc[r] = "seal REQ"
  /\ IF tunnelWs = "none"
     THEN Goto(r, "local") /\ UNCHANGED up
     ELSE /\ SocketSend(Frame(REQ, sidOf[r], cap[r], r))
          /\ Goto(r, "wait")
  /\ cap' = [cap EXCEPT ![r] = "none"]
  /\ UNCHANGED <<sock, down, nodeVars, runs, conn, tunnelVars, sidOf, timer,
                 out, ans>>

\* Mutant of TimerFires: the entry goes, the promise stays.
TimerFiresSilently(r) ==
  /\ timer[r]
  /\ timer' = [timer EXCEPT ![r] = FALSE]
  /\ pending' = Without(sidOf[r])
  /\ UNCHANGED <<wireVars, nodeVars, runs, conn, tunnelWs, tunnelKey, nextSid,
                 opening, pc, sidOf, cap, out, ans>>

\* The 8 s timer: null, if the stream is still pending.
TimerFires(r) ==
  /\ timer[r]
  /\ timer' = [timer EXCEPT ![r] = FALSE]
  /\ IF \E p \in pending : p.sid = sidOf[r]
     THEN pending' = Without(sidOf[r]) /\ Resolve(r, "null")
     ELSE UNCHANGED <<pending, out>>
  /\ UNCHANGED <<wireVars, nodeVars, runs, conn, tunnelWs, tunnelKey,
                 nextSid, opening, pc, sidOf, cap, ans>>

Answer(r, value) ==
  /\ ans' = [ans EXCEPT ![r] = value]
  /\ Goto(r, "done")

\* Mutants of Resume: the bytes are handed on unparsed, or no bytes at all
\* count as an empty page.
ResumeUnparsed(r) ==
  /\ pc[r] = "wait"
  /\ out[r] # "none"
  /\ Answer(r, out[r])
  /\ UNCHANGED <<wireVars, nodeVars, runs, conn, tunnelVars, sidOf, cap,
                 timer, out>>

ResumeEmptyPage(r) ==
  /\ pc[r] = "wait"
  /\ out[r] # "none"
  /\ IF out[r] \in {r, "empty"} THEN Answer(r, r)
                                ELSE Goto(r, "local") /\ UNCHANGED ans
  /\ UNCHANGED <<wireVars, nodeVars, runs, conn, tunnelVars, sidOf, cap,
                 timer, out>>

\* The promise of tunnelFetch is there.  Only bytes with an HTTP header are a
\* response; anything else is null and sends proxyFetch on to the local path.
Resume(r) ==
  /\ pc[r] = "wait"
  /\ out[r] # "none"
  /\ IF out[r] \in Reqs THEN Answer(r, out[r])
                        ELSE Goto(r, "local") /\ UNCHANGED ans
  /\ UNCHANGED <<wireVars, nodeVars, runs, conn, tunnelVars, sidOf, cap,
                 timer, out>>

\* Mutant of LocalFetch: the bytes read for the tunnel are sent again.
LocalFetchReplay(r) ==
  /\ pc[r] = "local"
  /\ Run(r)
  /\ Answer(r, r)
  /\ UNCHANGED <<wireVars, nodeVars, conn, tunnelVars, sidOf, cap, timer, out>>

\* fetch(target) from the worker itself.  A request with a body is refused
\* by the browser here: its stream was consumed, or (unread) is passed without
\* a duplex option.  Another one reaches its origin, or fails on the way.
LocalFetch(r) ==
  /\ pc[r] = "local"
  /\ \/ r \notin Bodied /\ Run(r) /\ Answer(r, r)
     \/ r \notin Bodied /\ Run(r) /\ Answer(r, "bad gateway")
     \/ UNCHANGED runs /\ Answer(r, "bad gateway")
  /\ UNCHANGED <<wireVars, nodeVars, conn, tunnelVars, sidOf, cap,
                 timer, out>>

-----------------------------------------------------------------------------
ConnNext(c) ==
  \/ Dial(c)
  \/ Opened(c)
  \/ HelloAnswered(c)
  \/ ConnectFails(c)
  \/ Install(c)
  \/ Closing(c)
  \/ OnClose(c)
  \/ OnMessage(c)

ReqNext(r) ==
  \/ ProxyFetch(r)
  \/ BodyRead(r)
  \/ SealedConnect(r)
  \/ SealedReq(r)
  \/ TimerFires(r)
  \/ Resume(r)
  \/ LocalFetch(r)

Next ==
  \/ \E c \in Conns : ConnNext(c)
  \/ \E f \in opening : OpenedRes(f) \/ OpenedEnd(f)
  \/ \E r \in Reqs : ReqNext(r)
  \/ NodeNext /\ UNCHANGED clientVars

Spec == Init /\ [][Next]_vars

\* What the browser guarantees: the cipher's promises settle, timers fire and
\* what is awaited goes on once it is there.  The node, the network, the origin
\* of the local path and the page that streams a body promise nothing.
RequestFairness(r) ==
  /\ WF_vars(SealedConnect(r))
  /\ WF_vars(SealedReq(r))
  /\ WF_vars(TimerFires(r))
  /\ WF_vars(Resume(r))

FairSpec == Spec /\ \A r \in Reqs : RequestFairness(r)

-----------------------------------------------------------------------------
\* The page never gets the response to another request: sids are not reused
\* within a worker's life and frames of another connection do not open.
OwnResponse == \A r \in Reqs : ans[r] \in {"none", "bad gateway", r}

\* Nothing but the handshake leaves in the clear, although tunnelSend reads
\* the key before its await and the socket after it.
SealedOnWire ==
  \A c \in Conns : \A f \in Contents(up[c]) : f.type # Hello => f.key # "none"

\* A request with a body reaches its origin at most once, although a request
\* the tunnel gave up on may still be running at the node when the worker
\* turns to the local path.
BodyOnce == \A r \in Bodied : runs[r] <= 1

\* Whoever waits for the tunnel is registered under its own sid and has its
\* timer running: no order of messages, closes and reconnects takes an entry
\* away without settling it.
NoOrphan ==
  \A r \in Reqs :
    (pc[r] \in {"seal CONNECT", "seal REQ", "wait"} /\ out[r] = "none")
      => /\ timer[r]
         /\ \E p \in pending : p.sid = sidOf[r] /\ p.req = r

\* The node's last word on a stream is END: whatever the tasks' order, no
\* frame of that stream follows it on the same connection.
EndIsLast ==
  \A c \in Conns : \A i, j \in DOMAIN down[c] :
    i < j /\ down[c][i].type = END => down[c][i].sid # down[c][j].sid

\* The tunnel keeps no request: tunnelFetch ends, with a response or with null
\* and then on the local path, even if the node, the network and later connect
\* attempts do nothing or everything.  What fetch(target) makes of it there has
\* no timeout, and nothing is claimed of it.
TunnelLetsGo ==
  \A r \in Reqs :
    pc[r] \in {"seal CONNECT", "seal REQ", "wait"} ~> pc[r] \in {"local", "done"}

\* wisp.rs:8 and 12: END means "response complete", RES carries the "full
\* HTTP response": END never settles a request while the RES that came before
\* it is still being decrypted.
EndMeansComplete ==
  [][\A r \in Reqs :
       out[r] = "none" /\ out'[r] = "empty"
         => \A f \in opening : f.type = RES => f.sid # sidOf[r]]_vars

-----------------------------------------------------------------------------
\* What the page is promised, and the worker's state seen as the promise's.
StageOf(state) ==
  CASE state = "new"  -> "new"
    [] state = "done" -> "answered"
    [] OTHER          -> "taken"

Stages == [r \in Reqs |-> StageOf(pc[r])]

Promise == INSTANCE FetchPromise WITH stage <- Stages, answer <- ans

\* SwTunnel implements FetchPromise: every step of the worker, of the node
\* and of the network is a step of the promise or invisible to the page.
KeepsPromise == Promise!Spec

-----------------------------------------------------------------------------
\* The strengthening that makes OwnResponse inductive, in parts.

\* A sid names one request, from the moment tunnelFetch takes it.
SidsUnique ==
  /\ \A r \in Reqs : sidOf[r] < nextSid
  /\ \A r, q \in Reqs : sidOf[r] = sidOf[q] /\ sidOf[r] # 0 => r = q
  /\ \A r \in Reqs : pc[r] \in {"new", "body"} => sidOf[r] = 0
  /\ \A r \in Reqs : pc[r] \in {"seal CONNECT", "seal REQ"} => sidOf[r] # 0

\* A frame that carries or answers a request bears the sid of that request.
Labelled(f) ==
  /\ f.type = REQ => f.body \in Reqs
  /\ f.type = RES => f.body \in Bodies
  /\ f.type \in {REQ, RES} /\ f.body \in Reqs
       => f.sid = sidOf[f.body] /\ f.sid # 0

FramesLabelled ==
  /\ \A c \in Conns : \A f \in Contents(up[c]) : Labelled(f)
  /\ \A c \in Conns : \A f \in Contents(down[c]) : Labelled(f)
  /\ \A f \in opening : Labelled(f)
  /\ \A c \in Conns : \A t \in trips[c] :
       t.req \in Reqs /\ t.sid = sidOf[t.req] /\ t.sid # 0

\* An entry of tunnel.pending belongs to the request its sid names, and holds
\* nothing but that request's response.
EntriesOwned ==
  \A p \in pending :
    p.sid = sidOf[p.req] /\ p.sid # 0 /\ p.res \in {"none", "junk", p.req}

ResultsOwned ==
  /\ \A r \in Reqs : out[r] \in {"none", "null", "empty", "junk", r}
  /\ OwnResponse

StreamIdentity ==
  SidsUnique /\ FramesLabelled /\ EntriesOwned /\ ResultsOwned

\* Key and socket go together, and whoever seals has read a key.
KeyWithSocket ==
  /\ tunnelWs = tunnelKey
  /\ \A r \in Reqs : pc[r] \in {"seal CONNECT", "seal REQ"} => cap[r] # "none"

-----------------------------------------------------------------------------
\* The strengthening behind BodyOnce and KeepsPromise: the tunnel carries a
\* request at most once, as a REQ frame or as a round trip not yet made, and
\* only after it was handed to tunnelFetch.

Unsent == {"new", "body", "seal CONNECT", "seal REQ"}

Carries(f, r) == f.type = REQ /\ f.body = r
Makes(t, r) == ~t.read /\ t.req = r

Carried(r) ==
  \/ \E c \in Conns : \E f \in Contents(up[c]) : Carries(f, r)
  \/ \E c \in Conns : \E t \in trips[c] : Makes(t, r)

\* How often the local path may have reached the origin for r.
Local(r) == IF pc[r] = "done" /\ r \notin Bodied THEN 1 ELSE 0

RunsBounded ==
  \A r \in Reqs :
    /\ pc[r] \in Unsent => ~Carried(r) /\ runs[r] = 0
    /\ Carried(r) => runs[r] <= Local(r)
    /\ runs[r] <= Local(r) + 1

OneCarrier ==
  \A r \in Reqs : \A c, d \in Conns :
    /\ \A i \in 1..Len(up[c]), j \in 1..Len(up[d]) :
         Carries(up[c][i], r) /\ Carries(up[d][j], r) => c = d /\ i = j
    /\ \A f \in Contents(up[c]), t \in trips[d] : ~(Carries(f, r) /\ Makes(t, r))
    /\ \A t \in trips[c], u \in trips[d] :
         Makes(t, r) /\ Makes(u, r) => c = d /\ t = u

TunnelOnce == RunsBounded /\ OneCarrier

\* A response exists only for a request the origin received.
Earned(b) == b \in Reqs => runs[b] > 0

ResponsesEarned ==
  /\ \A c \in Conns : \A f \in Contents(down[c]) : f.type = RES => Earned(f.body)
  /\ \A f \in opening : f.type = RES => Earned(f.body)
  /\ \A p \in pending : Earned(p.res)
  /\ \A r \in Reqs : Earned(out[r]) /\ Earned(ans[r])

\* The strengthening behind EndIsLast: a stream is asked for once, served by
\* one round trip and ended by one END, in that order.
ServedOnce ==
  \A c, d \in Conns :
    /\ \A t \in trips[c] : pc[t.req] \notin Unsent
    /\ \A f \in Contents(down[c]) : f.type = END =>
         \E r \in Reqs : f.sid = sidOf[r] /\ f.sid # 0 /\ pc[r] \notin Unsent
    /\ \A f \in Contents(up[c]) : f.type = REQ =>
         /\ \A t \in trips[d] : t.sid # f.sid
         /\ \A g \in Contents(down[d]) : g.type = END => g.sid # f.sid
    /\ \A t \in trips[c] :
         /\ \A u \in trips[d] : t.sid = u.sid => c = d /\ t = u
         /\ \A g \in Contents(down[d]) : g.type = END => g.sid # t.sid

\* What a step of the system is proved to carry from one state to the next:
\* sids name requests, keys go with sockets, nothing is carried or served
\* twice, and no response comes from nowhere.
Inductive ==
  StreamIdentity /\ KeyWithSocket /\ TunnelOnce /\ ResponsesEarned /\ ServedOnce
=============================================================================
