------------------------------- MODULE Gateway -------------------------------
(***************************************************************************)
(* The control plane between the shell's windows and the service worker:   *)
(* which gateway the worker is told to connect to (App.tsx), its attempts  *)
(* and the tunnel it ends up with (sw.js), and what the windows show of    *)
(* it: the status bar (Chrome.tsx), the network feed and the counter of    *)
(* refusals (state.tsx).  The latency, a number in the pong, is left out.  *)
(*                                                                         *)
(* Windows and worker talk by messages, in order in each direction.  The   *)
(* inside of an attempt is SwTunnel's subject; here an attempt is under    *)
(* way until it succeeds or fails.                                         *)
(***************************************************************************)
EXTENDS Integers, Sequences, FiniteSets

CONSTANTS Windows,   \* the open windows of the shell
          Gateways,  \* the gateways a user may type
          None,      \* no gateway: the field is empty, or transport is polling
          Flaky,     \* the gateways that may refuse, or drop a connection
          MayStop,   \* whether the browser stops the worker
          Fetches,   \* the requests the worker intercepts
          Kind,      \* Kind[f]: "blocked", "mirrored" or "proxied"
          MaxPosts,  \* bound: changes of the settings
          MaxQueue   \* bound: messages under way to one receiver

ASSUME NoneAssumption == None \notin Gateways /\ Flaky \subseteq Gateways
ASSUME KindAssumption == Kind \in [Fetches -> {"blocked", "mirrored", "proxied"}]
ASSUME BoundAssumption ==
  MaxPosts \in Nat /\ MaxQueue \in Nat \ {0} /\ MayStop \in BOOLEAN

VARIABLES
  choice,      \* choice[w]: the gateway w's settings ask for, or None
  changes,     \* changes made so far
  controlled,  \* the windows that have the worker for a controller
  toWorker,    \* toWorker[w]: messages of w the worker has not handled
  tries,       \* the worker's attempts under way
  dialled,     \* attempts begun so far
  tunnel,      \* tunnel.ws: the attempt that was installed, or None
  sockets,     \* the connections that stand
  bodies,      \* mirrored fetches whose body is still being read for its size
  told,        \* told[w]: the fetches the worker answered while w was its client
  toWindow,    \* toWindow[w]: broadcasts on their way to w
  bar,         \* bar[w]: the transport w's status bar shows
  net,         \* net[w]: the fetches in w's feed
  blocked      \* blocked[w]: w's counter of blocked requests

settingsVars == <<choice, changes>>
tunnelVars == <<tries, dialled, tunnel, sockets>>
shownVars == <<bar, net, blocked>>
vars == <<settingsVars, controlled, toWorker, tunnelVars, bodies, told,
          toWindow, shownVars>>

Choices == Gateways \cup {None}

Ping == [type |-> "ping"]
Connect(g) == [type |-> "connect-tunnel", gateway |-> g]

Pong(how) == [type |-> "pong", transport |-> how]
TunnelMsg(how) == [type |-> "tunnel", transport |-> how]
Net(f) == [type |-> "net", fetch |-> f]
Untyped(f) == [type |-> "none", fetch |-> f]

\* A window mounts: its effects post to the controller of that moment, if
\* there is one.  On a first visit there is none yet.
Init ==
  /\ choice \in [Windows -> Choices] /\ changes = 0
  /\ controlled \in SUBSET Windows
  /\ toWorker = [w \in Windows |-> IF w \in controlled
                                   THEN <<Connect(choice[w])>> ELSE <<>>]
  /\ tries = {} /\ dialled = 0 /\ tunnel = None /\ sockets = {}
  /\ bodies = {} /\ told = [w \in Windows |-> {}]
  /\ toWindow = [w \in Windows |-> <<>>]
  /\ bar = [w \in Windows |-> "local"]
  /\ net = [w \in Windows |-> {}]
  /\ blocked = [w \in Windows |-> 0]

-----------------------------------------------------------------------------
\* The windows.

Posts(w, m) ==
  IF w \in controlled THEN /\ Len(toWorker[w]) < MaxQueue
                           /\ toWorker' = [toWorker EXCEPT ![w] = Append(@, m)]
                      ELSE UNCHANGED toWorker

\* Gateway or transport is changed; the effect posts what is asked for now.
ChangeSettings(w) ==
  /\ changes < MaxPosts
  /\ changes' = changes + 1
  /\ \E g \in Choices \ {choice[w]} :
       choice' = [choice EXCEPT ![w] = g] /\ Posts(w, Connect(g))
  /\ UNCHANGED <<controlled, tunnelVars, bodies, told, toWindow, shownVars>>

\* The 2.5 s probe of a window that has a controller.
Tick(w) ==
  /\ w \in controlled
  /\ Posts(w, Ping)
  /\ UNCHANGED <<settingsVars, controlled, tunnelVars, bodies, told, toWindow,
                 shownVars>>

\* activate: the worker claims the windows.  No effect of App.tsx runs again.
Claims ==
  /\ controlled # Windows
  /\ controlled' = Windows
  /\ UNCHANGED <<settingsVars, toWorker, tunnelVars, bodies, told, toWindow,
                 shownVars>>

\* Mutant of WindowReceives: the counter is counted from the feed.
WindowReceivesNoCount(w) ==
  /\ toWindow[w] # <<>>
  /\ toWindow' = [toWindow EXCEPT ![w] = Tail(@)]
  /\ LET m == Head(toWindow[w]) IN
     /\ bar' = IF m.type \in {"pong", "tunnel"}
               THEN [bar EXCEPT ![w] = m.transport] ELSE bar
     /\ net' = IF m.type = "net" THEN [net EXCEPT ![w] = @ \cup {m.fetch}] ELSE net
     /\ blocked' = IF m.type = "net"
                   THEN [blocked EXCEPT ![w] =
                           Cardinality({f \in net'[w] : Kind[f] = "blocked"})]
                   ELSE blocked
  /\ UNCHANGED <<settingsVars, controlled, toWorker, tunnelVars, bodies, told>>

\* onMsg of state.tsx and of the status bar: what carries no known type is
\* ignored.
WindowReceives(w) ==
  /\ toWindow[w] # <<>>
  /\ toWindow' = [toWindow EXCEPT ![w] = Tail(@)]
  /\ LET m == Head(toWindow[w]) IN
     /\ bar' = IF m.type \in {"pong", "tunnel"}
               THEN [bar EXCEPT ![w] = m.transport] ELSE bar
     /\ net' = IF m.type = "net" THEN [net EXCEPT ![w] = @ \cup {m.fetch}] ELSE net
     /\ blocked' = IF m.type = "net" /\ Kind[m.fetch] = "blocked"
                   THEN [blocked EXCEPT ![w] = @ + 1] ELSE blocked
  /\ UNCHANGED <<settingsVars, controlled, toWorker, tunnelVars, bodies, told>>

\* The trash button of the inspector empties the feed, not the counter.
NetClear(w) ==
  /\ net[w] # {}
  /\ net' = [net EXCEPT ![w] = {}]
  /\ UNCHANGED <<settingsVars, controlled, toWorker, tunnelVars, bodies, told,
                 toWindow, bar, blocked>>

-----------------------------------------------------------------------------
\* The worker.

\* broadcast: to every window the worker controls.
Broadcast(m) ==
  /\ \A w \in controlled : Len(toWindow[w]) < MaxQueue
  /\ toWindow' = [w \in Windows |-> IF w \in controlled THEN Append(toWindow[w], m)
                                                        ELSE toWindow[w]]

\* Mutant of Transport: the last answer to connect-tunnel is remembered.
TransportOfLastTry == IF dialled > 0 /\ tries = {} THEN "wisp-e2ee" ELSE "local"

Transport == IF tunnel # None THEN "wisp-e2ee" ELSE "local"

\* One message of a window.  No gateway answers "local" at once and leaves
\* whatever tunnel there is; else an attempt begins, beside those under way.
WorkerReceives(w) ==
  /\ toWorker[w] # <<>>
  /\ toWorker' = [toWorker EXCEPT ![w] = Tail(@)]
  /\ LET m == Head(toWorker[w]) IN
     \/ /\ m.type = "ping"
        /\ Broadcast(Pong(Transport))
        /\ UNCHANGED <<tries, dialled>>
     \/ /\ m.type = "connect-tunnel"
        /\ m.gateway = None
        /\ Broadcast(TunnelMsg("local"))
        /\ UNCHANGED <<tries, dialled>>
     \/ /\ m.type = "connect-tunnel"
        /\ m.gateway # None
        /\ dialled' = dialled + 1
        /\ tries' = tries \cup {[gw |-> m.gateway, n |-> dialled']}
        /\ UNCHANGED toWindow
  /\ UNCHANGED <<settingsVars, controlled, tunnel, sockets, bodies, told, shownVars>>

\* An attempt ends: its socket takes the place of the one that is there,
\* whichever gateway each leads to (and even if it closed before onclose was
\* set), or it leaves everything as it is.
AttemptEnds(a) ==
  /\ tries' = tries \ {a}
  /\ \/ /\ tunnel' = a
        /\ \/ sockets' = sockets \cup {a}
           \/ a.gw \in Flaky /\ UNCHANGED sockets
        /\ Broadcast(TunnelMsg("wisp-e2ee"))
     \/ /\ a.gw \in Flaky
        /\ Broadcast(TunnelMsg("local"))
        /\ UNCHANGED <<tunnel, sockets>>
  /\ UNCHANGED <<settingsVars, controlled, toWorker, dialled, bodies, told, shownVars>>

\* onclose of any socket that was installed, the replaced ones too, clears
\* tunnel.ws.  Nothing reconnects.
SocketCloses(a) ==
  /\ a.gw \in Flaky
  /\ sockets' = sockets \ {a}
  /\ tunnel' = None
  /\ UNCHANGED <<settingsVars, controlled, toWorker, tries, dialled, bodies, told,
                 toWindow, shownVars>>

\* The browser stops a worker that has no event to handle, whatever it still
\* waits for; the next message starts a fresh one.
WorkerStops ==
  /\ MayStop
  /\ tries # {} \/ tunnel # None \/ bodies # {}
  /\ tries' = {} /\ tunnel' = None /\ sockets' = {} /\ bodies' = {}
  /\ UNCHANGED <<settingsVars, controlled, toWorker, dialled, told, toWindow,
                 shownVars>>

Answered == UNION {told[w] : w \in Windows}

\* A request of a controlled page.  A refusal is reported at once; a mirrored
\* answer when a copy of its body has been read; what the proxy fetched in a
\* message without a type.
Intercepts(f) ==
  /\ f \notin Answered
  /\ controlled # {}
  /\ told' = [w \in Windows |-> IF w \in controlled THEN told[w] \cup {f} ELSE told[w]]
  /\ CASE Kind[f] = "blocked"  -> Broadcast(Net(f)) /\ UNCHANGED bodies
       [] Kind[f] = "proxied"  -> Broadcast(Untyped(f)) /\ UNCHANGED bodies
       [] Kind[f] = "mirrored" -> bodies' = bodies \cup {f} /\ UNCHANGED toWindow
  /\ UNCHANGED <<settingsVars, controlled, toWorker, tunnelVars, shownVars>>

BodyRead(f) ==
  /\ bodies' = bodies \ {f}
  /\ Broadcast(Net(f))
  /\ UNCHANGED <<settingsVars, controlled, toWorker, tunnelVars, told, shownVars>>

-----------------------------------------------------------------------------
Next ==
  \/ \E w \in Windows : ChangeSettings(w) \/ Tick(w) \/ WindowReceives(w)
                          \/ NetClear(w) \/ WorkerReceives(w)
  \/ Claims
  \/ \E a \in tries : AttemptEnds(a)
  \/ \E a \in sockets : SocketCloses(a)
  \/ WorkerStops
  \/ \E f \in Fetches : Intercepts(f)
  \/ \E f \in bodies : BodyRead(f)

Spec == Init /\ [][Next]_vars

\* Timers tick, messages arrive, attempts end (they have time limits), a body
\* that began to come is read, the worker claims its windows.
Fairness ==
  /\ \A w \in Windows : WF_vars(Tick(w)) /\ WF_vars(WindowReceives(w))
                          /\ SF_vars(WorkerReceives(w))
  /\ WF_vars(Claims)
  /\ SF_vars(\E a \in tries : AttemptEnds(a))
  /\ SF_vars(\E f \in bodies : BodyRead(f))

FairSpec == Spec /\ Fairness

-----------------------------------------------------------------------------
\* The status bar comes to show the transport the worker has: the answers to
\* connect-tunnel say "local" of an attempt that failed beside a tunnel that
\* stands, and say nothing of a tunnel that closed, but a pong follows.
BarCatchesUp ==
  \A w \in Windows :
    /\ <>[](tunnel # None) => <>[](bar[w] = "wisp-e2ee")
    /\ <>[](tunnel = None) => <>[](bar[w] = "local")

\* Each refusal is counted once in every window it is told to, however often
\* the feed is cleared: what is counted and what is still to come make up what
\* was refused.
Refused(w) == Cardinality({f \in told[w] : Kind[f] = "blocked"})
Coming(w) == {i \in DOMAIN toWindow[w] : toWindow[w][i].type = "net"
                                           /\ Kind[toWindow[w][i].fetch] = "blocked"}
CountedOnce ==
  \A w \in Windows : blocked[w] + Cardinality(Coming(w)) = Refused(w)
=============================================================================
