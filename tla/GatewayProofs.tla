---------------------------- MODULE GatewayProofs ----------------------------
(***************************************************************************)
(* The counter of refusals, for every set of windows and of requests: what *)
(* a window counted and what is still on its way to it make up what was    *)
(* refused while the worker controlled it.                                 *)
(*                                                                         *)
(* CountedOnce is not inductive: that a body whose copy is read is not a   *)
(* refusal, and that what a window is told of is told of once, is what     *)
(* Inductive adds.                                                         *)
(***************************************************************************)
EXTENDS Gateway, FiniteSetTheorems, TLAPS

Transports == {"local", "wisp-e2ee"}
Broadcasts == [type : {"pong", "tunnel"}, transport : Transports]
                \cup [type : {"net", "none"}, fetch : Fetches]

TypeOK ==
  /\ controlled \in SUBSET Windows
  /\ toWindow \in [Windows -> Seq(Broadcasts)]
  /\ blocked \in [Windows -> Nat]
  /\ net \in [Windows -> SUBSET Fetches]
  /\ told \in [Windows -> SUBSET Fetches]
  /\ \A w \in Windows : IsFiniteSet(told[w])

\* The worker reads the copy of a mirrored answer only.
BodiesAreMirrored == \A f \in bodies : f \in Fetches /\ Kind[f] = "mirrored"

Inductive == TypeOK /\ BodiesAreMirrored /\ CountedOnce

-----------------------------------------------------------------------------
\* Refusals among the messages of a queue, and how they are counted.

IsRefusal(m) == m.type = "net" /\ Kind[m.fetch] = "blocked"
Refusals(q) == {i \in DOMAIN q : IsRefusal(q[i])}

LEMMA RefusalsFinite ==
  ASSUME NEW q \in Seq(Broadcasts)
  PROVE  IsFiniteSet(Refusals(q)) /\ Cardinality(Refusals(q)) \in Nat
<1>1. Refusals(q) \in SUBSET (1..Len(q))
  BY DEF Refusals
<1>2. IsFiniteSet(1..Len(q))
  BY FS_Interval
<1> QED
  BY <1>1, <1>2, FS_Subset, FS_CardinalityType

LEMMA RefusalsAppend ==
  ASSUME NEW q \in Seq(Broadcasts), NEW m \in Broadcasts
  PROVE  Cardinality(Refusals(Append(q, m))) =
           Cardinality(Refusals(q)) + (IF IsRefusal(m) THEN 1 ELSE 0)
<1> DEFINE n == Len(q) + 1
<1>1. /\ DOMAIN Append(q, m) = 1..n /\ DOMAIN q = 1..Len(q) /\ Len(q) \in Nat
      /\ \A i \in 1..Len(q) : Append(q, m)[i] = q[i]
      /\ Append(q, m)[n] = m
  OBVIOUS
<1> HIDE DEF IsRefusal
<1>2. Refusals(Append(q, m)) = IF IsRefusal(m) THEN Refusals(q) \cup {n} ELSE Refusals(q)
  <2>1. \A i : i \in 1..n <=> i \in 1..Len(q) \/ i = n
    BY <1>1
  <2> HIDE DEF n
  <2> QED
    BY <1>1, <2>1 DEF Refusals
<1>3. n \notin Refusals(q)
  BY <1>1 DEF Refusals
<1>4. IsFiniteSet(Refusals(q)) /\ Cardinality(Refusals(q)) \in Nat
  BY RefusalsFinite
<1> HIDE DEF n, Refusals, IsRefusal
<1>5. Cardinality(Refusals(q) \cup {n}) = Cardinality(Refusals(q)) + 1
  BY <1>3, <1>4, FS_AddElement
<1> QED
  BY <1>2, <1>4, <1>5

LEMMA RefusalsTail ==
  ASSUME NEW q \in Seq(Broadcasts), q # <<>>
  PROVE  Cardinality(Refusals(q)) =
           Cardinality(Refusals(Tail(q))) + (IF IsRefusal(Head(q)) THEN 1 ELSE 0)
<1>1. /\ DOMAIN Tail(q) = 1..(Len(q) - 1) /\ DOMAIN q = 1..Len(q) /\ Len(q) \in Nat \ {0}
      /\ \A i \in 1..(Len(q) - 1) : Tail(q)[i] = q[i + 1]
      /\ Head(q) = q[1] /\ Tail(q) \in Seq(Broadcasts)
  OBVIOUS
<1> DEFINE Rest == Refusals(q) \ {1}
           shift == [i \in Refusals(Tail(q)) |-> i + 1]
<1>2. Rest = {i \in 2..Len(q) : IsRefusal(q[i])}
  BY <1>1 DEF Refusals
<1>3. Refusals(Tail(q)) = {i \in 1..(Len(q) - 1) : IsRefusal(q[i + 1])}
  BY <1>1 DEF Refusals
<1>4. shift \in Bijection(Refusals(Tail(q)), Rest)
  <2> HIDE DEF IsRefusal
  <2>1. \A i \in Refusals(Tail(q)) : shift[i] = i + 1 /\ i \in Nat
    BY <1>3, <1>1
  <2>2. \A i \in Refusals(Tail(q)) : i + 1 \in Rest
    BY <1>2, <1>3, <1>1
  <2>3. \A j \in Rest : j - 1 \in Refusals(Tail(q)) /\ j = (j - 1) + 1
    BY <1>2, <1>3, <1>1
  <2> HIDE DEF Rest
  <2>4. shift \in [Refusals(Tail(q)) -> Rest]
    BY <2>2
  <2> HIDE DEF shift
  <2>5. \A i, j \in Refusals(Tail(q)) : shift[i] = shift[j] => i = j
    BY <2>1
  <2>6. \A j \in Rest : \E i \in Refusals(Tail(q)) : shift[i] = j
    BY <2>1, <2>3
  <2> QED
    BY <2>4, <2>5, <2>6 DEF Bijection, Injection, Surjection, IsInjective
<1>5. Cardinality(Rest) = Cardinality(Refusals(Tail(q)))
  BY <1>1, <1>4, RefusalsFinite, FS_Bijection DEF ExistsBijection
<1>6. 1 \in Refusals(q) <=> IsRefusal(Head(q))
  BY <1>1 DEF Refusals
<1>7. Cardinality(Rest) = IF 1 \in Refusals(q) THEN Cardinality(Refusals(q)) - 1
                                               ELSE Cardinality(Refusals(q))
  BY RefusalsFinite, FS_RemoveElement
<1>8. Cardinality(Refusals(q)) \in Nat /\ Cardinality(Refusals(Tail(q))) \in Nat
  BY <1>1, RefusalsFinite
<1> HIDE DEF Rest
<1> QED
  BY <1>5, <1>6, <1>7, <1>8

\* What a window is refused, one request at a time.
LEMMA RefusedFinite ==
  ASSUME TypeOK, NEW w \in Windows
  PROVE  IsFiniteSet({f \in told[w] : Kind[f] = "blocked"}) /\ Refused(w) \in Nat
<1>1. {f \in told[w] : Kind[f] = "blocked"} \in SUBSET told[w]
  OBVIOUS
<1> QED
  BY <1>1, FS_Subset, FS_CardinalityType DEF TypeOK, Refused

\* The two sides of CountedOnce for one window.
LEMMA ComingIs == \A w : Coming(w) = Refusals(toWindow[w])
BY DEF Coming, Refusals, IsRefusal

LEMMA ComingIsPrimed == \A w : Coming(w)' = Refusals(toWindow'[w])
BY DEF Coming, Refusals, IsRefusal

-----------------------------------------------------------------------------
\* A broadcast reaches the windows the worker controls and no other.
LEMMA Broadcasting ==
  ASSUME TypeOK, NEW m \in Broadcasts, Broadcast(m)
  PROVE  /\ toWindow' \in [Windows -> Seq(Broadcasts)]
         /\ \A w \in Windows :
              Cardinality(Coming(w)') =
                Cardinality(Coming(w))
                  + (IF w \in controlled /\ IsRefusal(m) THEN 1 ELSE 0)
<1>1. toWindow' = [w \in Windows |-> IF w \in controlled THEN Append(toWindow[w], m)
                                                       ELSE toWindow[w]]
  BY DEF Broadcast
<1>2. \A w \in Windows : toWindow[w] \in Seq(Broadcasts)
  BY DEF TypeOK
<1>3. toWindow' \in [Windows -> Seq(Broadcasts)]
  BY <1>1, <1>2
<1>4. ASSUME NEW w \in Windows
      PROVE  Cardinality(Coming(w)') =
               Cardinality(Coming(w)) + (IF w \in controlled /\ IsRefusal(m) THEN 1 ELSE 0)
  <2> HIDE DEF IsRefusal
  <2>1. Cardinality(Coming(w)) \in Nat
    BY <1>2, RefusalsFinite, ComingIs
  <2>2. CASE w \in controlled
    <3>1. toWindow'[w] = Append(toWindow[w], m)
      BY <1>1, <2>2
    <3> QED
      BY <3>1, <2>2, <1>2, RefusalsAppend, ComingIs, ComingIsPrimed
  <2>3. CASE w \notin controlled
    <3>1. toWindow'[w] = toWindow[w]
      BY <1>1, <2>3
    <3> QED
      BY <3>1, <2>3, <2>1, ComingIs, ComingIsPrimed
  <2> QED
    BY <2>2, <2>3
<1> QED
  BY <1>3, <1>4

\* A message that is no refusal changes no count.
LEMMA OtherMessage ==
  ASSUME Inductive, NEW m \in Broadcasts, ~ IsRefusal(m), Broadcast(m),
         UNCHANGED <<told, blocked, net>>
  PROVE  toWindow' \in [Windows -> Seq(Broadcasts)] /\ CountedOnce'
<1>1. TypeOK /\ CountedOnce
  BY DEF Inductive
<1>2. toWindow' \in [Windows -> Seq(Broadcasts)]
  BY <1>1, Broadcasting
<1>3. \A w \in Windows : Cardinality(Coming(w)') = Cardinality(Coming(w))
  <2>1. \A w \in Windows : Cardinality(Coming(w)) \in Nat
    BY <1>1, RefusalsFinite, ComingIs DEF TypeOK
  <2> QED
    BY <1>1, <2>1, Broadcasting
<1>4. \A w \in Windows : Refused(w)' = Refused(w)
  BY DEF Refused
<1> QED
  BY <1>1, <1>2, <1>3, <1>4 DEF CountedOnce

LEMMA MessageTypes ==
  /\ \A how \in Transports : Pong(how) \in Broadcasts /\ ~ IsRefusal(Pong(how))
                               /\ TunnelMsg(how) \in Broadcasts /\ ~ IsRefusal(TunnelMsg(how))
  /\ \A f \in Fetches : /\ Net(f) \in Broadcasts /\ Untyped(f) \in Broadcasts
                        /\ ~ IsRefusal(Untyped(f))
                        /\ IsRefusal(Net(f)) <=> Kind[f] = "blocked"
BY DEF Pong, TunnelMsg, Net, Untyped, Broadcasts, Transports, IsRefusal

-----------------------------------------------------------------------------
\* The steps.

LEMMA InductiveInit == Init => Inductive
<1> SUFFICES ASSUME Init PROVE Inductive
  OBVIOUS
<1>1. TypeOK
  BY FS_EmptySet DEF Init, TypeOK
<1>2. BodiesAreMirrored
  BY DEF Init, BodiesAreMirrored
<1>3. CountedOnce
  <2> SUFFICES ASSUME NEW w \in Windows
               PROVE  blocked[w] + Cardinality(Coming(w)) = Refused(w)
    BY DEF CountedOnce
  <2>1. Coming(w) = {} /\ {f \in told[w] : Kind[f] = "blocked"} = {} /\ blocked[w] = 0
    BY DEF Init, Coming
  <2> QED
    BY <2>1, FS_EmptySet DEF Refused
<1> QED
  BY <1>1, <1>2, <1>3 DEF Inductive

LEMMA WindowReceivesStep ==
  ASSUME Inductive, NEW w \in Windows, WindowReceives(w)
  PROVE  Inductive'
<1> USE DEF Inductive
<1> DEFINE m == Head(toWindow[w])
<1>1. /\ toWindow[w] \in Seq(Broadcasts) /\ toWindow[w] # <<>>
      /\ m \in Broadcasts /\ Tail(toWindow[w]) \in Seq(Broadcasts)
  BY DEF TypeOK, WindowReceives
<1>2. m.type = "net" => m.fetch \in Fetches
  BY <1>1 DEF Broadcasts
<1>3. /\ toWindow' = [toWindow EXCEPT ![w] = Tail(@)]
      /\ net' = IF m.type = "net" THEN [net EXCEPT ![w] = @ \cup {m.fetch}] ELSE net
      /\ blocked' = IF IsRefusal(m) THEN [blocked EXCEPT ![w] = @ + 1] ELSE blocked
      /\ told' = told /\ bodies' = bodies /\ controlled' = controlled
  BY DEF WindowReceives, IsRefusal, settingsVars, tunnelVars
<1> HIDE DEF m, IsRefusal
<1>4. TypeOK'
  <2>1. toWindow' \in [Windows -> Seq(Broadcasts)]
    BY <1>1, <1>3 DEF TypeOK
  <2>2. net' \in [Windows -> SUBSET Fetches]
    BY <1>2, <1>3 DEF TypeOK
  <2>3. blocked' \in [Windows -> Nat]
    BY <1>3 DEF TypeOK
  <2> QED
    BY <1>3, <2>1, <2>2, <2>3 DEF TypeOK
<1>5. BodiesAreMirrored'
  BY <1>3 DEF BodiesAreMirrored
<1>6. ASSUME NEW v \in Windows
      PROVE  blocked'[v] + Cardinality(Coming(v)') = Refused(v)'
  <2>1. Refused(v)' = Refused(v)
    BY <1>3 DEF Refused
  <2>2. blocked[v] + Cardinality(Coming(v)) = Refused(v)
    BY DEF CountedOnce
  <2>3. CASE v # w
    <3>1. toWindow'[v] = toWindow[v] /\ blocked'[v] = blocked[v]
      BY <1>3, <2>3 DEF TypeOK
    <3> QED
      BY <2>1, <2>2, <3>1, ComingIs, ComingIsPrimed
  <2>4. CASE v = w
    <3>1. toWindow'[w] = Tail(toWindow[w])
      BY <1>3 DEF TypeOK
    <3>2. blocked'[w] = blocked[w] + (IF IsRefusal(m) THEN 1 ELSE 0) /\ blocked[w] \in Nat
      BY <1>3 DEF TypeOK
    <3>3. Cardinality(Refusals(toWindow[w])) =
            Cardinality(Refusals(toWindow'[w])) + (IF IsRefusal(m) THEN 1 ELSE 0)
      BY <1>1, <3>1, RefusalsTail DEF m
    <3>4. Cardinality(Refusals(toWindow'[w])) \in Nat
      BY <1>1, <3>1, RefusalsFinite
    <3>5. Cardinality(Coming(w)') = Cardinality(Refusals(toWindow'[w]))
          /\ Cardinality(Coming(w)) = Cardinality(Refusals(toWindow[w]))
      BY ComingIs, ComingIsPrimed
    <3> QED
      BY <2>1, <2>2, <2>4, <3>2, <3>3, <3>4, <3>5
  <2> QED
    BY <2>3, <2>4
<1> QED
  BY <1>4, <1>5, <1>6 DEF CountedOnce

\* What leaves the counts and the queues to the windows alone.
LEMMA Quiet ==
  ASSUME Inductive, UNCHANGED <<told, toWindow, blocked>>,
         controlled' \in SUBSET Windows, net' \in [Windows -> SUBSET Fetches],
         bodies' \subseteq bodies
  PROVE  Inductive'
<1>1. TypeOK'
  BY DEF Inductive, TypeOK
<1>2. BodiesAreMirrored'
  BY DEF Inductive, BodiesAreMirrored
<1>3. CountedOnce'
  BY DEF Inductive, CountedOnce, Coming, Refused
<1> QED
  BY <1>1, <1>2, <1>3 DEF Inductive

\* What broadcasts something else than a refusal.
LEMMA Told ==
  ASSUME Inductive, NEW m \in Broadcasts, ~ IsRefusal(m), Broadcast(m),
         UNCHANGED <<told, blocked, net, controlled>>, bodies' \subseteq bodies
  PROVE  Inductive'
<1>1. toWindow' \in [Windows -> Seq(Broadcasts)] /\ CountedOnce'
  BY OtherMessage
<1>2. TypeOK'
  BY <1>1 DEF Inductive, TypeOK
<1>3. BodiesAreMirrored'
  BY DEF Inductive, BodiesAreMirrored
<1> QED
  BY <1>1, <1>2, <1>3 DEF Inductive

LEMMA InterceptsStep ==
  ASSUME Inductive, NEW f \in Fetches, Intercepts(f)
  PROVE  Inductive'
<1> USE DEF Inductive
<1>1. /\ f \notin Answered
      /\ told' = [w \in Windows |-> IF w \in controlled THEN told[w] \cup {f} ELSE told[w]]
      /\ controlled' = controlled /\ blocked' = blocked /\ net' = net
  BY DEF Intercepts, shownVars
<1>2. Kind[f] \in {"blocked", "mirrored", "proxied"}
  BY KindAssumption
<1>3. \A w \in Windows : f \notin told[w]
  BY <1>1 DEF Answered
<1>4. told' \in [Windows -> SUBSET Fetches] /\ \A w \in Windows : IsFiniteSet(told'[w])
  <2>1. told' \in [Windows -> SUBSET Fetches]
    BY <1>1 DEF TypeOK
  <2>2. \A w \in Windows : told'[w] = told[w] \cup {f} \/ told'[w] = told[w]
    BY <1>1
  <2>3. \A w \in Windows : IsFiniteSet(told[w]) /\ IsFiniteSet(told[w] \cup {f})
    <3>1. \A w \in Windows : IsFiniteSet(told[w])
      BY DEF TypeOK
    <3> QED
      BY <3>1, FS_AddElement
  <2>4. \A w \in Windows : IsFiniteSet(told'[w])
    BY <2>2, <2>3
  <2> QED
    BY <2>1, <2>4
<1>5. ASSUME NEW w \in Windows
      PROVE  Refused(w)' = Refused(w)
                + (IF w \in controlled /\ Kind[f] = "blocked" THEN 1 ELSE 0)
  <2> DEFINE Before == {g \in told[w] : Kind[g] = "blocked"}
             After == {g \in told'[w] : Kind[g] = "blocked"}
  <2>1. After = IF w \in controlled /\ Kind[f] = "blocked" THEN Before \cup {f} ELSE Before
    BY <1>1
  <2>2. f \notin Before
    BY <1>3
  <2>3. IsFiniteSet(Before) /\ Cardinality(Before) \in Nat
    BY RefusedFinite DEF Refused
  <2>4. Refused(w) = Cardinality(Before) /\ Refused(w)' = Cardinality(After)
    BY DEF Refused
  <2> HIDE DEF Before, After
  <2>5. Cardinality(Before \cup {f}) = Cardinality(Before) + 1
    BY <2>2, <2>3, FS_AddElement
  <2> QED
    BY <2>1, <2>3, <2>4, <2>5
<1>6. \A w \in Windows : Cardinality(Coming(w)) \in Nat /\ blocked[w] \in Nat
  BY RefusalsFinite, ComingIs DEF TypeOK
<1>7. CASE Kind[f] = "blocked"
  <2>1. Broadcast(Net(f)) /\ bodies' = bodies
    BY <1>7 DEF Intercepts
  <2>2. Net(f) \in Broadcasts /\ IsRefusal(Net(f))
    BY <1>7, MessageTypes
  <2>3. toWindow' \in [Windows -> Seq(Broadcasts)]
        /\ \A w \in Windows : Cardinality(Coming(w)') =
                     Cardinality(Coming(w)) + (IF w \in controlled THEN 1 ELSE 0)
    BY <2>1, <2>2, Broadcasting
  <2>4. TypeOK'
    BY <1>1, <1>4, <2>3 DEF TypeOK
  <2>5. CountedOnce'
    <3>1. ASSUME NEW w \in Windows
          PROVE  blocked'[w] + Cardinality(Coming(w)') = Refused(w)'
      <4>1. blocked[w] + Cardinality(Coming(w)) = Refused(w)
        BY DEF CountedOnce
      <4>2. Refused(w)' = Refused(w) + (IF w \in controlled THEN 1 ELSE 0)
        BY <1>5, <1>7
      <4> QED
        BY <4>1, <4>2, <2>3, <1>6, <1>1
    <3> QED
      BY <3>1 DEF CountedOnce
  <2>6. BodiesAreMirrored'
    BY <2>1 DEF BodiesAreMirrored
  <2> QED
    BY <2>4, <2>5, <2>6
<1>8. CASE Kind[f] # "blocked"
  <2>1. \A w \in Windows : Refused(w)' = Refused(w)
    <3>1. \A w \in Windows : Refused(w) \in Nat
      BY RefusedFinite
    <3> QED
      BY <1>5, <1>8, <3>1
  <2>2. /\ toWindow' \in [Windows -> Seq(Broadcasts)]
        /\ \A w \in Windows : Cardinality(Coming(w)') = Cardinality(Coming(w))
    <3>1. CASE Kind[f] = "proxied"
      <4>1. Broadcast(Untyped(f))
        BY <3>1 DEF Intercepts
      <4>2. Untyped(f) \in Broadcasts /\ ~ IsRefusal(Untyped(f))
        BY MessageTypes
      <4> QED
        BY <4>1, <4>2, <1>6, Broadcasting
    <3>2. CASE Kind[f] = "mirrored"
      <4>1. toWindow' = toWindow
        BY <3>2 DEF Intercepts
      <4> QED
        BY <4>1, ComingIs, ComingIsPrimed DEF TypeOK
    <3> QED
      BY <1>2, <1>8, <3>1, <3>2
  <2>3. BodiesAreMirrored'
    <3>1. bodies' = bodies \/ (Kind[f] = "mirrored" /\ bodies' = bodies \cup {f})
      BY <1>2, <1>8 DEF Intercepts
    <3> QED
      BY <3>1 DEF BodiesAreMirrored
  <2>4. TypeOK'
    BY <1>1, <1>4, <2>2 DEF TypeOK
  <2>5. CountedOnce'
    BY <1>1, <2>1, <2>2 DEF CountedOnce
  <2> QED
    BY <2>3, <2>4, <2>5
<1> QED
  BY <1>7, <1>8

LEMMA InductiveStep == Inductive /\ [Next]_vars => Inductive'
<1> SUFFICES ASSUME Inductive, [Next]_vars PROVE Inductive'
  OBVIOUS
<1> USE DEF settingsVars, tunnelVars, shownVars
<1>0. controlled \in SUBSET Windows /\ net \in [Windows -> SUBSET Fetches]
  BY DEF Inductive, TypeOK
<1>1. ASSUME NEW w \in Windows, ChangeSettings(w) PROVE Inductive'
  BY <1>0, <1>1, Quiet DEF ChangeSettings
<1>2. ASSUME NEW w \in Windows, Tick(w) PROVE Inductive'
  BY <1>0, <1>2, Quiet DEF Tick
<1>3. ASSUME NEW w \in Windows, WindowReceives(w) PROVE Inductive'
  BY <1>3, WindowReceivesStep
<1>4. ASSUME NEW w \in Windows, NetClear(w) PROVE Inductive'
  <2>1. net' \in [Windows -> SUBSET Fetches]
    BY <1>0, <1>4 DEF NetClear
  <2> QED
    BY <1>0, <1>4, <2>1, Quiet DEF NetClear
<1>5. ASSUME NEW w \in Windows, WorkerReceives(w) PROVE Inductive'
  <2>1. UNCHANGED <<controlled, bodies, told, net, blocked>>
    BY <1>5 DEF WorkerReceives
  <2>2. CASE Broadcast(Pong(Transport))
    BY <2>1, <2>2, MessageTypes, Told DEF Transport, Transports
  <2>3. CASE Broadcast(TunnelMsg("local"))
    BY <2>1, <2>3, MessageTypes, Told DEF Transports
  <2>4. CASE UNCHANGED toWindow
    BY <1>0, <2>1, <2>4, Quiet
  <2> QED
    BY <1>5, <2>2, <2>3, <2>4 DEF WorkerReceives
<1>6. ASSUME Claims PROVE Inductive'
  BY <1>0, <1>6, Quiet DEF Claims
<1>7. ASSUME NEW a \in tries, AttemptEnds(a) PROVE Inductive'
  <2>1. UNCHANGED <<controlled, bodies, told, net, blocked>>
    BY <1>7 DEF AttemptEnds
  <2>2. \E how \in Transports : Broadcast(TunnelMsg(how))
    BY <1>7 DEF AttemptEnds, Transports
  <2> QED
    BY <2>1, <2>2, MessageTypes, Told
<1>8. ASSUME NEW a \in sockets, SocketCloses(a) PROVE Inductive'
  BY <1>0, <1>8, Quiet DEF SocketCloses
<1>9. ASSUME WorkerStops PROVE Inductive'
  BY <1>0, <1>9, Quiet DEF WorkerStops
<1>10. ASSUME NEW f \in Fetches, Intercepts(f) PROVE Inductive'
  BY <1>10, InterceptsStep
<1>11. ASSUME NEW f \in bodies, BodyRead(f) PROVE Inductive'
  <2>1. f \in Fetches /\ Kind[f] # "blocked"
    BY DEF Inductive, BodiesAreMirrored
  <2>2. Net(f) \in Broadcasts /\ ~ IsRefusal(Net(f))
    BY <2>1, MessageTypes
  <2>3. Broadcast(Net(f)) /\ UNCHANGED <<controlled, told, net, blocked>>
        /\ bodies' \subseteq bodies
    BY <1>11 DEF BodyRead
  <2> QED
    BY <2>2, <2>3, Told
<1>12. ASSUME UNCHANGED vars PROVE Inductive'
  BY <1>0, <1>12, Quiet DEF vars
<1> QED
  BY <1>1, <1>2, <1>3, <1>4, <1>5, <1>6, <1>7, <1>8, <1>9, <1>10, <1>11, <1>12 DEF Next

-----------------------------------------------------------------------------
\* Every refusal the worker broadcasts (sw.js, broadcast) is counted once in
\* every window it reaches (state.tsx, onMsg): however many windows, whatever
\* they ask of the worker, however often a feed is cleared or the worker stops.
THEOREM CountedOnceAlways == Spec => []CountedOnce
<1>1. Inductive => CountedOnce
  BY DEF Inductive
<1> QED
  BY <1>1, InductiveInit, InductiveStep, PTL DEF Spec
=============================================================================
