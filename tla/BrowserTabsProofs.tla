-------------------------- MODULE BrowserTabsProofs --------------------------
(***************************************************************************)
(* Theorems about BrowserTabs, for any ids, addresses and bounds.          *)
(***************************************************************************)
EXTENDS BrowserTabs, SequenceTheorems, TLAPS

\* What the invariants rest on: an id that is not in the list, because it was
\* never handed out or because its tab was closed, has no page and no frame,
\* so that no load comes for it and a tab opened under it starts from nothing.
ClosedIsBlank ==
  \A i \in TabIds \ Open : tab[i] = NewTab /\ frame[i] = "none"

Inductive == TypeOK /\ ActiveExists /\ AddressIsEntry /\ LoadingHasFrame /\ ClosedIsBlank

-----------------------------------------------------------------------------
\* Lists of ids.

\* findIndex finds the one place of an id that the list holds.
LEMMA Position ==
  ASSUME NEW s \in Seq(TabIds), IsInjective(s), NEW i \in ToSet(s)
  PROVE  LET idx == SelectInSeq(s, LAMBDA j : j = i) IN
         idx \in 1..Len(s) /\ s[idx] = i
<1> DEFINE idx == SelectInSeq(s, LAMBDA j : j = i)
           at == {k \in 1..Len(s) : s[k] = i}
<1>1. DOMAIN s = 1..Len(s) /\ Len(s) \in Nat
  OBVIOUS
<1>2. PICK k \in 1..Len(s) : s[k] = i
  BY <1>1 DEF ToSet
<1>3. at = {k}
  BY <1>1, <1>2 DEF IsInjective
<1>4. idx = Min(at)
  BY <1>3 DEF SelectInSeq
<1>5. Min({k}) = k
  BY <1>2 DEF Min
<1> QED
  BY <1>2, <1>3, <1>4, <1>5

\* Without the entry at k, the list still holds every other id, once.
LEMMA Shorter ==
  ASSUME NEW s \in Seq(TabIds), IsInjective(s), NEW k \in 1..Len(s)
  PROVE  /\ RemoveAt(s, k) \in Seq(TabIds)
         /\ Len(RemoveAt(s, k)) = Len(s) - 1
         /\ IsInjective(RemoveAt(s, k))
         /\ ToSet(RemoveAt(s, k)) = ToSet(s) \ {s[k]}
<1> DEFINE r == RemoveAt(s, k)
           back(n) == IF n < k THEN n ELSE n + 1
<1>1. DOMAIN s = 1..Len(s) /\ Len(s) \in Nat /\ k \in Nat \ {0} /\ k <= Len(s)
  OBVIOUS
<1> DEFINE front == SubSeq(s, 1, k - 1)
           rear == SubSeq(s, k + 1, Len(s))
<1>2. /\ front \in Seq(TabIds) /\ Len(front) = k - 1
      /\ \A n \in 1..(k - 1) : front[n] = s[n]
  <2>1. \A n \in 1..(k - 1) : s[n] \in TabIds
    BY <1>1
  <2>2. 1 \in Int /\ k - 1 \in Int
    BY <1>1
  <2> QED
    BY <1>1, <2>1, <2>2, SubSeqProperties
<1>3. /\ rear \in Seq(TabIds) /\ Len(rear) = Len(s) - k
      /\ \A n \in 1..(Len(s) - k) : rear[n] = s[k + n]
  <2>1. \A n \in (k + 1)..Len(s) : s[n] \in TabIds
    BY <1>1
  <2>2. k + 1 \in Int /\ Len(s) \in Int
    BY <1>1
  <2>3. /\ rear \in Seq(TabIds)
        /\ Len(rear) = IF k + 1 <= Len(s) THEN Len(s) - (k + 1) + 1 ELSE 0
        /\ \A n \in 1..(Len(s) - (k + 1) + 1) : rear[n] = s[k + 1 + n - 1]
    BY <2>1, <2>2, SubSeqProperties
  <2>4. Len(s) - (k + 1) + 1 = Len(s) - k
    BY <1>1
  <2>5. \A n \in 1..(Len(s) - k) : k + 1 + n - 1 = k + n
    BY <1>1
  <2> HIDE DEF rear
  <2>6. Len(rear) = Len(s) - k
    <3> DEFINE m == Len(s)
    <3>0. m \in Nat /\ k \in Nat /\ k <= m
      BY <1>1
    <3> HIDE DEF m
    <3>1. CASE k + 1 <= Len(s)
      BY <2>3, <2>4, <3>1
    <3>2. CASE ~ (k + 1 <= Len(s))
      <4>1. k = m
        BY <3>0, <3>2 DEF m
      <4> QED
        BY <1>1, <2>3, <3>2, <4>1 DEF m
    <3> QED
      BY <3>1, <3>2
  <2> QED
    BY <2>3, <2>4, <2>5, <2>6
<1>4. /\ r \in Seq(TabIds)
      /\ Len(r) = Len(s) - 1
      /\ \A n \in 1..Len(r) : r[n] = s[back(n)]
  <2>1. r = front \o rear
    BY DEF RemoveAt
  <2> HIDE DEF front, rear, r
  <2>2. /\ r \in Seq(TabIds) /\ Len(r) = Len(s) - 1
        /\ \A n \in 1..Len(r) :
             r[n] = IF n <= Len(front) THEN front[n] ELSE rear[n - Len(front)]
    <3>1. /\ r \in Seq(TabIds) /\ Len(r) = Len(front) + Len(rear)
          /\ \A n \in 1..(Len(front) + Len(rear)) :
               r[n] = IF n <= Len(front) THEN front[n] ELSE rear[n - Len(front)]
      BY <1>2, <1>3, <2>1, ConcatProperties
    <3>2. Len(front) + Len(rear) = Len(s) - 1
      BY <1>1, <1>2, <1>3
    <3> QED
      BY <3>1, <3>2
  <2>3. ASSUME NEW n \in 1..Len(r) PROVE r[n] = s[back(n)]
    <3>1. CASE n < k
      <4>1. n \in 1..(k - 1) /\ n <= k - 1
        BY <1>1, <2>2, <2>3, <3>1
      <4> QED
        BY <1>2, <2>2, <3>1, <4>1
    <3>2. CASE ~ (n < k)
      <4>1. n - (k - 1) \in 1..(Len(s) - k) /\ ~ (n <= k - 1)
        BY <1>1, <2>2, <2>3, <3>2
      <4>2. k + (n - (k - 1)) = n + 1
        BY <1>1, <2>2, <2>3
      <4>3. rear[n - (k - 1)] = s[n + 1]
        BY <1>3, <4>1, <4>2
      <4> QED
        BY <1>2, <2>2, <2>3, <3>2, <4>1, <4>3
    <3> QED
      BY <3>1, <3>2
  <2> QED
    BY <2>2, <2>3
<1> HIDE DEF front, rear, r
<1>5. DOMAIN r = 1..(Len(s) - 1) /\ Len(s) - 1 \in Nat
  BY <1>1, <1>4
<1>9. \A n \in 1..Len(r) : back(n) \in 1..Len(s) /\ back(n) # k
  BY <1>1, <1>4
<1>6. IsInjective(r)
  <2> SUFFICES ASSUME NEW m \in DOMAIN r, NEW n \in DOMAIN r, r[m] = r[n]
               PROVE  m = n
    BY DEF IsInjective
  <2>1. s[back(m)] = s[back(n)]
    BY <1>4, <1>5
  <2>2. back(m) = back(n)
    BY <1>1, <1>4, <1>5, <1>9, <2>1 DEF IsInjective
  <2> QED
    BY <1>1, <1>5, <2>2
<1>7. \A n \in 1..Len(s) : n # k => \E m \in 1..Len(r) : back(m) = n
  <2> TAKE n \in 1..Len(s)
  <2> HAVE n # k
  <2>1. CASE n < k
    BY <1>1, <1>4, <2>1
  <2>2. CASE n > k
    <3>1. n - 1 \in 1..Len(r) /\ back(n - 1) = n
      BY <1>1, <1>4, <2>2
    <3> QED
      BY <3>1
  <2> QED
    BY <1>1, <2>1, <2>2
<1>8. ToSet(s) \ {s[k]} \subseteq ToSet(r)
  <2> SUFFICES ASSUME NEW n \in 1..Len(s), s[n] # s[k]
               PROVE  s[n] \in ToSet(r)
    BY <1>1 DEF ToSet
  <2>1. PICK m \in 1..Len(r) : back(m) = n
    BY <1>7
  <2>2. s[n] = r[m]
    BY <1>4, <2>1
  <2> QED
    BY <1>4, <1>5, <2>2 DEF ToSet
<1>10. ToSet(r) \subseteq ToSet(s) \ {s[k]}
  BY <1>1, <1>4, <1>5, <1>9 DEF ToSet, IsInjective
<1> QED
  BY <1>4, <1>6, <1>8, <1>10 DEF r

\* What close-tab leaves of the list.
LEMMA WithoutTab ==
  ASSUME NEW s \in Seq(TabIds), IsInjective(s), NEW i \in ToSet(s)
  PROVE  /\ RemoveFirst(s, i) \in Seq(TabIds)
         /\ IsInjective(RemoveFirst(s, i))
         /\ ToSet(RemoveFirst(s, i)) = ToSet(s) \ {i}
<1> DEFINE idx == SelectInSeq(s, LAMBDA j : j = i)
<1>1. idx \in 1..Len(s) /\ s[idx] = i
  BY Position
<1>2. RemoveFirst(s, i) = RemoveAt(s, idx)
  BY <1>1 DEF RemoveFirst
<1> HIDE DEF idx
<1> QED
  BY <1>1, <1>2, Shorter

\* A tab opened at the end of the list.
LEMMA Longer ==
  ASSUME NEW s \in Seq(TabIds), IsInjective(s), NEW i \in TabIds \ ToSet(s)
  PROVE  /\ Append(s, i) \in Seq(TabIds) /\ Append(s, i) # <<>>
         /\ IsInjective(Append(s, i))
         /\ ToSet(Append(s, i)) = ToSet(s) \cup {i}
<1> DEFINE r == Append(s, i)
<1>1. /\ r \in Seq(TabIds) /\ r # <<>>
      /\ Len(s) \in Nat /\ DOMAIN s = 1..Len(s) /\ DOMAIN r = 1..(Len(s) + 1)
      /\ \A n \in 1..Len(s) : r[n] = s[n]
      /\ r[Len(s) + 1] = i
  OBVIOUS
<1>2. \A n \in 1..Len(s) : s[n] # i
  BY <1>1 DEF ToSet
<1>3. IsInjective(r)
  BY <1>1, <1>2 DEF IsInjective
<1>4. ToSet(r) = ToSet(s) \cup {i}
  BY <1>1 DEF ToSet
<1> QED
  BY <1>1, <1>3, <1>4

\* A list of one tab.
LEMMA Single ==
  ASSUME NEW i \in TabIds
  PROVE  /\ <<i>> \in Seq(TabIds) /\ <<i>> # <<>>
         /\ IsInjective(<<i>>)
         /\ ToSet(<<i>>) = {i}
BY DEF IsInjective, ToSet

-----------------------------------------------------------------------------
\* The first tab.
LEMMA InitOK == Init => Inductive
<1> SUFFICES ASSUME Init PROVE Inductive
  OBVIOUS
<1>1. PICK i \in TabIds : order = <<i>> /\ active = i /\ used = {i}
  BY DEF Init
<1>2. order \in Seq(TabIds) /\ order # <<>> /\ IsInjective(order) /\ Open = {i}
  BY <1>1, Single DEF Open
<1>3. NewTab \in TabRecords /\ NewTab.idx \in DOMAIN NewTab.hist
      /\ NewTab.url = NewTab.hist[NewTab.idx] /\ NewTab.url = StartPage
  BY DEF NewTab, TabRecords, Addresses
<1>4. tab \in [TabIds -> TabRecords] /\ \A j \in TabIds : tab[j] = NewTab
  BY <1>3 DEF Init
<1>5. frame \in [TabIds -> {"none", "blank"} \cup Pages]
      /\ \A j \in TabIds : frame[j] = "none"
  BY DEF Init
<1>6. TypeOK
  BY <1>1, <1>2, <1>4, <1>5 DEF Init, TypeOK
<1>7. ActiveExists /\ AddressIsEntry /\ LoadingHasFrame /\ ClosedIsBlank
  BY <1>1, <1>2, <1>3, <1>4, <1>5
     DEF ActiveExists, AddressIsEntry, LoadingHasFrame, ClosedIsBlank
<1> QED
  BY <1>6, <1>7 DEF Inductive

\* A tab that was never opened, or is closed, is blank.
LEMMA Blank ==
  /\ NewTab \in TabRecords
  /\ NewTab.idx \in DOMAIN NewTab.hist
  /\ NewTab.url = NewTab.hist[NewTab.idx]
  /\ NewTab.url = StartPage
BY DEF NewTab, TabRecords, Addresses

\* new-tab.
LEMMA NewTabStep ==
  ASSUME Inductive, NEW i \in TabIds, NewTabAction(i)
  PROVE  Inductive'
<1>1. i \notin Open
  BY DEF NewTabAction, Inductive, TypeOK
<1>2. /\ order' \in Seq(TabIds) /\ order' # <<>> /\ IsInjective(order')
      /\ Open' = Open \cup {i}
  BY <1>1, Longer DEF NewTabAction, Inductive, TypeOK, Open
<1>3. UNCHANGED <<tab, menu, frame, inFlight, timers, swReady>>
  BY DEF NewTabAction
<1>4. TypeOK'
  BY <1>2, <1>3 DEF NewTabAction, Inductive, TypeOK, Pages
<1>5. ActiveExists'
  BY <1>2 DEF NewTabAction, ActiveExists
<1>6. tab[i] = NewTab
  BY <1>1 DEF Inductive, ClosedIsBlank
<1>7. AddressIsEntry' /\ LoadingHasFrame'
  BY <1>2, <1>3, <1>6, Blank DEF Inductive, AddressIsEntry, LoadingHasFrame
<1>8. ClosedIsBlank'
  BY <1>2, <1>3 DEF Inductive, ClosedIsBlank
<1> QED
  BY <1>4, <1>5, <1>7, <1>8 DEF Inductive

\* The tabs ids leave and nothing takes their frames: what stays is as it was.
LEMMA GoneStep ==
  ASSUME Inductive, NEW ids \in SUBSET TabIds, Gone(ids),
         Open' \subseteq used', used' \subseteq TabIds,
         Open \ ids \subseteq Open',
         \A i \in Open' \ Open : i \in TabIds,
         ids \cap Open' = {}
  PROVE  /\ tab' \in [TabIds -> TabRecords]
         /\ frame' \in [TabIds -> {"none", "blank"} \cup Pages]
         /\ inFlight' \subseteq Open'
         /\ AddressIsEntry' /\ LoadingHasFrame' /\ ClosedIsBlank'
<1>1. /\ tab \in [TabIds -> TabRecords] /\ inFlight \subseteq Open
      /\ frame \in [TabIds -> {"none", "blank"} \cup Pages]
  BY DEF Inductive, TypeOK
<1>2. tab' \in [TabIds -> TabRecords]
  BY <1>1, Blank DEF Gone
<1>3. frame' \in [TabIds -> {"none", "blank"} \cup Pages]
  BY <1>1 DEF Gone
<1>4. inFlight' \subseteq Open'
  BY <1>1 DEF Gone
<1>5. \A i \in TabIds \ ids : tab'[i] = tab[i] /\ frame'[i] = frame[i]
  BY <1>1 DEF Gone
<1>6. \A i \in ids : tab'[i] = NewTab /\ frame'[i] = "none"
  BY <1>1 DEF Gone
<1>7. \A i \in Open' : \/ i \in Open \ ids /\ tab'[i] = tab[i]
                       \/ tab'[i] = NewTab
  BY <1>5 DEF Inductive, ClosedIsBlank
<1>8. AddressIsEntry'
  BY <1>7, Blank DEF Inductive, AddressIsEntry
<1>9. LoadingHasFrame'
  BY <1>7, Blank DEF Inductive, LoadingHasFrame, Gone
<1>10. ClosedIsBlank'
  BY <1>5, <1>6 DEF Inductive, ClosedIsBlank
<1> QED
  BY <1>2, <1>3, <1>4, <1>8, <1>9, <1>10

\* close-tab.  The menu stays, or closes with it.
LEMMA CloseTabStep ==
  ASSUME Inductive, NEW i \in TabIds, CloseTab(i), menu' \in {menu, "none"}
  PROVE  Inductive' /\ i \notin Open'
<1>1. /\ order \in Seq(TabIds) /\ IsInjective(order) /\ i \in ToSet(order)
      /\ Open \subseteq used /\ used \subseteq TabIds /\ active \in Open
  BY DEF Inductive, TypeOK, ActiveExists, CloseTab, Open
<1>2. PICK left \in Left(i) :
        LET idx == SelectInSeq(order, LAMBDA j : j = i) IN
        /\ order' = left
        /\ used' = used \cup ToSet(left)
        /\ active' = IF active # i THEN active
                     ELSE left[IF idx <= Len(left) THEN idx ELSE Len(left)]
  BY DEF CloseTab
<1> DEFINE idx == SelectInSeq(order, LAMBDA j : j = i)
           rest == RemoveFirst(order, i)
<1>3. idx \in 1..Len(order)
  BY <1>1, Position
<1> HIDE DEF idx
<1>4. /\ rest \in Seq(TabIds) /\ IsInjective(rest)
      /\ ToSet(rest) = Open \ {i}
  BY <1>1, WithoutTab DEF Open
<1>5. /\ left \in Seq(TabIds) /\ left # <<>> /\ IsInjective(left)
      /\ Open \ {i} \subseteq ToSet(left) /\ i \notin ToSet(left)
  <2>1. CASE rest # <<>>
    BY <1>2, <1>4, <2>1 DEF Left
  <2>2. CASE rest = <<>>
    <3>1. PICK fresh \in TabIds \ used : left = <<fresh>>
      BY <1>2, <2>2 DEF Left
    <3>2. ToSet(rest) = {}
      BY <2>2 DEF ToSet
    <3>3. i \in used
      BY <1>1 DEF Open
    <3> QED
      BY <1>4, <3>1, <3>2, <3>3, Single
  <2> QED
    BY <2>1, <2>2
<1>6. Open' = ToSet(left)
  BY <1>2 DEF Open
<1>7. ToSet(left) \subseteq TabIds
  BY <1>5 DEF ToSet
<1>8. /\ tab' \in [TabIds -> TabRecords]
      /\ frame' \in [TabIds -> {"none", "blank"} \cup Pages]
      /\ inFlight' \subseteq Open'
      /\ AddressIsEntry' /\ LoadingHasFrame' /\ ClosedIsBlank'
  <2>1. Gone({i})
    BY DEF CloseTab
  <2>2. Open' \subseteq used' /\ used' \subseteq TabIds
    BY <1>1, <1>2, <1>6, <1>7
  <2> QED
    BY <1>5, <1>6, <1>7, <2>1, <2>2, GoneStep
<1>9. active' \in Open'
  <2>1. CASE active # i
    BY <1>1, <1>2, <1>5, <1>6, <2>1
  <2>2. CASE active = i
    <3>1. (IF idx <= Len(left) THEN idx ELSE Len(left)) \in 1..Len(left)
      BY <1>1, <1>3, <1>5
    <3>2. active' = left[IF idx <= Len(left) THEN idx ELSE Len(left)]
      BY <1>2, <2>2 DEF idx
    <3> QED
      BY <1>5, <1>6, <3>1, <3>2 DEF ToSet
  <2> QED
    BY <2>1, <2>2
<1>10. TypeOK'
  BY <1>1, <1>2, <1>5, <1>6, <1>7, <1>8, <1>9 DEF CloseTab, Inductive, TypeOK
<1> QED
  BY <1>5, <1>6, <1>8, <1>9, <1>10 DEF Inductive, ActiveExists

\* close-others.
LEMMA CloseOthersStep ==
  ASSUME Inductive, NEW i \in TabIds, CloseOthers(i)
  PROVE  Inductive'
<1>1. i \in Open /\ Open \subseteq used /\ used \subseteq TabIds
  BY DEF Inductive, TypeOK, CloseOthers
<1>2. /\ order' \in Seq(TabIds) /\ order' # <<>> /\ IsInjective(order')
      /\ Open' = {i} /\ active' = i /\ used' = used
  BY Single DEF CloseOthers, Open
<1>3. Open \ {i} \in SUBSET TabIds /\ Gone(Open \ {i})
  BY <1>1 DEF CloseOthers
<1>4. /\ tab' \in [TabIds -> TabRecords]
      /\ frame' \in [TabIds -> {"none", "blank"} \cup Pages]
      /\ inFlight' \subseteq Open'
      /\ AddressIsEntry' /\ LoadingHasFrame' /\ ClosedIsBlank'
  BY <1>1, <1>2, <1>3, GoneStep
<1>5. TypeOK'
  BY <1>1, <1>2, <1>4 DEF CloseOthers, Inductive, TypeOK
<1> QED
  BY <1>2, <1>4, <1>5 DEF Inductive, ActiveExists

\* A history that stands at one of its entries, and shows it.
Standing(t) == t.idx \in DOMAIN t.hist /\ t.url = t.hist[t.idx]

\* A refused page is tried again in a new frame, at the same entry.
LEMMA RetriedTab ==
  ASSUME NEW t \in TabRecords, Standing(t)
  PROVE  /\ Retried(t) \in TabRecords /\ Standing(Retried(t))
         /\ Retried(t).key = t.key + 1 /\ Retried(t).url = t.url
         /\ Retried(t).hist = t.hist /\ Retried(t).idx = t.idx
<1> DEFINE open == [t EXCEPT !.blocked = FALSE]
           spinning == [open EXCEPT !.status = "loading"]
<1>1. Retried(t) = [spinning EXCEPT !.key = @ + 1]
  BY DEF TabRecords, Retried
<1>2. open \in TabRecords
  BY DEF TabRecords
<1>3. spinning \in TabRecords
  BY <1>2 DEF TabRecords
<1> HIDE DEF open, spinning
<1>4. [spinning EXCEPT !.key = @ + 1] \in TabRecords
  BY <1>3 DEF TabRecords
<1>5. Retried(t).key = t.key + 1 /\ Retried(t).url = t.url
  BY DEF TabRecords, Retried
<1>6. Retried(t).hist = t.hist /\ Retried(t).idx = t.idx
  BY DEF TabRecords, Retried
<1> QED
  BY <1>1, <1>4, <1>5, <1>6 DEF Standing

\* duplicate.
LEMMA DuplicateStep ==
  ASSUME Inductive, NEW i \in TabIds, NEW new \in TabIds, Duplicate(i, new)
  PROVE  Inductive'
<1>1. /\ i \in Open /\ new \notin Open
      /\ tab \in [TabIds -> TabRecords] /\ tab[i] \in TabRecords /\ Standing(tab[i])
  BY DEF Inductive, TypeOK, Duplicate, AddressIsEntry, Standing
<1> DEFINE copy == [tab[i] EXCEPT !.key = @ + 1]
           t == IF swReady /\ copy.blocked /\ copy.url # StartPage THEN Retried(copy)
                ELSE copy
<1>2. copy \in TabRecords /\ Standing(copy)
  <2>1. /\ copy \in TabRecords
        /\ copy.idx = tab[i].idx /\ copy.hist = tab[i].hist /\ copy.url = tab[i].url
    <3> DEFINE o == tab[i]
    <3>1. /\ o = [url |-> o.url, status |-> o.status, hist |-> o.hist,
                   idx |-> o.idx, key |-> o.key, blocked |-> o.blocked]
          /\ o.url \in Addresses /\ o.hist \in Seq(Addresses)
          /\ o.status \in {"start", "loading", "loaded"}
          /\ o.blocked \in BOOLEAN /\ o.idx \in Nat /\ o.key \in Nat
      BY <1>1 DEF TabRecords
    <3>2. copy = [url |-> o.url, status |-> o.status, hist |-> o.hist,
                  idx |-> o.idx, key |-> o.key + 1, blocked |-> o.blocked]
      BY <3>1
    <3> QED
      BY <3>1, <3>2 DEF TabRecords
  <2> QED
    BY <1>1, <2>1 DEF Standing
<1>3. t \in TabRecords /\ Standing(t)
  BY <1>2, RetriedTab
<1>4. tab' = [tab EXCEPT ![new] = t] /\ Mount(new, t)
  BY DEF Duplicate
<1> HIDE DEF copy, t
<1>5. /\ order' \in Seq(TabIds) /\ order' # <<>> /\ IsInjective(order')
      /\ Open' = Open \cup {new} /\ active' = new /\ used' = used \cup {new}
      /\ menu' = "none" /\ timers' = timers /\ swReady' = swReady
  BY <1>1, Longer DEF Duplicate, Inductive, TypeOK, Open
<1>6. tab' \in [TabIds -> TabRecords] /\ tab'[new] = t
      /\ \A j \in TabIds \ {new} : tab'[j] = tab[j]
  BY <1>1, <1>3, <1>4
<1>7. /\ frame' \in [TabIds -> {"none", "blank"} \cup Pages]
      /\ \A j \in TabIds \ {new} : frame'[j] = frame[j]
      /\ inFlight' \subseteq Open' /\ inFlight \subseteq Open
      /\ inFlight \ {new} \subseteq inFlight'
      /\ t.url # StartPage => new \in inFlight'
  BY <1>4, <1>5 DEF Inductive, TypeOK, Mount
<1>8. TypeOK'
  BY <1>5, <1>6, <1>7 DEF Inductive, TypeOK
<1>9. ActiveExists'
  BY <1>5 DEF ActiveExists
<1>10. AddressIsEntry'
  BY <1>3, <1>5, <1>6 DEF Inductive, TypeOK, AddressIsEntry, Standing
<1>11. LoadingHasFrame'
  BY <1>5, <1>6, <1>7 DEF Inductive, TypeOK, LoadingHasFrame
<1>12. ClosedIsBlank'
  BY <1>5, <1>6, <1>7 DEF Inductive, ClosedIsBlank
<1> QED
  BY <1>8, <1>9, <1>10, <1>11, <1>12 DEF Inductive

\* A dispatch on one tab that remounts its frame.
LEMMA PatchStep ==
  ASSUME Inductive, NEW i \in Open, NEW t \in TabRecords, Standing(t),
         t.key = tab[i].key + 1, Patch(i, t)
  PROVE  Inductive'
<1>1. i \in TabIds /\ tab \in [TabIds -> TabRecords] /\ tab[i].key \in Nat
  BY DEF Inductive, TypeOK, TabRecords
<1>2. t.key # tab[i].key
  BY <1>1
<1>3. Mount(i, t) /\ tab' = [tab EXCEPT ![i] = t]
      /\ UNCHANGED <<order, active, menu, used, timers, swReady>>
  BY <1>2 DEF Patch
<1>4. Open' = Open
  BY <1>3 DEF Open
<1>5. /\ tab' \in [TabIds -> TabRecords] /\ tab'[i] = t
      /\ \A j \in TabIds \ {i} : tab'[j] = tab[j]
  BY <1>1, <1>3
<1>6. /\ frame' \in [TabIds -> {"none", "blank"} \cup Pages]
      /\ \A j \in TabIds \ {i} : frame'[j] = frame[j]
      /\ inFlight' \subseteq Open' /\ inFlight \ {i} \subseteq inFlight'
      /\ t.url # StartPage => i \in inFlight'
  BY <1>3, <1>4 DEF Inductive, TypeOK, Mount
<1>7. TypeOK'
  BY <1>3, <1>4, <1>5, <1>6 DEF Inductive, TypeOK
<1>8. ActiveExists'
  BY <1>3, <1>4 DEF Inductive, ActiveExists
<1>9. AddressIsEntry'
  BY <1>4, <1>5 DEF Inductive, TypeOK, AddressIsEntry, Standing
<1>10. LoadingHasFrame'
  BY <1>4, <1>5, <1>6 DEF Inductive, TypeOK, LoadingHasFrame
<1>11. ClosedIsBlank'
  BY <1>4, <1>5, <1>6 DEF Inductive, ClosedIsBlank
<1> QED
  BY <1>7, <1>8, <1>9, <1>10, <1>11 DEF Inductive

\* nav, back, fwd, reload: an entry of the history is shown.
LEMMA ShowStep ==
  ASSUME Inductive, NEW i \in Open, NEW hist \in Seq(Addresses),
         NEW idx \in 1..Len(hist), NEW status \in {"start", "loading", "loaded"},
         Show(i, hist, idx, status)
  PROVE  Inductive'
<1> DEFINE t == [url |-> hist[idx], status |-> status, hist |-> hist, idx |-> idx,
                 key |-> tab[i].key + 1, blocked |-> FALSE]
<1>1. tab[i].key \in Nat
  BY DEF Inductive, TypeOK, TabRecords
<1>2. hist[idx] \in Addresses /\ idx \in Nat /\ idx \in DOMAIN hist
  OBVIOUS
<1>3. t \in TabRecords
  BY <1>1, <1>2 DEF TabRecords
<1>5. Standing(t)
  BY <1>2 DEF Standing
<1>4. Patch(i, t)
  BY DEF Show
<1>6. t.key = tab[i].key + 1
  OBVIOUS
<1> HIDE DEF t
<1> QED
  BY <1>3, <1>4, <1>5, <1>6, PatchStep

\* What a dispatch on an open tab finds.
LEMMA OpenTab ==
  ASSUME Inductive, NEW i \in Open
  PROVE  /\ i \in TabIds /\ tab[i] \in TabRecords /\ Standing(tab[i])
         /\ tab[i].hist \in Seq(Addresses) /\ Len(tab[i].hist) \in Nat
         /\ tab[i].idx \in 1..Len(tab[i].hist) /\ tab[i].idx \in Nat
         /\ tab[i].key \in Nat
<1>1. i \in TabIds /\ tab[i] \in TabRecords
  BY DEF Inductive, TypeOK
<1>2. Standing(tab[i])
  BY DEF Inductive, AddressIsEntry, Standing
<1>3. /\ tab[i].hist \in Seq(Addresses) /\ tab[i].key \in Nat
      /\ tab[i].idx \in Nat
  BY <1>1 DEF TabRecords
<1>4. DOMAIN tab[i].hist = 1..Len(tab[i].hist) /\ Len(tab[i].hist) \in Nat
  BY <1>3
<1> QED
  BY <1>1, <1>2, <1>3, <1>4 DEF Standing

\* The history nav leaves: the entries up to the current one, and the new one.
LEMMA Kept ==
  ASSUME Inductive, NEW i \in Open, NEW url \in Addresses
  PROVE  LET kept == SubSeq(tab[i].hist, 1, tab[i].idx) IN
         /\ kept \in Seq(Addresses) /\ Len(kept) = tab[i].idx
         /\ \A n \in 1..tab[i].idx : kept[n] = tab[i].hist[n]
         /\ Append(kept, url) \in Seq(Addresses)
         /\ Len(Append(kept, url)) = tab[i].idx + 1
         /\ \A n \in 1..tab[i].idx : Append(kept, url)[n] = tab[i].hist[n]
<1> DEFINE h == tab[i].hist
           n == tab[i].idx
           kept == SubSeq(h, 1, n)
<1>1. h \in Seq(Addresses) /\ n \in 1..Len(h) /\ n \in Nat /\ Len(h) \in Nat
  BY OpenTab
<1> HIDE DEF h, n
<1>2. kept \in Seq(Addresses) /\ Len(kept) = n
      /\ \A m \in 1..n : kept[m] = h[m]
  <2>1. \A m \in 1..n : m \in 1..Len(h)
    BY <1>1
  <2>2. \A m \in 1..n : h[m] \in Addresses
    BY <1>1, <2>1
  <2>3. /\ kept \in Seq(Addresses)
        /\ Len(kept) = IF 1 <= n THEN n - 1 + 1 ELSE 0
        /\ \A m \in 1..(n - 1 + 1) : kept[m] = h[1 + m - 1]
    <3>1. 1 \in Int /\ n \in Int
      BY <1>1
    <3> QED
      BY <2>2, <3>1, SubSeqProperties
  <2>4. n - 1 + 1 = n /\ 1 <= n /\ \A m \in 1..n : 1 + m - 1 = m
    BY <1>1
  <2> QED
    BY <2>3, <2>4
<1> HIDE DEF kept
<1>3. /\ Append(kept, url) \in Seq(Addresses)
      /\ Len(Append(kept, url)) = n + 1
      /\ \A m \in 1..n : Append(kept, url)[m] = h[m]
  <2>1. /\ Append(kept, url) \in Seq(Addresses)
        /\ Len(Append(kept, url)) = Len(kept) + 1
        /\ \A m \in 1..Len(kept) : Append(kept, url)[m] = kept[m]
    BY <1>2, AppendProperties
  <2> QED
    BY <1>2, <2>1
<1> QED
  BY <1>2, <1>3 DEF kept, h, n

\* onLoad: a page has come into the frame of a tab that has one.
LEMMA LoadStep ==
  ASSUME Inductive, NEW i \in Open, NEW page \in Pages, OnLoad(i, page)
  PROVE  Inductive'
<1>1. i \in TabIds /\ tab[i] \in TabRecords /\ Standing(tab[i])
      /\ tab[i].key \in Nat /\ tab \in [TabIds -> TabRecords]
  BY OpenTab DEF Inductive, TypeOK
<1> DEFINE t == [tab[i] EXCEPT !.status = "loaded"]
<1>2. t \in TabRecords
  BY <1>1 DEF TabRecords
<1>3. t.hist = tab[i].hist /\ t.idx = tab[i].idx /\ t.url = tab[i].url
      /\ t.status = "loaded"
  BY <1>1 DEF TabRecords
<1>4. tab' = [tab EXCEPT ![i] = t]
  BY DEF OnLoad
<1> HIDE DEF t
<1>5. Open' = Open
  BY DEF OnLoad, Open
<1>6. /\ tab' \in [TabIds -> TabRecords] /\ tab'[i] = t
      /\ \A j \in TabIds \ {i} : tab'[j] = tab[j]
  BY <1>1, <1>2, <1>4
<1>7. /\ frame' \in [TabIds -> {"none", "blank"} \cup Pages]
      /\ \A j \in TabIds \ {i} : frame'[j] = frame[j]
      /\ inFlight' = inFlight \ {i}
  BY DEF Inductive, TypeOK, OnLoad
<1>8. timers' \subseteq [id: TabIds, key: Nat, page: Pages]
  BY <1>1 DEF Inductive, TypeOK, OnLoad
<1>9. TypeOK'
  BY <1>5, <1>6, <1>7, <1>8 DEF Inductive, TypeOK, OnLoad
<1>10. ActiveExists'
  BY <1>5 DEF Inductive, ActiveExists, OnLoad
<1>11. AddressIsEntry'
  BY <1>1, <1>3, <1>5, <1>6 DEF Inductive, TypeOK, AddressIsEntry, Standing
<1>12. LoadingHasFrame'
  BY <1>3, <1>5, <1>6, <1>7 DEF Inductive, TypeOK, LoadingHasFrame
<1>13. ClosedIsBlank'
  BY <1>5, <1>6, <1>7 DEF Inductive, ClosedIsBlank
<1> QED
  BY <1>9, <1>10, <1>11, <1>12, <1>13 DEF Inductive

\* The 900 ms timer of a frame, whatever has become of its tab.
LEMMA TimerStep ==
  ASSUME Inductive, NEW m \in timers, TimerFires(m)
  PROVE  Inductive' /\ \A i \in Open : tab'[i].hist = tab[i].hist
<1>1. /\ tab \in [TabIds -> TabRecords]
      /\ UNCHANGED <<order, active, menu, used, frame, inFlight, swReady>>
      /\ timers' \subseteq timers
  BY DEF Inductive, TypeOK, TimerFires
<1>2. Open' = Open /\ Open \subseteq TabIds
  BY <1>1 DEF Open, Inductive, TypeOK
<1>3. CASE tab' = tab
  BY <1>1, <1>2, <1>3 DEF Inductive, TypeOK, ActiveExists, AddressIsEntry,
     LoadingHasFrame, ClosedIsBlank
<1>4. CASE m.id \in Open /\ tab' = [tab EXCEPT ![m.id].blocked = TRUE,
                                               ![m.id].status = "loaded"]
  <2> DEFINE i == m.id
             over == [tab[i] EXCEPT !.blocked = TRUE]
             t == [over EXCEPT !.status = "loaded"]
  <2>1. i \in TabIds /\ tab[i] \in TabRecords /\ Standing(tab[i]) /\ i \in Open
    BY <1>4, OpenTab
  <2>2. over \in TabRecords
    BY <2>1 DEF TabRecords
  <2>3. t \in TabRecords
    BY <2>2 DEF TabRecords
  <2>4. t.hist = tab[i].hist /\ t.idx = tab[i].idx /\ t.url = tab[i].url
        /\ t.status = "loaded"
    BY <2>1 DEF TabRecords
  <2>5. tab' = [tab EXCEPT ![i] = t]
    BY <1>1, <1>4, <2>1
  <2> HIDE DEF i, over, t
  <2>6. /\ tab' \in [TabIds -> TabRecords] /\ tab'[i] = t
        /\ \A j \in TabIds \ {i} : tab'[j] = tab[j]
    BY <1>1, <2>1, <2>3, <2>5
  <2>7. TypeOK'
    BY <1>1, <1>2, <2>6 DEF Inductive, TypeOK
  <2>8. ActiveExists'
    BY <1>1, <1>2 DEF Inductive, ActiveExists
  <2>9. AddressIsEntry'
    BY <1>2, <2>1, <2>4, <2>6 DEF Inductive, AddressIsEntry, Standing
  <2>10. LoadingHasFrame'
    BY <1>1, <1>2, <2>4, <2>6 DEF Inductive, LoadingHasFrame
  <2>11. ClosedIsBlank'
    BY <1>1, <1>2, <2>1, <2>6 DEF Inductive, ClosedIsBlank
  <2>12. \A j \in Open : tab'[j].hist = tab[j].hist
    BY <1>2, <2>4, <2>6
  <2> QED
    BY <2>7, <2>8, <2>9, <2>10, <2>11, <2>12 DEF Inductive
<1> QED
  BY <1>3, <1>4 DEF TimerFires

\* The worker takes over: every page that is shown is on its way again.
LEMMA WorkerStep ==
  ASSUME Inductive, WorkerReady
  PROVE  Inductive' /\ \A i \in Open : tab'[i].hist = tab[i].hist
<1> DEFINE shown == {i \in Open : tab[i].url # StartPage}
           again == {i \in shown : tab[i].blocked}
<1>1. /\ tab \in [TabIds -> TabRecords] /\ Open \subseteq TabIds
      /\ again \subseteq shown /\ shown \subseteq Open
  BY DEF Inductive, TypeOK
<1>2. /\ tab' = [i \in TabIds |-> IF i \in again THEN Retried(tab[i]) ELSE tab[i]]
      /\ frame' = [i \in TabIds |-> IF i \in again THEN "blank" ELSE frame[i]]
      /\ inFlight' = shown /\ swReady' = TRUE
      /\ UNCHANGED <<order, active, menu, used, timers>>
  BY DEF WorkerReady
<1>3. Open' = Open
  BY <1>2 DEF Open
<1>4. \A i \in shown : i \in inFlight'
  BY <1>2
<1>5. \A i \in Open \ shown : tab[i].url = StartPage
  OBVIOUS
<1> HIDE DEF again, shown
<1>6. ASSUME NEW i \in Open
      PROVE  /\ tab'[i] \in TabRecords /\ Standing(tab'[i])
             /\ tab'[i].url = tab[i].url /\ tab'[i].hist = tab[i].hist
  <2>1. i \in TabIds /\ tab[i] \in TabRecords /\ Standing(tab[i])
    BY OpenTab
  <2>2. CASE i \in again
    <3>1. tab'[i] = Retried(tab[i])
      BY <1>2, <2>1, <2>2
    <3> QED
      BY <2>1, <3>1, RetriedTab
  <2>3. CASE i \notin again
    BY <1>2, <2>1, <2>3
  <2> QED
    BY <2>2, <2>3
<1>7. \A i \in TabIds \ Open : tab'[i] = tab[i] /\ frame'[i] = frame[i]
  BY <1>1, <1>2
<1>8. tab' \in [TabIds -> TabRecords]
  <2>1. \A i \in TabIds : tab'[i] \in TabRecords
    BY <1>1, <1>6, <1>7
  <2> QED
    BY <1>2, <2>1
<1>9. frame' \in [TabIds -> {"none", "blank"} \cup Pages]
  BY <1>2 DEF Inductive, TypeOK
<1>10. TypeOK'
  BY <1>1, <1>2, <1>3, <1>8, <1>9 DEF Inductive, TypeOK
<1>11. ActiveExists'
  BY <1>2, <1>3 DEF Inductive, ActiveExists
<1>12. AddressIsEntry'
  BY <1>3, <1>6 DEF AddressIsEntry, Standing
<1>13. LoadingHasFrame'
  BY <1>3, <1>4, <1>5, <1>6 DEF LoadingHasFrame
<1>14. ClosedIsBlank'
  BY <1>3, <1>7 DEF Inductive, ClosedIsBlank
<1> QED
  BY <1>6, <1>10, <1>11, <1>12, <1>13, <1>14 DEF Inductive

\* Which tab is in front and which menu is open, or nothing at all: the pages
\* are left alone.
LEMMA AsideStep ==
  ASSUME Inductive, active' \in Open, menu' \in TabIds \cup {"none"},
         UNCHANGED <<order, tab, used, frame, inFlight, timers, swReady>>
  PROVE  Inductive'
<1>1. Open' = Open
  BY DEF Open
<1>2. TypeOK'
  BY <1>1 DEF Inductive, TypeOK
<1>3. ActiveExists' /\ AddressIsEntry' /\ LoadingHasFrame' /\ ClosedIsBlank'
  BY <1>1 DEF Inductive, ActiveExists, AddressIsEntry, LoadingHasFrame, ClosedIsBlank
<1> QED
  BY <1>2, <1>3 DEF Inductive

-----------------------------------------------------------------------------
\* What a step does to the history of a tab that is open before and after: it
\* leaves it alone, or goes on from the current entry.
GoesOn(t, u) ==
  /\ u.idx = t.idx + 1
  /\ \E url \in Addresses : u.hist = Append(SubSeq(t.hist, 1, t.idx), url)

Continued ==
  \A i \in Open \cap Open' : tab'[i].hist = tab[i].hist \/ GoesOn(tab[i], tab'[i])

\* nav.
LEMMA NavStep ==
  ASSUME Inductive, NEW i \in Open, NEW url \in Addresses, Nav(i, url)
  PROVE  Inductive' /\ Continued
<1> DEFINE kept == SubSeq(tab[i].hist, 1, tab[i].idx)
           hist == Append(kept, url)
<1>1. /\ hist \in Seq(Addresses) /\ Len(kept) = tab[i].idx
      /\ Len(hist) = tab[i].idx + 1
  BY Kept
<1>2. i \in TabIds /\ tab \in [TabIds -> TabRecords] /\ tab[i].idx \in Nat
  BY OpenTab DEF Inductive, TypeOK
<1>3. Show(i, hist, Len(kept) + 1, StatusOf(url))
  BY DEF Nav
<1>4. StatusOf(url) \in {"start", "loading", "loaded"}
  BY DEF StatusOf
<1>5. tab'[i].hist = hist /\ tab'[i].idx = Len(kept) + 1
      /\ \A j \in TabIds \ {i} : tab'[j] = tab[j]
  BY <1>2, <1>3 DEF Show, Patch
<1>6. Open \subseteq TabIds
  BY DEF Inductive, TypeOK
<1>7. GoesOn(tab[i], tab'[i])
  BY <1>1, <1>5 DEF GoesOn
<1>8. Continued
  BY <1>5, <1>6, <1>7 DEF Continued
<1> HIDE DEF hist, kept
<1>9. Len(kept) + 1 \in 1..Len(hist)
  BY <1>1, <1>2
<1> QED
  BY <1>1, <1>3, <1>4, <1>8, <1>9, ShowStep

\* back, fwd, reload: another entry of the same history.
LEMMA EntryStep ==
  ASSUME Inductive, NEW i \in Open, NEW idx \in 1..Len(tab[i].hist),
         NEW status \in {"start", "loading", "loaded"},
         Show(i, tab[i].hist, idx, status)
  PROVE  Inductive' /\ Continued
<1>1. tab[i].hist \in Seq(Addresses) /\ tab \in [TabIds -> TabRecords]
      /\ Open \subseteq TabIds
  BY OpenTab DEF Inductive, TypeOK
<1>2. Inductive'
  BY <1>1, ShowStep
<1>3. \A j \in TabIds : tab'[j].hist = tab[j].hist
  BY <1>1 DEF Show, Patch
<1> QED
  BY <1>1, <1>2, <1>3 DEF Continued

\* frame-retry.
LEMMA RetryStep ==
  ASSUME Inductive, NEW i \in Open, FrameRetry(i)
  PROVE  Inductive' /\ Continued
<1>1. /\ tab[i] \in TabRecords /\ Standing(tab[i])
      /\ tab \in [TabIds -> TabRecords] /\ Open \subseteq TabIds
  BY OpenTab DEF Inductive, TypeOK
<1>2. /\ Retried(tab[i]) \in TabRecords /\ Standing(Retried(tab[i]))
      /\ Retried(tab[i]).key = tab[i].key + 1 /\ Retried(tab[i]).hist = tab[i].hist
  BY <1>1, RetriedTab
<1>3. Patch(i, Retried(tab[i]))
  BY DEF FrameRetry
<1>4. Inductive'
  BY <1>2, <1>3, PatchStep
<1>5. \A j \in TabIds : tab'[j].hist = tab[j].hist
  BY <1>1, <1>2, <1>3 DEF Patch
<1> QED
  BY <1>1, <1>4, <1>5 DEF Continued

\* What the user does to the tab in front, but for closing and copying it.
LEMMA ToolbarStep ==
  ASSUME Inductive, NEW i \in Open,
         \/ \E url \in Addresses : Nav(i, url)
         \/ Back(i)
         \/ Fwd(i)
         \/ Reload(i)
         \/ FrameRetry(i)
  PROVE  Inductive' /\ Continued
<1>1. tab[i].idx \in 1..Len(tab[i].hist) /\ tab[i].idx \in Nat /\ Len(tab[i].hist) \in Nat
  BY OpenTab
<1>2. ASSUME NEW url \in Addresses, Nav(i, url) PROVE Inductive' /\ Continued
  BY <1>2, NavStep
<1>3. CASE Back(i)
  <2>1. tab[i].idx - 1 \in 1..Len(tab[i].hist)
    BY <1>1, <1>3 DEF Back
  <2>2. StatusOf(tab[i].hist[tab[i].idx - 1]) \in {"start", "loading", "loaded"}
    BY DEF StatusOf
  <2>3. Show(i, tab[i].hist, tab[i].idx - 1, StatusOf(tab[i].hist[tab[i].idx - 1]))
    BY <1>3 DEF Back
  <2> QED
    BY <2>1, <2>2, <2>3, EntryStep
<1>4. CASE Fwd(i)
  <2>1. tab[i].idx + 1 \in 1..Len(tab[i].hist)
    BY <1>1, <1>4 DEF Fwd
  <2>2. Show(i, tab[i].hist, tab[i].idx + 1, "loading")
    BY <1>4 DEF Fwd
  <2> QED
    BY <2>1, <2>2, EntryStep
<1>5. CASE Reload(i)
  BY <1>1, <1>5, EntryStep DEF Reload
<1>6. CASE FrameRetry(i)
  BY <1>6, RetryStep
<1> QED
  BY <1>2, <1>3, <1>4, <1>5, <1>6

\* Opening, closing and copying tabs leaves the other tabs' records alone.
LEMMA ListStep ==
  ASSUME Inductive,
         \/ \E i \in TabIds : NewTabAction(i)
         \/ \E i \in Open : CloseTab(i) /\ menu' \in {menu, "none"}
         \/ \E i \in Open : CloseOthers(i)
         \/ \E i \in Open, new \in TabIds : Duplicate(i, new)
  PROVE  Inductive' /\ Continued
<1>1. Open \subseteq TabIds /\ tab \in [TabIds -> TabRecords] /\ Open \subseteq used
  BY DEF Inductive, TypeOK
<1>2. ASSUME NEW i \in TabIds, NewTabAction(i) PROVE Inductive' /\ Continued
  BY <1>2, NewTabStep DEF NewTabAction, Continued
<1>3. ASSUME NEW i \in Open, CloseTab(i), menu' \in {menu, "none"}
      PROVE  Inductive' /\ Continued
  <2>1. Inductive' /\ i \notin Open'
    BY <1>1, <1>3, CloseTabStep
  <2>2. \A j \in Open \ {i} : tab'[j] = tab[j]
    BY <1>1, <1>3 DEF CloseTab, Gone
  <2> QED
    BY <2>1, <2>2 DEF Continued
<1>4. ASSUME NEW i \in Open, CloseOthers(i) PROVE Inductive' /\ Continued
  <2>1. Inductive'
    BY <1>1, <1>4, CloseOthersStep
  <2>2. Open' = {i}
    BY <1>1, <1>4, Single DEF CloseOthers, Open
  <2>3. tab'[i] = tab[i]
    BY <1>1, <1>4 DEF CloseOthers, Gone
  <2> QED
    BY <2>1, <2>2, <2>3 DEF Continued
<1>5. ASSUME NEW i \in Open, NEW new \in TabIds, Duplicate(i, new)
      PROVE  Inductive' /\ Continued
  <2>1. Inductive'
    BY <1>1, <1>5, DuplicateStep
  <2>2. \A j \in Open : tab'[j] = tab[j]
    BY <1>1, <1>5 DEF Duplicate
  <2> QED
    BY <2>1, <2>2 DEF Continued
<1> QED
  BY <1>2, <1>3, <1>4, <1>5

\* Every step of the shell.
LEMMA NextStep ==
  ASSUME Inductive, [Next]_vars
  PROVE  Inductive' /\ Continued
<1>1. /\ active \in Open /\ menu \in TabIds \cup {"none"}
      /\ Open \subseteq TabIds /\ inFlight \subseteq Open
  BY DEF Inductive, TypeOK, ActiveExists
<1>2. ASSUME UNCHANGED tab, Inductive' PROVE Inductive' /\ Continued
  BY <1>2 DEF Continued
<1>3. CASE Keyboard
  BY <1>1, <1>3, ListStep DEF Keyboard
<1>4. CASE Click
  <2>1. ASSUME NEW i \in Open, Select(i) \/ OpenMenu(i) PROVE Inductive' /\ Continued
    <3>1. /\ UNCHANGED <<order, tab, used, frame, inFlight, timers, swReady>>
          /\ active' \in Open /\ menu' \in TabIds \cup {"none"}
      BY <1>1, <2>1 DEF Select, OpenMenu
    <3> QED
      BY <1>2, <3>1, AsideStep
  <2>2. ASSUME NEW i \in Open, CloseTab(i), UNCHANGED menu PROVE Inductive' /\ Continued
    BY <2>2, ListStep
  <2>3. ASSUME NEW new \in TabIds, Duplicate(active, new) PROVE Inductive' /\ Continued
    BY <1>1, <2>3, ListStep
  <2>4. ASSUME NEW url \in Addresses, Nav(active, url) PROVE Inductive' /\ Continued
    BY <1>1, <2>4, ToolbarStep
  <2>5. CASE Back(active) \/ Fwd(active) \/ Reload(active) \/ FrameRetry(active)
    BY <1>1, <2>5, ToolbarStep
  <2> QED
    BY <1>4, <2>1, <2>2, <2>3, <2>4, <2>5 DEF Click
<1>5. CASE MenuItem
  <2>1. CASE MenuCloses
    <3>1. /\ UNCHANGED <<order, tab, used, frame, inFlight, timers, swReady>>
          /\ active' \in Open /\ menu' \in TabIds \cup {"none"}
      BY <1>1, <2>1 DEF MenuCloses
    <3> QED
      BY <1>2, <3>1, AsideStep
  <2>2. CASE menu \in Open /\ Select(menu)
    <3>1. /\ UNCHANGED <<order, tab, used, frame, inFlight, timers, swReady>>
          /\ active' \in Open /\ menu' \in TabIds \cup {"none"}
      BY <1>1, <2>2 DEF Select
    <3> QED
      BY <1>2, <3>1, AsideStep
  <2>3. CASE menu \in Open /\ \E new \in TabIds : Duplicate(menu, new)
    BY <2>3, ListStep
  <2>4. CASE CloseTab(menu) /\ menu' = "none"
    BY <2>4, ListStep DEF CloseTab
  <2>5. CASE CloseOthers(menu)
    BY <2>5, ListStep DEF CloseOthers
  <2> QED
    BY <1>5, <2>1, <2>2, <2>3, <2>4, <2>5 DEF MenuItem
<1>6. ASSUME NEW i \in TabIds, FrameLoads(i) \/ LinkLoads(i)
      PROVE  Inductive' /\ Continued
  <2>1. i \in Open
    BY <1>1, <1>6 DEF FrameLoads, LinkLoads, Inductive, ClosedIsBlank
  <2>2. PICK page \in Pages : OnLoad(i, page)
    BY <1>6 DEF FrameLoads, LinkLoads
  <2>3. Inductive'
    BY <2>1, <2>2, LoadStep
  <2>4. \A j \in Open : tab'[j].hist = tab[j].hist
    BY <1>1, <2>2 DEF OnLoad, Inductive, TypeOK, TabRecords
  <2> QED
    BY <2>3, <2>4 DEF Continued
<1>7. ASSUME NEW m \in timers, TimerFires(m) PROVE Inductive' /\ Continued
  BY <1>7, TimerStep DEF Continued
<1>8. CASE WorkerReady
  BY <1>8, WorkerStep DEF Continued
<1>9. CASE UNCHANGED vars
  <2>1. UNCHANGED <<order, tab, used, frame, inFlight, timers, swReady>>
        /\ active' \in Open /\ menu' \in TabIds \cup {"none"}
    BY <1>1, <1>9 DEF vars
  <2> QED
    BY <1>2, <2>1, AsideStep
<1> QED
  BY <1>3, <1>4, <1>5, <1>6, <1>7, <1>8, <1>9 DEF Next

\* The entries up to the current one survive a step that goes on from it, and
\* any step that leaves the history alone.
LEMMA PastKept ==
  ASSUME Inductive, Continued, NEW i \in Open \cap Open'
  PROVE  LET kept == IF tab'[i].idx < tab[i].idx THEN tab'[i].idx ELSE tab[i].idx IN
         SubSeq(tab'[i].hist, 1, kept) = SubSeq(tab[i].hist, 1, kept)
<1>1. CASE tab'[i].hist = tab[i].hist
  BY <1>1
<1>2. CASE GoesOn(tab[i], tab'[i])
  <2> DEFINE h == tab[i].hist
             n == tab[i].idx
             kept == SubSeq(h, 1, n)
  <2>1. PICK url \in Addresses : tab'[i].hist = Append(kept, url)
    BY <1>2 DEF GoesOn
  <2>2. tab'[i].idx = n + 1 /\ n \in Nat
    BY <1>2, OpenTab DEF GoesOn
  <2>3. (IF tab'[i].idx < n THEN tab'[i].idx ELSE n) = n
    BY <2>2
  <2>4. kept \in Seq(Addresses) /\ Len(kept) = n
    BY Kept
  <2> HIDE DEF kept
  <2>5. SubSeq(Append(kept, url), 1, n) = kept
    BY <2>2, <2>4
  <2> QED
    BY <2>1, <2>3, <2>5 DEF kept
<1> QED
  BY <1>1, <1>2 DEF Continued

-----------------------------------------------------------------------------
\* The inductive invariant holds in every reachable state.
THEOREM TabsAreSound == Spec => []Inductive
<1>1. Init => Inductive
  BY InitOK
<1>2. Inductive /\ [Next]_vars => Inductive'
  BY NextStep
<1> QED
  BY <1>1, <1>2, PTL DEF Spec

\* There is always a tab, no id is in the list twice, and the frames that wait
\* for a page are those of open tabs (reducer: filter, or a new tab).
THEOREM TabsTyped == Spec => []TypeOK
<1>1. Inductive => TypeOK
  BY DEF Inductive
<1> QED
  BY <1>1, TabsAreSound, PTL

\* Whichever tabs are closed, copied or opened, from wherever, the active id
\* is one of the list's: the tool bar finds its tab (close-tab, close-others).
THEOREM ActiveAlwaysExists == Spec => []ActiveExists
<1>1. Inductive => ActiveExists
  BY DEF Inductive
<1> QED
  BY <1>1, TabsAreSound, PTL

\* The address shown is the entry the history stands at, after any sequence of
\* nav, back, fwd, reload, duplicate, retries and late timers.
THEOREM AddressAlwaysIsEntry == Spec => []AddressIsEntry
<1>1. Inductive => AddressIsEntry
  BY DEF Inductive
<1> QED
  BY <1>1, TabsAreSound, PTL

\* A spinner has a load event to come that ends it: no order of dispatches,
\* loads, 900 ms timers and the worker's arrival leaves one turning for good.
THEOREM LoadingAlwaysHasFrame == Spec => []LoadingHasFrame
<1>1. Inductive => LoadingHasFrame
  BY DEF Inductive
<1> QED
  BY <1>1, TabsAreSound, PTL

\* No step rewrites the pages behind the current one, nor the current one:
\* nav cuts off what is ahead, and nothing else touches a history.
THEOREM PastNeverRewritten == Spec => NoPastRewritten
<1> DEFINE PastOf(i) ==
      LET kept == IF tab'[i].idx < tab[i].idx THEN tab'[i].idx ELSE tab[i].idx IN
      SubSeq(tab'[i].hist, 1, kept) = SubSeq(tab[i].hist, 1, kept)
<1>1. Inductive /\ [Next]_vars => [\A i \in Open \cap Open' : PastOf(i)]_vars
  BY NextStep, PastKept
<1> QED
  BY <1>1, TabsAreSound, PTL DEF Spec, NoPastRewritten
=============================================================================
