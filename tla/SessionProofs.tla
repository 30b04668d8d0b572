--------------------------- MODULE SessionProofs ---------------------------
(***************************************************************************)
(* Theorems about Session, for any cookies, archives, downloads and caps.  *)
(***************************************************************************)
EXTENDS Session, Recursion, TLAPS

Entry == [id : Saves, status : Statuses]

\* What there is: slices, keys, and lists of downloads, in memory and stored.
Shape ==
  /\ DOMAIN mem = Keys
  /\ DOMAIN store \subseteq Keys /\ due \subseteq Keys /\ touched \subseteq Keys
  /\ unsaved \subseteq Saves

Lists ==
  /\ mem["downloads"] \in Seq(Entry)
  /\ "downloads" \in DOMAIN store => store["downloads"] \in Seq(Entry)

\* A slice is due, or it is stored as it is shown, or a wipe took its key and
\* nothing was dispatched on it since.
Mirrored ==
  \A k \in Keys \ due : IF k \in DOMAIN store THEN store[k] = mem[k]
                                              ELSE wiping /\ k \notin touched

\* After a wipe, only what was dispatched on is stored or will be.
WipedClean == wiping => DOMAIN store \cup due \subseteq touched

\* The stored list may be behind the shown one by the ends that are due.
StoredIsUnderWay ==
  "downloads" \in DOMAIN store =>
    \A i \in DOMAIN store["downloads"] :
      store["downloads"][i].status = "intercepted" =>
        store["downloads"][i].id \in saving \cup cut \cup unsaved

StoreInv == Shape /\ Mirrored /\ WipedClean

SessionInv == StoreInv /\ Lists /\ StoredIsUnderWay /\ InterceptedIsUnderWay

-----------------------------------------------------------------------------
\* What the effects make of the store.

LEMMA FlushedMirrors ==
  ASSUME StoreInv
  PROVE  /\ DOMAIN Flushed = DOMAIN store \cup due
         /\ \A k \in DOMAIN Flushed : Flushed[k] = mem[k]
         /\ \A k \in Keys : k \notin DOMAIN Flushed => wiping /\ k \notin touched
BY DEF Flushed, StoreInv, Shape, Mirrored

\* When they have run, the store is behind nothing.
LEMMA FlushHolds ==
  ASSUME SessionInv, store' = Flushed, due' = {}, unsaved' = {},
         UNCHANGED <<mem, saving, wiping, touched, cut>>
  PROVE  SessionInv'
<1>1. /\ DOMAIN store' = DOMAIN store \cup due
      /\ \A k \in DOMAIN store' : store'[k] = mem[k]
      /\ \A k \in Keys : k \notin DOMAIN store' => wiping /\ k \notin touched
  BY FlushedMirrors DEF SessionInv
<1>2. StoreInv'
  BY <1>1 DEF SessionInv, StoreInv, Shape, Mirrored, WipedClean
<1>3. Lists'
  BY <1>1 DEF SessionInv, Lists
<1>4. InterceptedIsUnderWay'
  BY DEF SessionInv, InterceptedIsUnderWay
<1>5. StoredIsUnderWay'
  BY <1>1 DEF SessionInv, StoredIsUnderWay, InterceptedIsUnderWay, ToSet
<1> QED
  BY <1>2, <1>3, <1>4, <1>5 DEF SessionInv

\* What a dispatch does, whatever the slice and wherever it comes from.

Dispatch(key, value) == Persist(key, value) \/ (PersistLater(key, value) /\ unsaved' = unsaved)

LEMMA DispatchShape ==
  ASSUME NEW key \in Keys, NEW value, Shape, Persist(key, value) \/ PersistLater(key, value)
  PROVE  /\ DOMAIN mem' = Keys
         /\ mem'[key] = value
         /\ \A k \in Keys \ {key} : mem'[k] = mem[k]
BY DEF Persist, PersistLater, Shape

LEMMA PersistStore ==
  ASSUME NEW key \in Keys, NEW value, StoreInv, Persist(key, value)
  PROVE  /\ DOMAIN store' = DOMAIN store \cup due \cup {key}
         /\ \A k \in DOMAIN store' : store'[k] = mem'[k]
<1>1. /\ DOMAIN store' = DOMAIN Flushed \cup {key}
      /\ \A k \in DOMAIN store' : store'[k] = IF k = key THEN value ELSE Flushed[k]
  BY DEF Persist
<1>2. DOMAIN store' \subseteq Keys
  BY <1>1, FlushedMirrors DEF StoreInv, Shape
<1>3. \A k \in DOMAIN store' : store'[k] = mem'[k]
  BY <1>1, <1>2, FlushedMirrors, DispatchShape DEF StoreInv
<1> QED
  BY <1>1, <1>3, FlushedMirrors

LEMMA DispatchStore ==
  ASSUME NEW key \in Keys, NEW value, StoreInv, wiping' = wiping, unsaved' \subseteq Saves,
         Persist(key, value) \/ PersistLater(key, value)
  PROVE  StoreInv'
<1>1. touched' \subseteq Keys /\ touched \subseteq touched' /\ (wiping => key \in touched')
        /\ touched' \subseteq touched \cup {key}
  BY DEF Persist, PersistLater, Touch, StoreInv, Shape
<1>2. CASE Persist(key, value)
  <2>1. /\ DOMAIN store' = DOMAIN store \cup due \cup {key} /\ due' = {}
        /\ \A k \in DOMAIN store' : store'[k] = mem'[k]
    BY <1>2, PersistStore DEF Persist
  <2>2. Shape'
    BY <1>1, <2>1, DispatchShape DEF StoreInv, Shape
  <2>3. Mirrored'
    BY <1>1, <2>1 DEF StoreInv, Mirrored
  <2>4. WipedClean'
    BY <1>1, <2>1 DEF StoreInv, WipedClean
  <2> QED
    BY <2>2, <2>3, <2>4 DEF StoreInv
<1>3. CASE PersistLater(key, value)
  <2>1. store' = store /\ due' = due \cup {key}
    BY <1>3 DEF PersistLater
  <2>2. Shape'
    BY <1>1, <2>1, DispatchShape DEF StoreInv, Shape
  <2>3. Mirrored'
    BY <1>1, <2>1, DispatchShape DEF StoreInv, Mirrored
  <2>4. WipedClean'
    BY <1>1, <2>1 DEF StoreInv, WipedClean
  <2> QED
    BY <2>2, <2>3, <2>4 DEF StoreInv
<1> QED
  BY <1>2, <1>3

\* A dispatch on another slice than the downloads.
LEMMA PersistOther ==
  ASSUME NEW key \in Keys \ {"downloads"}, NEW value, SessionInv,
         Dispatch(key, value), wiping' = wiping, saving' = saving, cut' = cut
  PROVE  SessionInv'
<1>0. Persist(key, value) \/ PersistLater(key, value)
  BY DEF Dispatch
<1>1. "downloads" \in Keys \ {key}
  BY DEF Keys
<1>2. mem'["downloads"] = mem["downloads"]
  BY <1>0, <1>1, DispatchShape DEF SessionInv, StoreInv
<1>3. unsaved' \subseteq Saves
  BY DEF Dispatch, Persist, SessionInv, StoreInv, Shape
<1>4. StoreInv'
  BY <1>0, <1>3, DispatchStore DEF SessionInv
<1>5. InterceptedIsUnderWay'
  BY <1>2 DEF SessionInv, InterceptedIsUnderWay
<1>6. CASE Persist(key, value)
  <2>1. "downloads" \in DOMAIN store' => store'["downloads"] = mem["downloads"]
    BY <1>2, <1>6, PersistStore DEF SessionInv
  <2>2. Lists'
    BY <1>2, <2>1 DEF SessionInv, Lists
  <2>3. StoredIsUnderWay'
    BY <2>1 DEF SessionInv, StoredIsUnderWay, InterceptedIsUnderWay, ToSet
  <2> QED
    BY <1>4, <1>5, <2>2, <2>3 DEF SessionInv
<1>7. CASE PersistLater(key, value) /\ unsaved' = unsaved
  <2>1. store' = store
    BY <1>7 DEF PersistLater
  <2>2. Lists' /\ StoredIsUnderWay'
    BY <1>2, <1>7, <2>1 DEF SessionInv, Lists, StoredIsUnderWay
  <2> QED
    BY <1>4, <1>5, <2>2 DEF SessionInv
<1> QED
  BY <1>6, <1>7 DEF Dispatch

\* A dispatch on the downloads, given that what it lists is under way: from a
\* click, or as an end that is to be stored.
LEMMA PersistDownloads ==
  ASSUME NEW value \in Seq(Entry), SessionInv, wiping' = wiping,
         \/ Persist("downloads", value)
         \/ /\ PersistLater("downloads", value)
            /\ unsaved' \subseteq Saves
            /\ saving \cup cut \cup unsaved \subseteq saving' \cup cut' \cup unsaved',
         \A i \in DOMAIN value :
           value[i].status = "intercepted" => value[i].id \in saving' \cup cut'
  PROVE  SessionInv'
<1>0. Persist("downloads", value) \/ PersistLater("downloads", value)
  OBVIOUS
<1>1. "downloads" \in Keys
  BY DEF Keys
<1>2. mem'["downloads"] = value
  BY <1>0, <1>1, DispatchShape DEF SessionInv, StoreInv
<1>3. unsaved' \subseteq Saves
  BY DEF Persist
<1>4. StoreInv'
  BY <1>0, <1>1, <1>3, DispatchStore DEF SessionInv
<1>5. InterceptedIsUnderWay'
  BY <1>2 DEF InterceptedIsUnderWay, ToSet
<1>6. CASE Persist("downloads", value)
  <2>1. store'["downloads"] = value
    BY <1>1, <1>2, <1>6, PersistStore DEF SessionInv
  <2>2. Lists' /\ StoredIsUnderWay'
    BY <1>2, <2>1 DEF Lists, StoredIsUnderWay
  <2> QED
    BY <1>4, <1>5, <2>2 DEF SessionInv
<1>7. CASE ~ Persist("downloads", value)
  <2>1. store' = store
    BY <1>7 DEF PersistLater
  <2>2. Lists'
    BY <1>2, <2>1 DEF SessionInv, Lists
  <2>3. StoredIsUnderWay'
    BY <1>7, <2>1 DEF SessionInv, StoredIsUnderWay
  <2> QED
    BY <1>4, <1>5, <2>2, <2>3 DEF SessionInv
<1> QED
  BY <1>6, <1>7

\* A new entry in front of the list, and what falls off its end.
LEMMA ListedType ==
  ASSUME NEW d \in Entry, mem["downloads"] \in Seq(Entry)
  PROVE  /\ Listed(d) \in Seq(Entry)
         /\ \A i \in DOMAIN Listed(d) :
              Listed(d)[i] = d \/ Listed(d)[i] \in ToSet(mem["downloads"])
<1> DEFINE all == <<d>> \o mem["downloads"]
           n == IF Len(all) < MaxDownloads THEN Len(all) ELSE MaxDownloads
<1>1. all \in Seq(Entry)
  OBVIOUS
<1>2. n \in 0..Len(all)
  BY <1>1, CapAssumption
<1>3. Listed(d) = SubSeq(all, 1, n)
  BY DEF Listed
<1>4. SubSeq(all, 1, n) \in Seq(Entry) /\ DOMAIN SubSeq(all, 1, n) = 1..n
  BY <1>1, <1>2
<1>5. ASSUME NEW i \in 1..n
      PROVE  SubSeq(all, 1, n)[i] = d \/ SubSeq(all, 1, n)[i] \in ToSet(mem["downloads"])
  <2>1. SubSeq(all, 1, n)[i] = all[i] /\ i \in 1..Len(all)
    BY <1>1, <1>2
  <2>2. CASE i = 1
    <3>1. all[1] = d
      OBVIOUS
    <3> QED
      BY <2>1, <2>2, <3>1
  <2>3. CASE i # 1
    <3>1. all[i] = mem["downloads"][i - 1] /\ i - 1 \in DOMAIN mem["downloads"]
      BY <2>1, <2>3
    <3> QED
      BY <2>1, <3>1 DEF ToSet
  <2> QED
    BY <2>2, <2>3
<1> QED
  BY <1>3, <1>4, <1>5

-----------------------------------------------------------------------------
\* Each action.

LEMMA InitHolds == Init => SessionInv
<1> SUFFICES ASSUME Init PROVE SessionInv
  OBVIOUS
<1>1. DOMAIN store = {} /\ due = Keys /\ touched = {} /\ unsaved = {} /\ wiping = FALSE
  BY DEF Init
<1>2. DOMAIN mem = Keys /\ mem["downloads"] = <<>>
  BY DEF Init, Default, Keys
<1>3. StoreInv /\ Lists /\ StoredIsUnderWay
  BY <1>1, <1>2 DEF StoreInv, Shape, Mirrored, WipedClean, Lists, StoredIsUnderWay
<1>4. InterceptedIsUnderWay
  BY DEF Init, Default, InterceptedIsUnderWay, ToSet
<1> QED
  BY <1>3, <1>4 DEF SessionInv

LEMMA OtherSlices ==
  ASSUME SessionInv,
         \/ \E b \in BOOLEAN : ChangeSettings(b)
         \/ \E n \in Names : JarAdd(n) \/ JarDel(n)
         \/ \E x \in Archives : ExtToggle(x) \/ ExtDel(x)
         \/ NetBlocked
  PROVE  SessionInv'
<1> USE DEF Rest, Keys, Dispatch
<1>1. ASSUME NEW b \in BOOLEAN, ChangeSettings(b) PROVE SessionInv'
  BY <1>1, PersistOther DEF ChangeSettings
<1>2. ASSUME NEW n \in Names, JarAdd(n) PROVE SessionInv'
  BY <1>2, PersistOther DEF JarAdd
<1>3. ASSUME NEW n \in Names, JarDel(n) PROVE SessionInv'
  BY <1>3, PersistOther DEF JarDel
<1>4. ASSUME NEW x \in Archives, ExtToggle(x) PROVE SessionInv'
  BY <1>4, PersistOther DEF ExtToggle
<1>5. ASSUME NEW x \in Archives, ExtDel(x) PROVE SessionInv'
  BY <1>5, PersistOther DEF ExtDel
<1>6. ASSUME NetBlocked PROVE SessionInv'
  BY <1>6, PersistOther DEF NetBlocked
<1> QED
  BY <1>1, <1>2, <1>3, <1>4, <1>5, <1>6

\* The steps that dispatch on none of the stored slices.
LEMMA NothingStored ==
  ASSUME SessionInv, UNCHANGED <<mem, store, due, saving, wiping, touched, unsaved, cut>>
  PROVE  SessionInv'
BY DEF SessionInv, StoreInv, Shape, Mirrored, WipedClean, Lists, StoredIsUnderWay,
       InterceptedIsUnderWay

LEMMA ParsedHolds ==
  ASSUME SessionInv, NEW x \in Archives, Parsed(x)
  PROVE  SessionInv'
<1>1. CASE PersistLater("exts", <<[id |-> x, enabled |-> TRUE]>> \o mem.exts)
  BY <1>1, PersistOther DEF Parsed, Keys, Dispatch
<1>2. CASE UNCHANGED <<mem, store, due, touched>>
  BY <1>2, NothingStored DEF Parsed
<1> QED
  BY <1>1, <1>2 DEF Parsed

LEMMA SavePageHolds ==
  ASSUME SessionInv, NEW id \in Saves, SavePage(id)
  PROVE  SessionInv'
<1> DEFINE d == Download(id, "intercepted")
<1>1. d \in Entry /\ d.id = id
  BY DEF Download, Entry, Statuses
<1>2. Persist("downloads", Listed(d)) /\ wiping' = wiping /\ cut' = cut
        /\ saving' = saving \cup {id}
  BY DEF SavePage
<1>3. mem["downloads"] \in Seq(Entry)
  BY DEF SessionInv, Lists
<1>4. ASSUME NEW i \in DOMAIN Listed(d), Listed(d)[i].status = "intercepted"
      PROVE  Listed(d)[i].id \in saving' \cup cut'
  BY <1>1, <1>2, <1>3, <1>4, ListedType DEF SessionInv, InterceptedIsUnderWay
<1> HIDE DEF d
<1> QED
  BY <1>1, <1>2, <1>3, <1>4, ListedType, PersistDownloads

LEMMA ExportHolds ==
  ASSUME SessionInv, NEW id \in Saves, ExportSession(id)
  PROVE  SessionInv'
<1> DEFINE d == Download(id, "complete")
<1>1. d \in Entry /\ d.status # "intercepted"
  BY DEF Download, Entry, Statuses
<1>2. Persist("downloads", Listed(d)) /\ wiping' = wiping /\ cut' = cut /\ saving' = saving
  BY DEF ExportSession
<1>3. mem["downloads"] \in Seq(Entry)
  BY DEF SessionInv, Lists
<1>4. ASSUME NEW i \in DOMAIN Listed(d), Listed(d)[i].status = "intercepted"
      PROVE  Listed(d)[i].id \in saving' \cup cut'
  BY <1>1, <1>2, <1>3, <1>4, ListedType DEF SessionInv, InterceptedIsUnderWay
<1> HIDE DEF d
<1> QED
  BY <1>1, <1>2, <1>3, <1>4, ListedType, PersistDownloads

LEMMA SaveEndsHolds ==
  ASSUME SessionInv, NEW id \in Saves, SaveEnds(id)
  PROVE  SessionInv'
<1>1. PICK status \in {"complete", "blocked"} :
        PersistLater("downloads", [i \in DOMAIN mem.downloads |->
                       IF mem.downloads[i].id = id THEN Download(id, status)
                                                   ELSE mem.downloads[i]])
  BY DEF SaveEnds
<1> DEFINE list == mem["downloads"]
           value == [i \in DOMAIN list |->
                       IF list[i].id = id THEN Download(id, status) ELSE list[i]]
<1>2. list \in Seq(Entry)
  BY DEF SessionInv, Lists
<1>3. Download(id, status) \in Entry /\ Download(id, status).status # "intercepted"
  BY DEF Download, Entry, Statuses
<1>4. value \in Seq(Entry)
  BY <1>2, <1>3
<1>5. ASSUME NEW i \in DOMAIN value, value[i].status = "intercepted"
      PROVE  value[i].id \in saving' \cup cut'
  <2>1. value[i] = list[i] /\ list[i].id # id /\ list[i] \in ToSet(list)
    BY <1>3, <1>5 DEF ToSet
  <2>2. list[i].id \in saving \cup cut
    BY <1>5, <2>1 DEF SessionInv, InterceptedIsUnderWay
  <2> QED
    BY <2>1, <2>2 DEF SaveEnds
<1>6. /\ wiping' = wiping /\ unsaved' \subseteq Saves
      /\ saving \cup cut \cup unsaved \subseteq saving' \cup cut' \cup unsaved'
  BY DEF SaveEnds, SessionInv, StoreInv, Shape
<1>7. PersistLater("downloads", value)
  BY <1>1
<1> HIDE DEF value
<1> QED
  BY <1>4, <1>5, <1>6, <1>7, PersistDownloads

LEMMA ClearHolds ==
  ASSUME SessionInv, DownloadsClear
  PROVE  SessionInv'
<1>1. Persist("downloads", <<>>) /\ wiping' = wiping
  BY DEF DownloadsClear, Rest
<1>2. <<>> \in Seq(Entry) /\ DOMAIN <<>> = {}
  OBVIOUS
<1> QED
  BY <1>1, <1>2, PersistDownloads

LEMMA FlushesHold ==
  ASSUME SessionInv, Cloak \/ Blur \/ Effects
  PROVE  SessionInv'
<1>1. CASE Cloak
  BY <1>1, FlushHolds DEF Cloak, FlushFirst
<1>2. CASE Blur /\ mem.autoCloak /\ ~cloak
  BY <1>2, FlushHolds DEF Blur, FlushFirst
<1>3. CASE Blur /\ ~(mem.autoCloak /\ ~cloak)
  BY <1>3, NothingStored DEF Blur
<1>4. CASE Effects
  BY <1>4, FlushHolds DEF Effects
<1> QED
  BY <1>1, <1>2, <1>3, <1>4

LEMMA WipeHolds ==
  ASSUME SessionInv, Wipe
  PROVE  SessionInv'
<1>1. /\ DOMAIN store' = {} /\ due' = {} /\ touched' = {} /\ unsaved' = {} /\ wiping' = TRUE
      /\ UNCHANGED <<mem, saving, cut>>
  BY DEF Wipe
<1>2. StoreInv'
  BY <1>1 DEF SessionInv, StoreInv, Shape, Mirrored, WipedClean
<1>3. Lists' /\ StoredIsUnderWay' /\ InterceptedIsUnderWay'
  BY <1>1 DEF SessionInv, Lists, StoredIsUnderWay, InterceptedIsUnderWay
<1> QED
  BY <1>2, <1>3 DEF SessionInv

\* The list that is read back is the stored one, or it is empty; what the
\* load cut off is what the stored list may be behind.
LEMMA ReloadHolds ==
  ASSUME SessionInv, Reload
  PROVE  SessionInv'
<1>1. /\ DOMAIN mem' = Keys /\ store' = store /\ due' = Keys /\ touched' = {}
      /\ unsaved' = {} /\ cut' = cut \cup saving \cup unsaved /\ wiping' = FALSE
  BY DEF Reload
<1>2. "downloads" \in Keys /\ Default["downloads"] = <<>>
  BY DEF Keys, Default
<1>3. mem'["downloads"] = IF "downloads" \in DOMAIN store THEN store["downloads"] ELSE <<>>
  BY <1>2 DEF Reload
<1>4. StoreInv'
  BY <1>1 DEF SessionInv, StoreInv, Shape, Mirrored, WipedClean
<1>5. Lists'
  <2>1. <<>> \in Seq(Entry)
    OBVIOUS
  <2> QED
    BY <1>1, <1>3, <2>1 DEF SessionInv, Lists
<1>6. StoredIsUnderWay'
  BY <1>1 DEF SessionInv, StoredIsUnderWay
<1>7. InterceptedIsUnderWay'
  <2>1. DOMAIN <<>> = {}
    OBVIOUS
  <2> QED
    BY <1>1, <1>3, <2>1 DEF SessionInv, StoredIsUnderWay, InterceptedIsUnderWay, ToSet
<1> QED
  BY <1>4, <1>5, <1>6, <1>7 DEF SessionInv

LEMMA StepHolds == SessionInv /\ [Next]_vars => SessionInv'
<1> SUFFICES ASSUME SessionInv, [Next]_vars PROVE SessionInv'
  OBVIOUS
<1>1. CASE \/ \E b \in BOOLEAN : ChangeSettings(b)
           \/ \E n \in Names : JarAdd(n) \/ JarDel(n)
           \/ \E x \in Archives : ExtToggle(x) \/ ExtDel(x)
           \/ NetBlocked
  BY <1>1, OtherSlices
<1>2. CASE \E id \in Saves : SavePage(id) \/ ExportSession(id) \/ SaveEnds(id)
  BY <1>2, SavePageHolds, ExportHolds, SaveEndsHolds
<1>3. CASE DownloadsClear
  BY <1>3, ClearHolds
<1>4. CASE \E x \in Archives : Parsed(x)
  BY <1>4, ParsedHolds
<1>5. CASE (\E x \in Archives : PickArchive(x)) \/ Focus \/ UNCHANGED vars
  BY <1>5, NothingStored DEF PickArchive, Focus, vars
<1>6. CASE Wipe
  BY <1>6, WipeHolds
<1>7. CASE Reload
  BY <1>7, ReloadHolds
<1>8. CASE Cloak \/ Blur \/ Effects
  BY <1>8, FlushesHold
<1> QED
  BY <1>1, <1>2, <1>3, <1>4, <1>5, <1>6, <1>7, <1>8 DEF Next, Panels

-----------------------------------------------------------------------------
\* After any dispatches, late results and wipes, a page load brings back what
\* was shown but for what was due; after a wipe it brings back only slices that
\* were dispatched on in the 60 ms (the effects of BrowserProvider, "wipe").
THEOREM LoadBringsAlways == Spec => LoadBrings
<1>1. ASSUME SessionInv, Reload, NEW k \in Keys
      PROVE  IF wiping /\ k \notin touched THEN mem'[k] = Default[k]
                                          ELSE mem'[k] = mem[k] \/ k \in due
  <2>1. mem'[k] = IF k \in DOMAIN store THEN store[k] ELSE Default[k]
    BY <1>1 DEF Reload
  <2>2. CASE wiping /\ k \notin touched
    BY <1>1, <2>1, <2>2 DEF SessionInv, StoreInv, WipedClean
  <2>3. CASE ~ (wiping /\ k \notin touched) /\ k \notin due
    BY <1>1, <2>1, <2>3 DEF SessionInv, StoreInv, Mirrored
  <2> QED
    BY <2>2, <2>3
<1>2. SessionInv /\ [Next]_vars =>
        [Reload => \A k \in Keys :
           IF wiping /\ k \notin touched THEN mem'[k] = Default[k]
                                        ELSE mem'[k] = mem[k] \/ k \in due]_vars
  BY <1>1
<1> QED
  BY <1>2, InitHolds, StepHolds, PTL DEF Spec, LoadBrings

\* No order of ends, exports, clears, page loads and the cap leaves a download
\* shown as on its way that is not (download-add, download-status).
THEOREM InterceptedAlways == Spec => []InterceptedIsUnderWay
<1>1. SessionInv => InterceptedIsUnderWay
  BY DEF SessionInv
<1> QED
  BY <1>1, InitHolds, StepHolds, PTL DEF Spec

\* Away from the focus nothing switches auto-cloak on and nothing takes the
\* cloak off, and what takes the focus away puts it on (the blur listener, the
\* panic key, the panels, the reload of a wipe).
THEOREM AwayAlwaysCloaked == Spec => []AwayIsCloaked
<1> DEFINE Inv == DOMAIN mem = Keys /\ AwayIsCloaked
<1>1. Init => Inv
  BY DEF Init, AwayIsCloaked, Default, Keys
<1>2. Inv /\ [Next]_vars => Inv'
  <2> SUFFICES ASSUME Inv, [Next]_vars PROVE Inv'
    OBVIOUS
  <2>0. DOMAIN mem' = Keys
    <3>1. CASE UNCHANGED mem
      BY <3>1
    <3>2. CASE \E key, value : Persist(key, value) \/ PersistLater(key, value)
      BY <3>2 DEF Persist, PersistLater
    <3>3. CASE Reload
      BY <3>3 DEF Reload
    <3> QED
      BY <3>1, <3>2, <3>3
         DEF Next, Panels, ChangeSettings, JarAdd, JarDel, PickArchive, ExtToggle, ExtDel,
             SavePage, ExportSession, DownloadsClear, Parsed, SaveEnds, NetBlocked,
             Effects, Cloak, Blur, Focus, Wipe, vars
  <2>1. CASE Blur
    BY <2>0, <2>1 DEF Blur, AwayIsCloaked
  <2>2. CASE Reload
    BY <2>0, <2>2 DEF Reload, AwayIsCloaked
  <2>3. CASE Focus
    BY <2>0, <2>3 DEF Focus, AwayIsCloaked
  <2>4. CASE Panels \/ Wipe
    <3>0. focused
      BY <2>4 DEF Panels, ChangeSettings, JarAdd, JarDel, PickArchive, ExtToggle, ExtDel,
                  SavePage, ExportSession, DownloadsClear, Cloak, Wipe
    <3>1. focused' = focused
      BY <2>4 DEF Panels, ChangeSettings, JarAdd, JarDel, PickArchive, ExtToggle, ExtDel,
                  SavePage, ExportSession, DownloadsClear, Cloak, Wipe, Rest
    <3> QED
      BY <2>0, <3>0, <3>1 DEF AwayIsCloaked
  <2>5. CASE (\E x \in Archives : Parsed(x)) \/ (\E id \in Saves : SaveEnds(id)) \/ NetBlocked
    <3>1. UNCHANGED <<cloak, focused, unseen>>
      BY <2>5 DEF Parsed, SaveEnds, NetBlocked, Rest
    <3>2. mem'["autoCloak"] = mem["autoCloak"]
      <4>1. \/ UNCHANGED mem
            \/ \E key \in {"exts", "downloads", "blocked"} : \E value : PersistLater(key, value)
        BY <2>5 DEF Parsed, SaveEnds, NetBlocked
      <4> QED
        BY <4>1 DEF PersistLater, Keys
    <3> QED
      BY <2>0, <3>1, <3>2 DEF AwayIsCloaked
  <2>6. CASE Effects \/ UNCHANGED vars
    BY <2>0, <2>6 DEF Effects, vars, AwayIsCloaked
  <2> QED
    BY <2>1, <2>2, <2>3, <2>4, <2>5, <2>6 DEF Next
<1>3. Inv => AwayIsCloaked
  OBVIOUS
<1> QED
  BY <1>1, <1>2, <1>3, PTL DEF Spec

-----------------------------------------------------------------------------
\* Types.  What a page load would read back has them, too; ids stay apart
\* because an archive is an extension only after it was read, and is read once.

ReadBack == [k \in Keys |-> IF k \in DOMAIN store THEN store[k] ELSE Default[k]]

ReadOnce ==
  /\ parsing \subseteq used
  /\ \A i \in DOMAIN mem.exts : mem.exts[i].id \in used \ parsing
  /\ \A i \in DOMAIN ReadBack.exts : ReadBack.exts[i].id \in used \ parsing

Jars == {q \in Seq(Names) : IsInjective(q)}

ExtLists == {q \in Seq(Extension) : \A i, j \in DOMAIN q : q[i].id = q[j].id => i = j}

DownloadLists == {q \in Seq(Entry) : Len(q) <= MaxDownloads}

Fits == [autoCloak : BOOLEAN, jar : Jars, exts : ExtLists,
         downloads : DownloadLists, blocked : 0..MaxBlocked]

TypeInv ==
  /\ SessionInv
  /\ mem \in Fits /\ ReadBack \in Fits
  /\ cloak \in BOOLEAN /\ focused \in BOOLEAN /\ unseen \in BOOLEAN /\ wiping \in BOOLEAN
  /\ parsing \subseteq Archives /\ saving \subseteq Saves
  /\ used \subseteq Archives \cup Saves
  /\ cut \subseteq Saves
  /\ ReadOnce

LEMMA TypeInvImplies == TypeInv => TypeOK
<1> SUFFICES ASSUME TypeInv PROVE TypeOK
  OBVIOUS
<1>1. mem \in Slices
  BY DEF TypeInv, Fits, Slices, Jars, ExtLists, DownloadLists, Entry
<1>2. /\ IsInjective(mem.jar)
      /\ \A i, j \in DOMAIN mem.exts : mem.exts[i].id = mem.exts[j].id => i = j
      /\ Len(mem.downloads) <= MaxDownloads
  BY DEF TypeInv, Fits, Jars, ExtLists, DownloadLists
<1>3. DOMAIN store \cup due \cup touched \subseteq Keys /\ unsaved \subseteq Saves
  BY DEF TypeInv, SessionInv, StoreInv, Shape
<1>4. /\ {cloak, focused, unseen, wiping} \subseteq BOOLEAN
      /\ parsing \subseteq Archives /\ saving \subseteq Saves
      /\ used \subseteq Archives \cup Saves
      /\ cut \subseteq Saves
  BY DEF TypeInv
<1> QED
  BY <1>1, <1>2, <1>3, <1>4 DEF TypeOK

Change(key, value) == Persist(key, value) \/ PersistLater(key, value)

\* A dispatch whose value is of its slice leaves the state in its types.
LEMMA PersistFits ==
  ASSUME NEW key, NEW value, mem \in Fits, Change(key, value),
         \/ key = "autoCloak" /\ value \in BOOLEAN
         \/ key = "jar" /\ value \in Jars
         \/ key = "exts" /\ value \in ExtLists
         \/ key = "downloads" /\ value \in DownloadLists
         \/ key = "blocked" /\ value \in 0..MaxBlocked
  PROVE  mem' \in Fits
<1>1. mem' = [mem EXCEPT ![key] = value]
  BY DEF Change, Persist, PersistLater
<1> QED
  BY <1>1 DEF Fits

\* And any other slice than the extensions leaves these alone.
LEMMA PersistKeepsExts ==
  ASSUME NEW key \in Keys \ {"exts"}, NEW value, mem \in Fits, Change(key, value)
  PROVE  mem'.exts = mem.exts
BY DEF Change, Persist, PersistLater, Fits, Keys

\* What would be read back changes by no step but to what is shown then, or to
\* nothing.
StoreStep == \A k \in Keys : ReadBack'[k] \in {mem'[k], ReadBack[k], Default[k]}

LEMMA ChangeStores ==
  ASSUME NEW key \in Keys, NEW value, StoreInv, Change(key, value)
  PROVE  StoreStep
<1> SUFFICES ASSUME NEW k \in Keys PROVE ReadBack'[k] \in {mem'[k], ReadBack[k], Default[k]}
  BY DEF StoreStep
<1>1. ReadBack'[k] = IF k \in DOMAIN store' THEN store'[k] ELSE Default[k]
  BY DEF ReadBack
<1>2. ReadBack[k] = IF k \in DOMAIN store THEN store[k] ELSE Default[k]
  BY DEF ReadBack
<1>3. CASE Persist(key, value)
  BY <1>1, <1>3, PersistStore
<1>4. CASE PersistLater(key, value)
  BY <1>1, <1>2, <1>4 DEF PersistLater
<1> QED
  BY <1>3, <1>4 DEF Change

LEMMA FlushStores ==
  ASSUME StoreInv, store' = Flushed, mem' = mem
  PROVE  StoreStep
<1> SUFFICES ASSUME NEW k \in Keys PROVE ReadBack'[k] \in {mem'[k], ReadBack[k], Default[k]}
  BY DEF StoreStep
<1>1. ReadBack'[k] = IF k \in DOMAIN store' THEN store'[k] ELSE Default[k]
  BY DEF ReadBack
<1> QED
  BY <1>1, FlushedMirrors

LEMMA SameStores ==
  ASSUME store' = store \/ DOMAIN store' = {}
  PROVE  StoreStep
BY DEF StoreStep, ReadBack

LEMMA StoreSteps ==
  ASSUME SessionInv, Next
  PROVE  StoreStep
<1>0. StoreInv
  BY DEF SessionInv
<1>1. CASE \E key \in Keys : \E value : Change(key, value)
  BY <1>0, <1>1, ChangeStores
<1>2. CASE store' = Flushed /\ mem' = mem
  BY <1>0, <1>2, FlushStores
<1>3. CASE store' = store \/ DOMAIN store' = {}
  BY <1>3, SameStores
<1>4. CASE Panels
  <2>1. CASE \/ \E b \in BOOLEAN : ChangeSettings(b)
             \/ \E n \in Names : JarAdd(n) \/ JarDel(n)
             \/ \E x \in Archives : ExtToggle(x) \/ ExtDel(x)
             \/ \E id \in Saves : SavePage(id) \/ ExportSession(id)
             \/ DownloadsClear
    <3>1. \E key \in Keys : \E value : Persist(key, value)
      BY <2>1 DEF ChangeSettings, JarAdd, JarDel, ExtToggle, ExtDel, SavePage, ExportSession,
                  DownloadsClear, Keys
    <3> QED
      BY <1>1, <3>1 DEF Change
  <2>2. CASE \E x \in Archives : PickArchive(x)
    BY <1>3, <2>2 DEF PickArchive
  <2>3. CASE Cloak
    BY <1>2, <2>3 DEF Cloak, FlushFirst
  <2> QED
    BY <1>4, <2>1, <2>2, <2>3 DEF Panels
<1>5. CASE (\E x \in Archives : Parsed(x)) \/ (\E id \in Saves : SaveEnds(id)) \/ NetBlocked
  <2>1. store' = store
    BY <1>5 DEF Parsed, SaveEnds, NetBlocked, PersistLater
  <2> QED
    BY <1>3, <2>1
<1>6. CASE Effects
  BY <1>2, <1>6 DEF Effects
<1>7. CASE Blur
  BY <1>2, <1>3, <1>7 DEF Blur, FlushFirst
<1>8. CASE Focus \/ Wipe \/ Reload
  BY <1>3, <1>8 DEF Focus, Wipe, Reload
<1> QED
  BY <1>4, <1>5, <1>6, <1>7, <1>8 DEF Next

\* jar-add and jar-del keep the names apart.
LEMMA JarWithout ==
  ASSUME NEW jar \in Jars, NEW name \in Names
  PROVE  /\ Select(jar, Names \ {name}) \in Jars
         /\ <<name>> \o Select(jar, Names \ {name}) \in Jars
<1> DEFINE keep == Names \ {name}
           key == [n \in Names |-> n]
           r == Select(jar, keep)
<1>1. jar \in Seq(Names) /\ Distinct(jar, key)
  BY DEF Jars, IsInjective, Distinct
<1>2. r \in Seq(Names)
  BY <1>1, SelectTyped
<1> HIDE DEF key
<1>3. Distinct(r, key) /\ Drawn(r, jar, keep)
  BY <1>1, SelectDistinct
<1> HIDE DEF r
<1>4. \A i \in DOMAIN r : r[i] \in Names /\ r[i] # name
  BY <1>2, <1>3 DEF Drawn
<1>5. \A i, j \in DOMAIN r : r[i] = r[j] => i = j
  BY <1>3 DEF Distinct
<1>6. r \in Jars
  BY <1>2, <1>5 DEF Jars, IsInjective
<1>7. <<name>> \o r \in Jars
  <2> DEFINE l == <<name>> \o r
  <2>1. /\ l \in Seq(Names) /\ DOMAIN l = 1..(Len(r) + 1) /\ l[1] = name
        /\ \A i \in 2..(Len(r) + 1) : i - 1 \in DOMAIN r /\ l[i] = r[i - 1]
    BY <1>2
  <2> HIDE DEF l
  <2>2. \A i \in DOMAIN l : i = 1 \/ i \in 2..(Len(r) + 1)
    BY <1>2, <2>1
  <2>3. ASSUME NEW i \in DOMAIN l, NEW j \in DOMAIN l, l[i] = l[j] PROVE i = j
    <3>1. CASE i = 1 /\ j = 1
      BY <3>1
    <3>2. CASE i = 1 /\ j # 1
      BY <1>4, <2>1, <2>2, <2>3, <3>2
    <3>3. CASE i # 1 /\ j = 1
      BY <1>4, <2>1, <2>2, <2>3, <3>3
    <3>4. CASE i # 1 /\ j # 1
      <4>1. i - 1 = j - 1
        BY <1>5, <2>1, <2>2, <2>3, <3>4
      <4> QED
        BY <1>2, <2>1, <4>1
    <3> QED
      BY <3>1, <3>2, <3>3, <3>4
  <2>4. l \in Jars
    BY <2>1, <2>3 DEF Jars, IsInjective
  <2> QED
    BY <2>4 DEF l
<1> QED
  BY <1>6, <1>7 DEF r

\* ext-del takes an id out.
LEMMA ExtsWithout ==
  ASSUME NEW exts \in ExtLists, NEW keep
  PROVE  /\ Select(exts, keep) \in ExtLists
         /\ \A i \in DOMAIN Select(exts, keep) : \E j \in DOMAIN exts : Select(exts, keep)[i] = exts[j]
<1> DEFINE key == [e \in Extension |-> e.id]
           r == Select(exts, keep)
<1>1. exts \in Seq(Extension) /\ Distinct(exts, key)
  BY DEF ExtLists, Distinct
<1>2. r \in Seq(Extension)
  BY <1>1, SelectTyped
<1>3. \A i \in DOMAIN r : r[i] \in Extension /\ key[r[i]] = r[i].id
  <2> HIDE DEF r
  <2> QED
    BY <1>2
<1> HIDE DEF key
<1>4. Distinct(r, key) /\ Drawn(r, exts, keep)
  BY <1>1, SelectDistinct
<1> HIDE DEF r
<1>5. \A i, j \in DOMAIN r : r[i].id = r[j].id => i = j
  BY <1>3, <1>4 DEF Distinct
<1>6. r \in ExtLists
  BY <1>2, <1>5 DEF ExtLists
<1>7. \A i \in DOMAIN r : \E j \in DOMAIN exts : r[i] = exts[j]
  BY <1>4 DEF Drawn
<1> QED
  BY <1>6, <1>7 DEF r

\* An extension in front whose id is new.
LEMMA ExtsWith ==
  ASSUME NEW exts \in ExtLists, NEW e \in Extension,
         \A i \in DOMAIN exts : exts[i].id # e.id
  PROVE  /\ <<e>> \o exts \in ExtLists
         /\ \A i \in DOMAIN (<<e>> \o exts) :
              (<<e>> \o exts)[i] = e \/ \E j \in DOMAIN exts : (<<e>> \o exts)[i] = exts[j]
<1> DEFINE l == <<e>> \o exts
<1>0. exts \in Seq(Extension) /\ \A i, j \in DOMAIN exts : exts[i].id = exts[j].id => i = j
  BY DEF ExtLists
<1>1. /\ l \in Seq(Extension) /\ DOMAIN l = 1..(Len(exts) + 1) /\ l[1] = e
      /\ \A i \in 2..(Len(exts) + 1) : i - 1 \in DOMAIN exts /\ l[i] = exts[i - 1]
  BY <1>0
<1> HIDE DEF l
<1>2. \A i \in DOMAIN l : i = 1 \/ i \in 2..(Len(exts) + 1)
  BY <1>0, <1>1
<1>3. ASSUME NEW i \in DOMAIN l, NEW j \in DOMAIN l, l[i].id = l[j].id PROVE i = j
  <2>1. CASE i = 1 /\ j = 1
    BY <2>1
  <2>2. CASE i = 1 /\ j # 1
    BY <1>1, <1>2, <1>3, <2>2
  <2>3. CASE i # 1 /\ j = 1
    BY <1>1, <1>2, <1>3, <2>3
  <2>4. CASE i # 1 /\ j # 1
    <3>1. i - 1 = j - 1
      BY <1>0, <1>1, <1>2, <1>3, <2>4
    <3> QED
      BY <1>0, <1>1, <3>1
  <2> QED
    BY <2>1, <2>2, <2>3, <2>4
<1>4. l \in ExtLists
  BY <1>1, <1>3 DEF ExtLists
<1>5. \A i \in DOMAIN l : l[i] = e \/ \E j \in DOMAIN exts : l[i] = exts[j]
  BY <1>1, <1>2
<1> QED
  BY <1>4, <1>5 DEF l

\* The cap holds.
LEMMA ListedCapped ==
  ASSUME NEW d \in Entry, mem["downloads"] \in Seq(Entry)
  PROVE  Listed(d) \in DownloadLists
<1> DEFINE all == <<d>> \o mem["downloads"]
           n == IF Len(all) < MaxDownloads THEN Len(all) ELSE MaxDownloads
<1>1. all \in Seq(Entry)
  OBVIOUS
<1>2. n \in 0..Len(all) /\ n <= MaxDownloads
  BY <1>1, CapAssumption
<1>3. Listed(d) = SubSeq(all, 1, n)
  BY DEF Listed
<1>4. SubSeq(all, 1, n) \in Seq(Entry) /\ Len(SubSeq(all, 1, n)) = n
  BY <1>1, <1>2
<1> QED
  BY <1>2, <1>3, <1>4 DEF DownloadLists

LEMMA DefaultFits == Default \in Fits /\ DOMAIN Default.exts = {}
<1>1. <<>> \in Jars /\ <<>> \in ExtLists /\ <<>> \in DownloadLists
  BY CapAssumption DEF Jars, ExtLists, DownloadLists, IsInjective
<1>2. 0 \in 0..MaxBlocked
  BY CapAssumption
<1> QED
  BY <1>1, <1>2 DEF Default, Fits

\* Slices that are each one of three of their type are slices.
LEMMA FitsMixed ==
  ASSUME NEW a \in Fits, NEW b \in Fits, NEW c \in Fits, NEW m, DOMAIN m = Keys,
         m = [k \in Keys |-> m[k]],
         \A k \in Keys : m[k] \in {a[k], b[k], c[k]}
  PROVE  m \in Fits
<1>1. /\ m["autoCloak"] \in BOOLEAN /\ m["jar"] \in Jars /\ m["exts"] \in ExtLists
      /\ m["downloads"] \in DownloadLists /\ m["blocked"] \in 0..MaxBlocked
  BY DEF Fits, Keys
<1>2. m = [autoCloak |-> m["autoCloak"], jar |-> m["jar"], exts |-> m["exts"],
           downloads |-> m["downloads"], blocked |-> m["blocked"]]
  BY DEF Keys
<1> HIDE DEF Keys
<1> QED
  BY <1>1, <1>2 DEF Fits

LEMMA StoreTyped ==
  ASSUME TypeInv, StoreStep, mem' \in Fits, used \ parsing \subseteq used' \ parsing',
         \A i \in DOMAIN mem'.exts : mem'.exts[i].id \in used' \ parsing'
  PROVE  /\ ReadBack' \in Fits
         /\ \A i \in DOMAIN ReadBack'.exts : ReadBack'.exts[i].id \in used' \ parsing'
<1>1. /\ ReadBack \in Fits
      /\ \A i \in DOMAIN ReadBack.exts : ReadBack.exts[i].id \in used \ parsing
  BY DEF TypeInv, ReadOnce
<1>2. DOMAIN ReadBack' = Keys /\ ReadBack' = [k \in Keys |-> ReadBack'[k]]
  BY DEF ReadBack
<1>3. \A k \in Keys : ReadBack'[k] \in {mem'[k], ReadBack[k], Default[k]}
  BY DEF StoreStep
<1>4. "exts" \in Keys
  BY DEF Keys
<1>5. ReadBack'.exts \in {mem'.exts, ReadBack.exts, Default.exts}
  BY <1>3, <1>4
<1> HIDE DEF ReadBack
<1>6. ReadBack' \in Fits
  BY <1>1, <1>2, <1>3, DefaultFits, FitsMixed
<1> QED
  BY <1>1, <1>5, <1>6, DefaultFits

\* The steps that leave the extensions and what is being read alone.
LEMMA TypesKept ==
  ASSUME TypeInv, SessionInv', StoreStep, mem' \in Fits, mem'.exts = mem.exts,
         parsing' = parsing, used \subseteq used', used' \subseteq Archives \cup Saves,
         cloak' \in BOOLEAN, focused' \in BOOLEAN, unseen' \in BOOLEAN, wiping' \in BOOLEAN,
         saving' \subseteq Saves, cut' \subseteq Saves
  PROVE  TypeInv'
<1>1. /\ used \ parsing \subseteq used' \ parsing'
      /\ \A i \in DOMAIN mem'.exts : mem'.exts[i].id \in used' \ parsing'
  BY DEF TypeInv, ReadOnce
<1>2. /\ ReadBack' \in Fits
      /\ \A i \in DOMAIN ReadBack'.exts : ReadBack'.exts[i].id \in used' \ parsing'
  BY <1>1, StoreTyped
<1> HIDE DEF ReadBack
<1>3. ReadOnce'
  BY <1>1, <1>2 DEF TypeInv, ReadOnce
<1> QED
  BY <1>2, <1>3 DEF TypeInv

-----------------------------------------------------------------------------
LEMMA InitTypes == Init => TypeInv
<1> SUFFICES ASSUME Init PROVE TypeInv
  OBVIOUS
<1>1. mem = Default
  BY DEF Init
<1>2. ReadBack = Default
  <2>1. ReadBack = [k \in Keys |-> Default[k]]
    BY DEF Init, ReadBack
  <2> QED
    BY <2>1 DEF Default, Keys
<1>3. /\ cloak \in BOOLEAN /\ focused \in BOOLEAN /\ unseen \in BOOLEAN /\ wiping \in BOOLEAN
      /\ parsing = {} /\ saving = {} /\ used = {} /\ cut = {}
  BY DEF Init
<1> QED
  BY <1>1, <1>2, <1>3, DefaultFits, InitHolds DEF TypeInv, ReadOnce

LEMMA PanelTypes ==
  ASSUME TypeInv, SessionInv', StoreStep,
         \/ \E b \in BOOLEAN : ChangeSettings(b)
         \/ \E n \in Names : JarAdd(n) \/ JarDel(n)
         \/ NetBlocked
         \/ DownloadsClear
  PROVE  TypeInv'
<1>0. mem \in Fits
  BY DEF TypeInv
<1>1. ASSUME NEW b \in BOOLEAN, ChangeSettings(b) PROVE TypeInv'
  <2>1. mem' \in Fits /\ mem'.exts = mem.exts
    BY <1>0, <1>1, PersistFits, PersistKeepsExts DEF Change, ChangeSettings, Keys
  <2> QED
    BY <1>1, <2>1, TypesKept DEF ChangeSettings, Rest, TypeInv
<1>2. ASSUME NEW n \in Names, JarAdd(n) PROVE TypeInv'
  <2>1. mem.jar \in Jars
    BY <1>0 DEF Fits
  <2>2. <<n>> \o Select(mem.jar, Names \ {n}) \in Jars
    BY <2>1, JarWithout
  <2>3. mem' \in Fits /\ mem'.exts = mem.exts
    BY <1>0, <1>2, <2>2, PersistFits, PersistKeepsExts DEF Change, JarAdd, Keys
  <2> QED
    BY <1>2, <2>3, TypesKept DEF JarAdd, Rest, TypeInv
<1>3. ASSUME NEW n \in Names, JarDel(n) PROVE TypeInv'
  <2>1. mem.jar \in Jars
    BY <1>0 DEF Fits
  <2>2. Select(mem.jar, Names \ {n}) \in Jars
    BY <2>1, JarWithout
  <2>3. mem' \in Fits /\ mem'.exts = mem.exts
    BY <1>0, <1>3, <2>2, PersistFits, PersistKeepsExts DEF Change, JarDel, Keys
  <2> QED
    BY <1>3, <2>3, TypesKept DEF JarDel, Rest, TypeInv
<1>4. ASSUME NetBlocked PROVE TypeInv'
  <2>1. mem.blocked + 1 \in 0..MaxBlocked
    BY <1>0, <1>4, CapAssumption DEF NetBlocked, Fits
  <2>2. mem' \in Fits /\ mem'.exts = mem.exts
    BY <1>0, <1>4, <2>1, PersistFits, PersistKeepsExts DEF Change, NetBlocked, Keys
  <2> QED
    BY <1>4, <2>2, TypesKept DEF NetBlocked, Rest, TypeInv
<1>5. ASSUME DownloadsClear PROVE TypeInv'
  <2>1. <<>> \in DownloadLists
    BY CapAssumption DEF DownloadLists
  <2>2. mem' \in Fits /\ mem'.exts = mem.exts
    BY <1>0, <1>5, <2>1, PersistFits, PersistKeepsExts DEF Change, DownloadsClear, Keys
  <2> QED
    BY <1>5, <2>2, TypesKept DEF DownloadsClear, Rest, TypeInv
<1> QED
  BY <1>1, <1>2, <1>3, <1>4, <1>5

LEMMA DownloadTypes ==
  ASSUME TypeInv, SessionInv', StoreStep, NEW id \in Saves,
         SavePage(id) \/ ExportSession(id) \/ SaveEnds(id)
  PROVE  TypeInv'
<1>0. mem \in Fits /\ mem.downloads \in DownloadLists /\ mem["downloads"] \in Seq(Entry)
  BY DEF TypeInv, Fits, DownloadLists
<1>1. CASE SavePage(id)
  <2>1. Download(id, "intercepted") \in Entry
    BY DEF Download, Entry, Statuses
  <2>2. mem' \in Fits /\ mem'.exts = mem.exts
    BY <1>0, <1>1, <2>1, ListedCapped, PersistFits, PersistKeepsExts DEF Change, SavePage, Keys
  <2> QED
    BY <1>1, <2>2, TypesKept DEF SavePage, TypeInv
<1>2. CASE ExportSession(id)
  <2>1. Download(id, "complete") \in Entry
    BY DEF Download, Entry, Statuses
  <2>2. mem' \in Fits /\ mem'.exts = mem.exts
    BY <1>0, <1>2, <2>1, ListedCapped, PersistFits, PersistKeepsExts DEF Change, ExportSession, Keys
  <2> QED
    BY <1>2, <2>2, TypesKept DEF ExportSession, TypeInv
<1>3. CASE SaveEnds(id)
  <2> DEFINE list == mem.downloads
             After(status) == [i \in DOMAIN list |->
                         IF list[i].id = id THEN Download(id, status) ELSE list[i]]
  <2>1. PICK status \in {"complete", "blocked"} : PersistLater("downloads", After(status))
    BY <1>3 DEF SaveEnds
  <2>2. Download(id, status) \in Entry
    BY DEF Download, Entry, Statuses
  <2>3. After(status) \in DownloadLists
    <3>1. list \in Seq(Entry) /\ Len(list) <= MaxDownloads
      BY <1>0 DEF DownloadLists
    <3>2. After(status) \in Seq(Entry) /\ Len(After(status)) = Len(list)
      BY <2>2, <3>1
    <3> QED
      BY <3>1, <3>2 DEF DownloadLists
  <2> HIDE DEF After
  <2>4. mem' \in Fits /\ mem'.exts = mem.exts
    BY <1>0, <2>1, <2>3, PersistFits, PersistKeepsExts DEF Change, Keys
  <2> QED
    BY <1>3, <2>4, TypesKept DEF SaveEnds, TypeInv
<1> QED
  BY <1>1, <1>2, <1>3

\* A dispatch on the extensions.
LEMMA PersistExts ==
  ASSUME TypeInv, SessionInv', StoreStep, NEW exts \in ExtLists, Change("exts", exts),
         used' = used, parsing' \subseteq parsing,
         \A i \in DOMAIN exts : exts[i].id \in used \ parsing',
         UNCHANGED <<cloak, focused, unseen, saving, wiping, cut>>
  PROVE  TypeInv'
<1>1. mem' \in Fits
  BY PersistFits DEF TypeInv
<1>2. mem'.exts = exts
  BY DEF Change, Persist, PersistLater, TypeInv, Fits
<1>3. /\ ReadBack' \in Fits
      /\ \A i \in DOMAIN ReadBack'.exts : ReadBack'.exts[i].id \in used' \ parsing'
  BY <1>1, <1>2, StoreTyped
<1> HIDE DEF ReadBack
<1> QED
  BY <1>1, <1>2, <1>3 DEF TypeInv, ReadOnce

LEMMA ExtensionTypes ==
  ASSUME TypeInv, SessionInv', StoreStep, NEW x \in Archives,
         PickArchive(x) \/ Parsed(x) \/ ExtToggle(x) \/ ExtDel(x)
  PROVE  TypeInv'
<1>0. /\ mem.exts \in ExtLists /\ mem.exts \in Seq(Extension)
      /\ parsing \subseteq used
      /\ \A i \in DOMAIN mem.exts : mem.exts[i].id \in used \ parsing
  BY DEF TypeInv, Fits, ExtLists, ReadOnce
<1>1. CASE PickArchive(x)
  <2>1. ReadBack' = ReadBack
    BY <1>1 DEF PickArchive, ReadBack
  <2>2. ReadOnce'
    BY <1>0, <1>1, <2>1 DEF PickArchive, TypeInv, ReadOnce
  <2> QED
    BY <1>1, <2>1, <2>2 DEF PickArchive, TypeInv
<1>2. CASE Parsed(x)
  <2> DEFINE e == [id |-> x, enabled |-> TRUE]
             exts == <<e>> \o mem.exts
  <2>1. e \in Extension /\ e.id = x
    BY DEF Extension
  <2>2. \A i \in DOMAIN mem.exts : mem.exts[i].id # x
    BY <1>0, <1>2 DEF Parsed
  <2>3. CASE PersistLater("exts", exts)
    <3> HIDE DEF e
    <3>1. /\ exts \in ExtLists
          /\ \A i \in DOMAIN exts : exts[i] = e \/ \E j \in DOMAIN mem.exts : exts[i] = mem.exts[j]
      BY <1>0, <2>1, <2>2, ExtsWith
    <3> HIDE DEF exts
    <3>2. \A i \in DOMAIN exts : exts[i].id \in used \ parsing'
      BY <1>0, <1>2, <2>1, <3>1 DEF Parsed
    <3> QED
      BY <1>2, <2>3, <3>1, <3>2, PersistExts DEF Change, Parsed
  <2>4. CASE UNCHANGED <<mem, store, due, touched>>
    <3>1. ReadBack' = ReadBack
      BY <2>4 DEF ReadBack
    <3>2. ReadOnce'
      BY <1>2, <2>4, <3>1 DEF Parsed, TypeInv, ReadOnce
    <3> QED
      BY <1>2, <2>4, <3>1, <3>2 DEF Parsed, TypeInv
  <2> QED
    BY <1>2, <2>3, <2>4 DEF Parsed
<1>3. CASE ExtToggle(x)
  <2>1. PICK i \in DOMAIN mem.exts : Persist("exts", [mem.exts EXCEPT ![i].enabled = ~@])
    BY <1>3 DEF ExtToggle
  <2> DEFINE exts == [mem.exts EXCEPT ![i].enabled = ~@]
  <2>2. mem.exts[i] \in Extension
    BY <1>0, <2>1
  <2>3. [mem.exts[i] EXCEPT !.enabled = ~@] \in Extension
          /\ [mem.exts[i] EXCEPT !.enabled = ~@].id = mem.exts[i].id
    BY <2>2 DEF Extension
  <2>4. /\ exts \in Seq(Extension) /\ DOMAIN exts = DOMAIN mem.exts
        /\ \A j \in DOMAIN exts : exts[j].id = mem.exts[j].id
    BY <1>0, <2>3
  <2> HIDE DEF exts
  <2>5. exts \in ExtLists
    BY <1>0, <2>4 DEF ExtLists
  <2>6. Persist("exts", exts)
    BY <2>1 DEF exts
  <2> QED
    BY <1>0, <1>3, <2>4, <2>5, <2>6, PersistExts DEF Change, ExtToggle, Rest
<1>4. CASE ExtDel(x)
  <2> DEFINE keep == {e \in Extension : e.id # x}
             exts == Select(mem.exts, keep)
  <2>1. Persist("exts", exts)
    BY <1>4 DEF ExtDel
  <2> HIDE DEF keep
  <2>2. exts \in ExtLists /\ \A i \in DOMAIN exts : \E j \in DOMAIN mem.exts : exts[i] = mem.exts[j]
    BY <1>0, ExtsWithout
  <2> HIDE DEF exts
  <2> QED
    BY <1>0, <1>4, <2>1, <2>2, PersistExts DEF Change, ExtDel, Rest
<1> QED
  BY <1>1, <1>2, <1>3, <1>4

\* What a page load reads back is what the store has.
LEMMA ReloadTypes ==
  ASSUME TypeInv, SessionInv', Reload
  PROVE  TypeInv'
<1>1. mem' = ReadBack /\ ReadBack' = ReadBack
  BY DEF Reload, ReadBack
<1>2. /\ parsing' = {} /\ saving' = {} /\ cut' = cut \cup saving \cup unsaved /\ cloak' = FALSE
      /\ unseen' = ~focused /\ wiping' = FALSE /\ used' = used /\ focused' = focused
  BY DEF Reload
<1>3. unsaved \subseteq Saves
  BY DEF TypeInv, SessionInv, StoreInv, Shape
<1>4. ReadOnce'
  BY <1>1, <1>2 DEF TypeInv, ReadOnce
<1> QED
  BY <1>1, <1>2, <1>3, <1>4 DEF TypeInv

LEMMA StepTypes == TypeInv /\ [Next]_vars => TypeInv'
<1> SUFFICES ASSUME TypeInv, [Next]_vars PROVE TypeInv'
  OBVIOUS
<1>0. SessionInv' /\ StoreStep
  BY StepHolds, StoreSteps, SameStores DEF TypeInv, vars
<1>1. CASE \/ \E b \in BOOLEAN : ChangeSettings(b)
           \/ \E n \in Names : JarAdd(n) \/ JarDel(n)
           \/ NetBlocked
           \/ DownloadsClear
  BY <1>0, <1>1, PanelTypes
<1>2. CASE \E id \in Saves : SavePage(id) \/ ExportSession(id) \/ SaveEnds(id)
  BY <1>0, <1>2, DownloadTypes
<1>3. CASE \E x \in Archives : PickArchive(x) \/ Parsed(x) \/ ExtToggle(x) \/ ExtDel(x)
  BY <1>0, <1>3, ExtensionTypes
<1>4. CASE Effects \/ Cloak \/ Blur \/ Focus \/ Wipe \/ UNCHANGED vars
  <2>1. mem \in Fits
    BY DEF TypeInv
  <2>2. /\ UNCHANGED <<mem, parsing, used, saving, cut>>
        /\ cloak' \in BOOLEAN /\ focused' \in BOOLEAN /\ unseen' \in BOOLEAN /\ wiping' \in BOOLEAN
    BY <1>4 DEF Effects, Cloak, Blur, Focus, Wipe, vars, TypeInv
  <2>3. used \subseteq Archives \cup Saves /\ saving \subseteq Saves /\ cut \subseteq Saves
    BY DEF TypeInv
  <2> QED
    BY <1>0, <2>1, <2>2, <2>3, TypesKept
<1>5. CASE Reload
  BY <1>0, <1>5, ReloadTypes
<1> QED
  BY <1>1, <1>2, <1>3, <1>4, <1>5 DEF Next, Panels

\* The slices keep their types through every dispatch, wipe and page load: no
\* cookie and no extension is listed twice, no list outgrows its cap.
THEOREM SessionTyped == Spec => []TypeOK
BY TypeInvImplies, InitTypes, StepTypes, PTL DEF Spec
=============================================================================
