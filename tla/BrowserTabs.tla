----------------------------- MODULE BrowserTabs -----------------------------
(***************************************************************************)
(* The shell's tabs (src/src/state.tsx, reducer) and the frames that show  *)
(* them (src/src/App.tsx, FrameView): the user's actions, the load events  *)
(* of the iframes and the timers that look for a refused embedding.        *)
(*                                                                         *)
(* A reducer runs to its end, so a dispatch is one step.  What interleaves *)
(* is who dispatches: the user, each iframe's onLoad, each 900 ms timer,   *)
(* and the effect that follows the service worker's arrival.               *)
(*                                                                         *)
(* React remounts an iframe when its key "id:key" changes: the frame of a  *)
(* tab is named by the tab's key.  What the browser does (external): the   *)
(* window of a refused page reads as about:blank; so does one that was     *)
(* taken down, if its page was of the shell's own origin, as every page    *)
(* under the worker's prefix is; a foreign page throws when it is read.    *)
(***************************************************************************)
EXTENDS Naturals, Sequences, SequencesExt, FiniteSets

CONSTANTS TabIds,   \* ids uid() hands out: the tabs that can ever exist
          Urls,     \* addresses other than "", the start page
          MaxHist,  \* bound: entries of a tab's history
          MaxMounts \* bound: remounts of frames, those of all tabs together

ASSUME IdsAssumption == TabIds # {} /\ "none" \notin TabIds
\* The address of the start page, and what an address may be.
StartPage == ""
Addresses == Urls \cup {StartPage}

ASSUME UrlsAssumption == StartPage \notin Urls
ASSUME BoundsAssumption == MaxHist \in Nat \ {0} /\ MaxMounts \in Nat

VARIABLES
  order,    \* s.tabs: the tab ids, left to right
  tab,      \* tab[i]: the record of tab i, while i is in order
  active,   \* s.active
  menu,     \* s.ctx.tabId of an open tab menu, or "none"
  used,     \* the ids handed out so far
  frame,    \* frame[i]: the page in the iframe of tab i
  inFlight, \* the tabs whose frame has a page on the way
  timers,   \* the onLoad timers: the frame each looks at and what it shows
  swReady   \* the service worker owns the scope

vars == <<order, tab, active, menu, used, frame, inFlight, timers, swReady>>

TabRecords == [url: Addresses, status: {"start", "loading", "loaded"},
               hist: Seq(Addresses), idx: Nat, key: Nat,
               blocked: BOOLEAN]

NewTab == [url |-> StartPage, status |-> "start", hist |-> <<StartPage>>, idx |-> 1,
           key |-> 0, blocked |-> FALSE]

Open == ToSet(order)

Init ==
  /\ \E i \in TabIds : order = <<i>> /\ active = i /\ used = {i}
  /\ tab = [j \in TabIds |-> NewTab]
  /\ frame = [j \in TabIds |-> "none"]
  /\ menu = "none"
  /\ inFlight = {}
  /\ timers = {}
  /\ swReady \in BOOLEAN

-----------------------------------------------------------------------------
\* Rendering.  The start page has no frame; any other page has the frame of
\* its key, mounted blank with its page on the way.

Bounded == FoldFunction(LAMBDA t, n : t.key + n, 0, tab') <= MaxMounts

Retried(t) == [t EXCEPT !.blocked = FALSE, !.status = "loading", !.key = @ + 1]

Mount(i, t) ==
  /\ frame' = [frame EXCEPT ![i] = IF t.url = StartPage THEN "none" ELSE "blank"]
  /\ inFlight' = IF t.url = StartPage THEN inFlight \ {i} ELSE inFlight \cup {i}

\* patchTab: tab i becomes t; its frame is mounted anew if the key moved.
Patch(i, t) ==
  /\ tab' = [tab EXCEPT ![i] = t]
  /\ Bounded
  /\ IF t.key = tab[i].key THEN UNCHANGED <<frame, inFlight>> ELSE Mount(i, t)
  /\ UNCHANGED <<order, active, menu, used, timers, swReady>>

\* The tabs ids leave the list, and their frames the page.
Gone(ids) ==
  /\ tab' = [i \in TabIds |-> IF i \in ids THEN NewTab ELSE tab[i]]
  /\ frame' = [i \in TabIds |-> IF i \in ids THEN "none" ELSE frame[i]]
  /\ inFlight' = inFlight \ ids

-----------------------------------------------------------------------------
\* Dispatches on the list of tabs.

NewTabAction(i) ==
  /\ i \notin used
  /\ used' = used \cup {i}
  /\ order' = Append(order, i)
  /\ active' = i
  /\ UNCHANGED <<tab, menu, frame, inFlight, timers, swReady>>

\* Mutant of CloseTab: no new tab takes the place of the last one.
CloseTabToNothing(i) ==
  /\ i \in Open
  /\ order' = RemoveFirst(order, i)
  /\ active' = IF active = i /\ order' # <<>> THEN order'[1] ELSE active
  /\ Gone({i})
  /\ UNCHANGED <<used, timers, swReady>>

\* Mutant of CloseTab: the active tab is not handed on.
CloseTabStaysActive(i) ==
  /\ i \in Open
  /\ Len(order) > 1
  /\ order' = RemoveFirst(order, i)
  /\ Gone({i})
  /\ UNCHANGED <<active, used, timers, swReady>>

\* close-tab: what is left without tab i is never empty, and the right
\* neighbour (the last tab, if there is none) becomes active.  No id is in the
\* list twice (TypeOK): the filter drops one entry.
Left(i) ==
  LET rest == RemoveFirst(order, i) IN
  IF rest # <<>> THEN {rest} ELSE {<<fresh>> : fresh \in TabIds \ used}

CloseTab(i) ==
  /\ i \in Open
  /\ \E left \in Left(i) :
       LET idx == SelectInSeq(order, LAMBDA j : j = i) IN
       /\ order' = left
       /\ used' = used \cup ToSet(left)
       /\ active' = IF active # i THEN active
                    ELSE left[IF idx <= Len(left) THEN idx ELSE Len(left)]
  /\ Gone({i})
  /\ UNCHANGED <<timers, swReady>>

CloseOthers(i) ==
  /\ i \in Open
  /\ order' = <<i>>
  /\ active' = i
  /\ menu' = "none"
  /\ Gone(Open \ {i})
  /\ UNCHANGED <<used, timers, swReady>>

\* duplicate: the copy mounts a frame of its own, and retries at once if it
\* copied a refusal and the worker is there.
Duplicate(i, new) ==
  LET copy == [tab[i] EXCEPT !.key = @ + 1]
      t == IF swReady /\ copy.blocked /\ copy.url # StartPage
           THEN Retried(copy) ELSE copy
  IN
  /\ i \in Open
  /\ new \notin used
  /\ used' = used \cup {new}
  /\ order' = Append(order, new)
  /\ active' = new
  /\ menu' = "none"
  /\ tab' = [tab EXCEPT ![new] = t]
  /\ Bounded
  /\ Mount(new, t)
  /\ UNCHANGED <<timers, swReady>>

Select(i) ==
  /\ i \in Open
  /\ active' = i
  /\ menu' = "none"
  /\ UNCHANGED <<order, tab, used, frame, inFlight, timers, swReady>>

-----------------------------------------------------------------------------
\* Dispatches on one tab.

\* The page at entry idx of a history, shown in a new frame.
Show(i, hist, idx, status) ==
  Patch(i, [url |-> hist[idx], status |-> status, hist |-> hist, idx |-> idx,
            key |-> tab[i].key + 1, blocked |-> FALSE])

StatusOf(url) == IF url = StartPage THEN "start" ELSE "loading"

\* Mutant of Nav: the current entry is cut off with the forward ones.
NavCutsCurrent(i, url) ==
  LET kept == SubSeq(tab[i].hist, 1, tab[i].idx - 1) IN
  Show(i, Append(kept, url), Len(kept) + 1, StatusOf(url))

\* nav: the entries ahead of the current one are dropped.
Nav(i, url) ==
  LET kept == SubSeq(tab[i].hist, 1, tab[i].idx) IN
  /\ Len(kept) < MaxHist
  /\ Show(i, Append(kept, url), Len(kept) + 1, StatusOf(url))

Back(i) ==
  /\ tab[i].idx > 1
  /\ Show(i, tab[i].hist, tab[i].idx - 1, StatusOf(tab[i].hist[tab[i].idx - 1]))

\* Mutant of Fwd: the address stays behind.
FwdAddressStays(i) ==
  /\ tab[i].idx < Len(tab[i].hist)
  /\ Patch(i, [tab[i] EXCEPT !.idx = @ + 1, !.status = "loading",
                             !.blocked = FALSE, !.key = @ + 1])

\* fwd: "loading" whatever the address is, the start page's too.
Fwd(i) ==
  /\ tab[i].idx < Len(tab[i].hist)
  /\ Show(i, tab[i].hist, tab[i].idx + 1, "loading")

\* Mutant of Reload: the frame keeps its key and is not mounted anew.
ReloadSameKey(i) ==
  /\ tab[i].url # StartPage
  /\ Patch(i, [tab[i] EXCEPT !.status = "loading", !.blocked = FALSE])

Reload(i) ==
  /\ tab[i].url # StartPage
  /\ Show(i, tab[i].hist, tab[i].idx, "loading")

\* frame-retry, from the overlay of a refused page.
FrameRetry(i) ==
  /\ tab[i].blocked
  /\ tab[i].url # StartPage
  /\ Patch(i, Retried(tab[i]))

-----------------------------------------------------------------------------
\* Dispatches that no user makes.

Pages == {"foreign", "proxied", "refused"}

\* What can come of a load: the worker takes the headers of a refusal off
\* what it proxies.
Arrives(page) == IF swReady THEN page = "proxied" ELSE page # "proxied"

\* onLoad of the frame of tab i, now showing page.  Every timer of the frame
\* looks at the same window: one record stands for them all.
OnLoad(i, page) ==
  LET mine == {t \in timers : t.id = i /\ t.key = tab[i].key} IN
  /\ frame' = [frame EXCEPT ![i] = page]
  /\ inFlight' = inFlight \ {i}
  /\ timers' = (timers \ mine) \cup
                 {[id |-> i, key |-> tab[i].key, page |-> page]}
  /\ tab' = [tab EXCEPT ![i].status = "loaded"]
  /\ UNCHANGED <<order, active, menu, used, swReady>>

\* The page on its way arrives.
FrameLoads(i) ==
  /\ i \in inFlight
  /\ \E page \in Pages : Arrives(page) /\ OnLoad(i, page)

\* A link inside the page leads on: a load that the tab did not ask for.
LinkLoads(i) ==
  /\ frame[i] \in {"foreign", "proxied"}
  /\ i \notin inFlight
  /\ \E page \in Pages : Arrives(page) /\ OnLoad(i, page)

\* The window of timer t reads as about:blank: refused, or taken down.
ReadsBlank(t) ==
  \/ t.page = "refused"
  \/ t.page = "proxied" /\ tab[t.id].key # t.key

\* 900 ms later.  frame-blocked goes to the tab, whatever it shows by now, and
\* finds none if that was closed.
TimerFires(t) ==
  /\ t \in timers
  /\ timers' = timers \ {t}
  /\ tab' = IF t.id \in Open /\ ReadsBlank(t)
            THEN [tab EXCEPT ![t.id].blocked = TRUE, ![t.id].status = "loaded"]
            ELSE tab
  /\ UNCHANGED <<order, active, menu, used, frame, inFlight, swReady>>

\* The worker takes over: every frame is given its proxied address, and a
\* refused one is retried.
WorkerReady ==
  LET shown == {i \in Open : tab[i].url # StartPage}
      again == {i \in shown : tab[i].blocked}
  IN
  /\ ~swReady
  /\ swReady' = TRUE
  /\ tab' = [i \in TabIds |-> IF i \in again THEN Retried(tab[i]) ELSE tab[i]]
  /\ Bounded
  /\ frame' = [i \in TabIds |-> IF i \in again THEN "blank" ELSE frame[i]]
  /\ inFlight' = shown
  /\ UNCHANGED <<order, active, menu, used, timers>>

-----------------------------------------------------------------------------
\* The user.  The tab bar, the tool bar, the page menu and the start page act
\* on a tab or on the active one.  A tab's own menu covers the window until it
\* is used or closed: meanwhile only the keyboard acts (Ctrl+T, Ctrl+W).

OpenMenu(i) ==
  /\ menu' = i
  /\ UNCHANGED <<order, tab, active, used, frame, inFlight, timers, swReady>>

\* A click outside, or on an item of a tab that was closed under the menu,
\* whose handler throws once the menu is gone.
MenuCloses ==
  /\ menu' = "none"
  /\ UNCHANGED <<order, tab, active, used, frame, inFlight, timers, swReady>>

\* ContextMenuLayer of a tab.  The layer clears the menu, then runs the item.
MenuItem ==
  /\ menu # "none"
  /\ \/ MenuCloses
     \/ menu \in Open /\ Select(menu)
     \/ menu \in Open /\ \E new \in TabIds : Duplicate(menu, new)
     \/ CloseTab(menu) /\ menu' = "none"
     \/ CloseOthers(menu)

\* The close button gives way to the spinner while a page loads.
Click ==
  /\ menu = "none"
  /\ \/ \E i \in Open : Select(i) \/ OpenMenu(i)
     \/ \E i \in Open : tab[i].status # "loading" /\ CloseTab(i) /\ UNCHANGED menu
     \/ \E new \in TabIds : Duplicate(active, new)
     \/ \E url \in Addresses : Nav(active, url)
     \/ Back(active)
     \/ Fwd(active)
     \/ Reload(active)
     \/ FrameRetry(active)

Keyboard ==
  \/ \E i \in TabIds : NewTabAction(i)
  \/ CloseTab(active) /\ UNCHANGED menu

Next ==
  \/ Keyboard
  \/ Click
  \/ MenuItem
  \/ \E i \in TabIds : FrameLoads(i) \/ LinkLoads(i)
  \/ \E t \in timers : TimerFires(t)
  \/ WorkerReady

Spec == Init /\ [][Next]_vars

-----------------------------------------------------------------------------
\* Types; there is always a tab, and no id is in the list twice.
TypeOK ==
  /\ order \in Seq(TabIds) /\ order # <<>> /\ IsInjective(order)
  /\ tab \in [TabIds -> TabRecords]
  /\ active \in TabIds
  /\ menu \in TabIds \cup {"none"}
  /\ Open \subseteq used /\ used \subseteq TabIds
  /\ frame \in [TabIds -> {"none", "blank"} \cup Pages]
  /\ inFlight \subseteq Open
  /\ timers \subseteq [id: TabIds, key: Nat, page: Pages]
  /\ swReady \in BOOLEAN

\* The active tab is one of the tabs, whichever tab was closed and from
\* wherever: the tool bar, the menus and the status bar look it up without a
\* test and would bring the shell down (Chrome.tsx, Toolbar).
ActiveExists == active \in Open

\* The address a tab shows is the entry its history stands at, so that back
\* and forward lead where they say (nav, back, fwd of the reducer).
AddressIsEntry ==
  \A i \in Open : /\ tab[i].idx \in DOMAIN tab[i].hist
                  /\ tab[i].url = tab[i].hist[tab[i].idx]

\* A page shown as loading has a load event to come, and that event ends the
\* spinner: every dispatch that starts it remounts the frame as well, and no
\* stale timer or copied tab starts it over a frame that is done.
LoadingHasFrame ==
  \A i \in Open :
    tab[i].url # StartPage /\ tab[i].status = "loading" => i \in inFlight

\* Going to a new page never rewrites the pages behind the current one, nor
\* the current one: the user can always go back the way he came.
NoPastRewritten ==
  [][\A i \in Open \cap Open' :
       LET kept == IF tab'[i].idx < tab[i].idx THEN tab'[i].idx ELSE tab[i].idx IN
       SubSeq(tab'[i].hist, 1, kept) = SubSeq(tab[i].hist, 1, kept)]_vars

\* The overlay of a refused page covers only a page that was refused
\* (state.tsx: "site refused frame embedding").
BlockedIsRefused ==
  \A i \in Open : tab[i].blocked /\ tab[i].url # StartPage => frame[i] = "refused"
=============================================================================
