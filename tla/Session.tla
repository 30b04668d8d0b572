------------------------------- MODULE Session -------------------------------
(***************************************************************************)
(* What the shell remembers (src/src/state.tsx): the part of its state     *)
(* that effects copy into localStorage, the wipe of all traces, and the    *)
(* cloak, which lives in memory alone.                                     *)
(*                                                                         *)
(* A dispatch replaces one slice of the state, and an effect copies the    *)
(* slice.  React runs the effects of a user's click or key at once, and    *)
(* those that were due before it first; the effects of a dispatch that     *)
(* comes otherwise (a message, an archive that was parsed, a page that was *)
(* fetched) and those of the mount run later, in a task of their own, and  *)
(* a page load may come first.  A wipe takes every key out of the store,   *)
(* changes nothing in memory, and reloads the page 60 ms later: what is    *)
(* dispatched until then is stored again.                                  *)
(*                                                                         *)
(* A slice is a sequence of ids, newest first.  Of the settings only       *)
(* autoCloak is kept.  The network and console feeds, lists capped in      *)
(* memory that nothing reads back, are left out but for the counter.       *)
(***************************************************************************)
EXTENDS Selection, Naturals, Sequences, SequencesExt, FiniteSets

CONSTANTS Names,         \* names of cookies in the scoped jar
          Archives,      \* extension archives the user may pick, once each
          Saves,         \* ids of downloads
          MaxDownloads,  \* entries the list keeps (40 in the code)
          MaxBlocked     \* bound: blocked requests counted

ASSUME CapAssumption == MaxDownloads \in Nat \ {0} /\ MaxBlocked \in Nat

VARIABLES
  mem,      \* the slices of the state that are persisted
  store,    \* localStorage: a function on the keys that are there
  due,      \* slices whose effect is still to run
  cloak,    \* s.cloak
  focused,  \* the window (and no frame in it) has the focus
  unseen,   \* history: the page was loaded without the focus, and not had it yet
  parsing,  \* archives being read
  saving,   \* downloads being fetched
  used,     \* archives picked and download ids handed out
  wiping,   \* a wipe was dispatched, its reload is 60 ms away
  touched,  \* history: slices dispatched since the wipe
  unsaved,  \* history: saves whose end is not stored
  cut       \* history: saves whose fetch, or the end of it, a page load cut off

vars == <<mem, store, due, cloak, focused, unseen, parsing, saving, used,
          wiping, touched, unsaved, cut>>

Keys == {"autoCloak", "jar", "exts", "downloads", "blocked"}

Default == [autoCloak |-> FALSE, jar |-> <<>>, exts |-> <<>>,
            downloads |-> <<>>, blocked |-> 0]

Extension == [id: Archives, enabled: BOOLEAN]

Download(id, status) == [id |-> id, status |-> status]

Statuses == {"intercepted", "complete", "blocked"}

Init ==
  /\ mem = Default
  /\ store = [k \in {} |-> 0] /\ due = Keys
  /\ cloak = FALSE /\ focused = TRUE /\ unseen = FALSE
  /\ parsing = {} /\ saving = {} /\ used = {}
  /\ wiping = FALSE /\ touched = {}
  /\ unsaved = {} /\ cut = {}

-----------------------------------------------------------------------------
\* The store once the effects that are due have run.
Flushed == [k \in DOMAIN store \cup due |-> IF k \in due THEN mem[k] ELSE store[k]]

Touch(key) == touched' = IF wiping THEN touched \cup {key} ELSE touched

\* A dispatch from a click: what is due is stored, then the new slice.
Persist(key, value) ==
  /\ mem' = [mem EXCEPT ![key] = value]
  /\ store' = [k \in DOMAIN Flushed \cup {key} |->
                 IF k = key THEN value ELSE Flushed[k]]
  /\ due' = {} /\ unsaved' = {}
  /\ Touch(key)

\* A dispatch from elsewhere: its effect comes later.
PersistLater(key, value) ==
  /\ mem' = [mem EXCEPT ![key] = value]
  /\ due' = due \cup {key}
  /\ Touch(key)
  /\ UNCHANGED store

Effects ==
  /\ due # {}
  /\ store' = Flushed
  /\ due' = {} /\ unsaved' = {}
  /\ UNCHANGED <<mem, cloak, focused, unseen, parsing, saving, used, wiping,
                 touched, cut>>

Rest == <<cloak, focused, unseen, parsing, saving, used, wiping, cut>>

\* Any setting changed from the panels: the settings are stored as a whole.
ChangeSettings(autoCloak) ==
  /\ focused
  /\ Persist("autoCloak", autoCloak)
  /\ UNCHANGED Rest

\* jar-add replaces the entry of that name; jar-del takes it out.
JarAdd(name) ==
  /\ focused
  /\ Persist("jar", <<name>> \o Select(mem.jar, Names \ {name}))
  /\ UNCHANGED Rest

JarDel(name) ==
  /\ focused
  /\ name \in ToSet(mem.jar)
  /\ Persist("jar", Select(mem.jar, Names \ {name}))
  /\ UNCHANGED Rest

-----------------------------------------------------------------------------
\* Extensions: picked, parsed later, added then; or refused with an error.
PickArchive(x) ==
  /\ focused
  /\ x \notin used
  /\ used' = used \cup {x}
  /\ parsing' = parsing \cup {x}
  /\ UNCHANGED <<mem, store, due, cloak, focused, unseen, saving, wiping,
                 touched, unsaved, cut>>

Parsed(x) ==
  /\ x \in parsing
  /\ parsing' = parsing \ {x}
  /\ \/ PersistLater("exts", <<[id |-> x, enabled |-> TRUE]>> \o mem.exts)
     \/ UNCHANGED <<mem, store, due, touched>>
  /\ UNCHANGED <<cloak, focused, unseen, saving, used, wiping, unsaved, cut>>

ExtToggle(x) ==
  /\ focused
  /\ \E i \in DOMAIN mem.exts :
       /\ mem.exts[i].id = x
       /\ Persist("exts", [mem.exts EXCEPT ![i].enabled = ~@])
  /\ UNCHANGED Rest

ExtDel(x) ==
  /\ focused
  /\ \E e \in ToSet(mem.exts) : e.id = x
  /\ Persist("exts", Select(mem.exts, {e \in Extension : e.id # x}))
  /\ UNCHANGED Rest

-----------------------------------------------------------------------------
\* Downloads.

\* Mutant of Listed: the cap is forgotten.
ListedUncapped(d) == <<d>> \o mem.downloads

Listed(d) ==
  LET all == <<d>> \o mem.downloads IN
  SubSeq(all, 1, IF Len(all) < MaxDownloads THEN Len(all) ELSE MaxDownloads)

\* "Save page as": listed at once, then fetched.
SavePage(id) ==
  /\ focused
  /\ id \notin used
  /\ used' = used \cup {id}
  /\ saving' = saving \cup {id}
  /\ Persist("downloads", Listed(Download(id, "intercepted")))
  /\ UNCHANGED <<cloak, focused, unseen, parsing, wiping, cut>>

\* Mutant of SaveEnds: a fetch that fails is not reported.
SaveEndsQuietly(id) ==
  /\ id \in saving
  /\ saving' = saving \ {id}
  /\ \/ /\ PersistLater("downloads", [i \in DOMAIN mem.downloads |->
                  IF mem.downloads[i].id = id THEN Download(id, "complete")
                                              ELSE mem.downloads[i]])
        /\ unsaved' = unsaved \cup {id}
     \/ UNCHANGED <<mem, store, due, touched, unsaved>>
  /\ UNCHANGED <<cloak, focused, unseen, parsing, used, wiping, cut>>

\* download-status: the entry, if the list still has it; the list is to be
\* stored in any case.
SaveEnds(id) ==
  /\ id \in saving
  /\ saving' = saving \ {id}
  /\ \E status \in {"complete", "blocked"} :
       PersistLater("downloads", [i \in DOMAIN mem.downloads |->
                 IF mem.downloads[i].id = id THEN Download(id, status)
                                             ELSE mem.downloads[i]])
  /\ unsaved' = unsaved \cup {id}
  /\ UNCHANGED <<cloak, focused, unseen, parsing, used, wiping, cut>>

ExportSession(id) ==
  /\ focused
  /\ id \notin used
  /\ used' = used \cup {id}
  /\ Persist("downloads", Listed(Download(id, "complete")))
  /\ UNCHANGED <<cloak, focused, unseen, parsing, saving, wiping, cut>>

DownloadsClear ==
  /\ focused
  /\ mem.downloads # <<>>
  /\ Persist("downloads", <<>>)
  /\ UNCHANGED Rest

\* The worker reports a request it blocked.
NetBlocked ==
  /\ mem.blocked < MaxBlocked
  /\ PersistLater("blocked", mem.blocked + 1)
  /\ UNCHANGED <<Rest, unsaved>>

-----------------------------------------------------------------------------
\* The cloak: by hand (button, panic key, presets), or when the focus leaves.
\* A click into a page's frame takes the focus from the window, too.

\* The dispatches on the cloak are from events of the user as well.
FlushFirst == store' = Flushed /\ due' = {} /\ unsaved' = {}

Cloak ==
  /\ focused
  /\ cloak' = ~cloak
  /\ FlushFirst
  /\ UNCHANGED <<mem, focused, unseen, parsing, saving, used, wiping, touched, cut>>

\* Mutant of Blur: the panic key's toggle.
BlurToggles ==
  /\ focused
  /\ focused' = FALSE
  /\ cloak' = IF mem.autoCloak THEN ~cloak ELSE cloak
  /\ UNCHANGED <<mem, store, due, unseen, parsing, saving, used, wiping, touched,
                 unsaved, cut>>

\* The listener is there from the mount on; it reads the state through sRef,
\* which each render sets.
Blur ==
  /\ focused
  /\ focused' = FALSE
  /\ IF mem.autoCloak /\ ~cloak THEN cloak' = TRUE /\ FlushFirst
                                 ELSE UNCHANGED <<cloak, store, due, unsaved>>
  /\ UNCHANGED <<mem, unseen, parsing, saving, used, wiping, touched, cut>>

Focus ==
  /\ ~focused
  /\ focused' = TRUE
  /\ unseen' = FALSE
  /\ UNCHANGED <<mem, store, due, cloak, parsing, saving, used, wiping, touched,
                 unsaved, cut>>

-----------------------------------------------------------------------------
\* The end of a page's life.

\* Mutant of Wipe: what was due before the wipe is stored after it.
WipeBeforeEffects ==
  /\ focused
  /\ ~wiping
  /\ wiping' = TRUE /\ touched' = {}
  /\ store' = [k \in {} |-> 0]
  /\ UNCHANGED <<mem, due, cloak, focused, unseen, parsing, saving, used,
                 unsaved, cut>>

\* "wipe": what is due is stored, the keys go; the state, and with it what
\* later effects would write, stays.
Wipe ==
  /\ focused
  /\ ~wiping
  /\ wiping' = TRUE /\ touched' = {}
  /\ store' = [k \in {} |-> 0]
  /\ due' = {} /\ unsaved' = {}
  /\ UNCHANGED <<mem, cloak, focused, unseen, parsing, saving, used, cut>>

\* The page is loaded again, by the wipe's timer or by the user: the state is
\* what the store has, or the default; the effects of the mount are due.
Reload ==
  /\ wiping \/ focused
  /\ mem' = [k \in Keys |-> IF k \in DOMAIN store THEN store[k] ELSE Default[k]]
  /\ due' = Keys
  /\ cloak' = FALSE /\ unseen' = ~focused
  /\ parsing' = {} /\ saving' = {} /\ unsaved' = {}
  /\ cut' = cut \cup saving \cup unsaved
  /\ wiping' = FALSE /\ touched' = {}
  /\ UNCHANGED <<store, focused, used>>

-----------------------------------------------------------------------------
Panels ==
  \/ \E b \in BOOLEAN : ChangeSettings(b)
  \/ \E n \in Names : JarAdd(n) \/ JarDel(n)
  \/ \E x \in Archives : PickArchive(x) \/ ExtToggle(x) \/ ExtDel(x)
  \/ \E id \in Saves : SavePage(id) \/ ExportSession(id)
  \/ DownloadsClear
  \/ Cloak

Next ==
  \/ Panels
  \/ \E x \in Archives : Parsed(x)
  \/ \E id \in Saves : SaveEnds(id)
  \/ NetBlocked
  \/ Effects
  \/ Blur
  \/ Focus
  \/ Wipe
  \/ Reload

Spec == Init /\ [][Next]_vars

-----------------------------------------------------------------------------
\* Types; the lists name nothing twice (the panels use names and ids as keys)
\* and the downloads stay within their cap, also when read back.
Slices == [autoCloak: BOOLEAN, jar: Seq(Names),
           exts: Seq(Extension),
           downloads: Seq([id: Saves, status: Statuses]), blocked: 0..MaxBlocked]

TypeOK ==
  /\ mem \in Slices
  /\ IsInjective(mem.jar)
  /\ \A i, j \in DOMAIN mem.exts : mem.exts[i].id = mem.exts[j].id => i = j
  /\ Len(mem.downloads) <= MaxDownloads
  /\ DOMAIN store \cup due \cup touched \subseteq Keys
  /\ {cloak, focused, unseen, wiping} \subseteq BOOLEAN
  /\ parsing \subseteq Archives /\ saving \subseteq Saves
  /\ used \subseteq Archives \cup Saves
  /\ cut \cup unsaved \subseteq Saves

\* A page load brings back what the shell showed, but for a slice whose effect
\* was still to run.  After a wipe it brings back a slice only if something was
\* dispatched on it in the 60 ms; any other is the default, also one whose
\* effect was due when the user wiped (the effects of BrowserProvider, "wipe",
\* load).
LoadBrings ==
  [][Reload => \A k \in Keys :
       IF wiping /\ k \notin touched THEN mem'[k] = Default[k]
                                    ELSE mem'[k] = mem[k] \/ k \in due]_vars

\* A download that is shown as on its way is on its way, or a page load cut
\* it off, or cut off the storing of its end: no order of ends, exports, clears
\* and the cap leaves one hanging.
InterceptedIsUnderWay ==
  \A d \in ToSet(mem.downloads) : d.status = "intercepted" => d.id \in saving \cup cut

\* With auto-cloak on, a window without the focus is cloaked, whatever the panic
\* key, the panels and the setting itself did before the focus left; only a
\* page that was loaded in the background (by a wipe's timer) is not.
AwayIsCloaked == ~focused /\ mem.autoCloak => cloak \/ unseen
=============================================================================
