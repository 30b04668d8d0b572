------------------------------- MODULE Shield -------------------------------
(***************************************************************************)
(* The shield: the settings of the shell, the engine it loads from them    *)
(* and the block list it posts to the service worker (src/src/App.tsx,     *)
(* src/src/lib/engine.ts), and the worker's verdict on a host              *)
(* (src/public/sw.js), which lives in the worker's memory alone: the       *)
(* browser stops an idle worker and starts a new one for the next message  *)
(* or request.                                                             *)
(*                                                                         *)
(* The WebAssembly core never starts (wasm-engine.js: the bytes of build() *)
(* are no module, init() gives null), so the worker uses its own set.      *)
(***************************************************************************)
EXTENDS FilterEngine, FiniteSets

CONSTANTS Core,      \* the bundled list: a sequence of lines
          Customs,   \* the texts the user may put into the custom list
          Requests,  \* requests the engines are asked about
          MaxPosts   \* bound: messages on their way to the worker

ASSUME LinesAssumption == Core \in Seq(Line) /\ Customs \subseteq Seq(Line)
ASSUME CustomsAssumption == <<>> \in Customs
ASSUME RequestsAssumption == \A req \in Requests : req.url \in Text \ {<<>>}
ASSUME MaxPostsAssumption == MaxPosts \in Nat \ {0}

VARIABLES
  settings,    \* adblock, core (is the bundled list on?), custom
  rules,       \* engine.rules of the shell
  controller,  \* navigator.serviceWorker.controller is there
  toWorker,    \* set-blocklist messages on their way
  verdicts     \* verdicts of the worker

vars == <<settings, rules, controller, toWorker, verdicts>>

Settings == [adblock: BOOLEAN, core: BOOLEAN, custom: Customs]

NoVerdicts == [enabled |-> TRUE, hosts |-> {}]

-----------------------------------------------------------------------------
BuildLists(cfg) ==
  IF cfg.adblock THEN (IF cfg.core THEN Core ELSE <<>>) \o cfg.custom ELSE <<>>

\* The text of a "||" rule up to its "^" or "/", whatever else it holds.
HostText(raw) ==
  LET rest == SubSeq(raw, 3, Len(raw)) IN
  SubSeq(rest, 1, SelectInSeq(rest \o <<"/">>, LAMBDA c : c \in {"^", "/"}) - 1)

\* Mutant of Hosts: an empty text is kept.
HostsWithEmpty(rs) ==
  {HostText(r.raw) : r \in {x \in ToSet(rs) :
     ~x.whitelist /\ IsPrefix(<<"|", "|">>, x.raw)}}

Hosts(rs) ==
  {HostText(r.raw) : r \in {x \in ToSet(rs) :
     ~x.whitelist /\ IsPrefix(<<"|", "|">>, x.raw)}} \ {<<>>}

Blocklist(cfg) ==
  [enabled |-> cfg.adblock, hosts |-> Hosts(TSLoad(BuildLists(cfg)))]

Init ==
  /\ settings = [adblock |-> TRUE, core |-> TRUE, custom |-> <<>>]
  /\ rules = TSLoad(BuildLists(settings))
  /\ controller = FALSE
  /\ toWorker = <<>>
  /\ verdicts = NoVerdicts

-----------------------------------------------------------------------------
\* Mutant of Post: with the shield down nothing is sent.
PostWhenOn(cfg) ==
  IF controller /\ cfg.adblock THEN toWorker' = Append(toWorker, Blocklist(cfg))
  ELSE UNCHANGED toWorker

\* Mutant of Post: the list of the engine as it was.
PostOldRules(cfg) ==
  IF controller
  THEN toWorker' = Append(toWorker, [enabled |-> cfg.adblock, hosts |-> Hosts(rules)])
  ELSE UNCHANGED toWorker

\* The message goes to the controller, if there is one, or nowhere.
Post(cfg) ==
  IF controller THEN toWorker' = Append(toWorker, Blocklist(cfg))
  ELSE UNCHANGED toWorker

\* The user changes one setting; the effect loads the engine and posts.
ChangeSettings(cfg) ==
  /\ Len(toWorker) < MaxPosts
  /\ cfg # settings
  /\ \E field \in DOMAIN settings : cfg = [settings EXCEPT ![field] = cfg[field]]
  /\ settings' = cfg
  /\ rules' = TSLoad(BuildLists(cfg))
  /\ Post(cfg)
  /\ UNCHANGED <<controller, verdicts>>

\* The first worker takes the page over; no effect depends on that.
Claims ==
  /\ ~controller
  /\ controller' = TRUE
  /\ UNCHANGED <<settings, rules, toWorker, verdicts>>

\* A page loaded again comes up with the stored settings and under the worker,
\* and its effect runs at once.
PageReloads ==
  /\ Len(toWorker) < MaxPosts
  /\ controller' = TRUE
  /\ toWorker' = Append(toWorker, Blocklist(settings))
  /\ UNCHANGED <<settings, rules, verdicts>>

\* set-blocklist.
WorkerReceives ==
  /\ toWorker # <<>>
  /\ verdicts' = Head(toWorker)
  /\ toWorker' = Tail(toWorker)
  /\ UNCHANGED <<settings, rules, controller>>

\* The browser stops the worker; the next event finds a new one.
WorkerRestarts ==
  /\ verdicts' = NoVerdicts
  /\ UNCHANGED <<settings, rules, controller, toWorker>>

IsBlocked(host) == verdicts.enabled /\ host \in verdicts.hosts

Next ==
  \/ \E cfg \in Settings : ChangeSettings(cfg)
  \/ Claims
  \/ PageReloads
  \/ WorkerReceives
  \/ WorkerRestarts

Spec == Init /\ [][Next]_vars

\* A posted message is delivered, starting the worker if need be.
FairSpec == Spec /\ WF_vars(WorkerReceives)

-----------------------------------------------------------------------------
\* Types: every verdict the worker holds is a set of texts.
TypeOK ==
  /\ settings \in Settings
  /\ controller \in BOOLEAN
  /\ Len(toWorker) <= MaxPosts
  /\ \A v \in {verdicts} \cup ToSet(toWorker) :
       v.enabled \in BOOLEAN /\ \A h \in v.hosts : h # <<>> /\ h \in Text

\* Once no message is under way, the worker blocks by the settings the user
\* sees, or has no list at all: never by an older one, whatever was changed,
\* reloaded or restarted in between (App.tsx, the effect on the settings).
NeverAnOldList ==
  toWorker = <<>> => verdicts \in {NoVerdicts, Blocklist(settings)}

\* With the shield taken down, hosts are let through again in the end.
OffMeansOpen ==
  ~settings.adblock ~> (settings.adblock \/ \A h \in verdicts.hosts : ~IsBlocked(h))

\* An important block beats an exception, an exception beats a block, in
\* whatever order the lines come, and the rule that is named is one of those
\* that decide (matchNetwork and match_network go over the rules once).
Decides(rs, hits, v) ==
  LET blocks == {i \in hits : ~rs[i].whitelist}
      strong == {i \in blocks : rs[i].options.important}
      passes == hits \ blocks
  IN \/ strong # {} /\ v.verdict = "block" /\ v.rule \in strong
     \/ strong = {} /\ passes # {} /\ v.verdict = "allow" /\ v.rule \in passes
     \/ strong = {} /\ passes = {} /\ blocks # {} /\ v.verdict = "block" /\ v.rule \in blocks
     \/ hits = {} /\ v.verdict = "pass"

Precedence ==
  \A req \in Requests :
    LET rs == RSLoad(BuildLists(settings)) IN
    /\ Decides(rules, {i \in DOMAIN rules : TSHits(rules[i], req)}, TSVerdict(rules, req))
    /\ Decides(rs, {i \in DOMAIN rs : RSHits(rs[i], req)}, RSVerdict(rs, req))

\* The verdict of both engines on every request (lib.rs: "The TS mirror in
\* /src/lib/engine.ts keeps verdicts identical").
Agree(lines) ==
  \A req \in Requests :
    TSVerdict(TSLoad(lines), req).verdict = RSVerdict(RSLoad(lines), req).verdict

\* On lines without "||", "^", an inner "|" or an unknown option the engines
\* agree, the one with its regular expressions and the one with its segments.
Plain(line) ==
  /\ line.kind = "network"
  /\ "^" \notin ToSet(line.pattern)
  /\ \A i \in 2..(Len(line.pattern) - 1) : line.pattern[i] # "|"
  /\ Len(line.pattern) > 2
  /\ ~line.options.odd

PlainLinesAgree ==
  LET lines == BuildLists(settings) IN
  (\A i \in DOMAIN lines : Plain(lines[i])) => Agree(lines)
=============================================================================
