---------------------------- MODULE ShieldProofs ----------------------------
(***************************************************************************)
(* Theorems about Shield, for any bundled list, custom texts and bound.    *)
(***************************************************************************)
EXTENDS Shield, Recursion, SequenceTheorems

\* The lists that the shell can post.
Posted == {Blocklist(cfg) : cfg \in Settings}

\* What a controlled page has posted last, if the worker has yet to handle it,
\* or what the worker has handled last, if it has not been restarted since.
Newest ==
  IF toWorker # <<>> THEN toWorker[Len(toWorker)] = Blocklist(settings)
  ELSE verdicts \in {NoVerdicts, Blocklist(settings)}

\* NeverAnOldList is not inductive: of what is under way it says nothing, and
\* a page without a controller changes its settings and posts nothing.
ShieldInv ==
  /\ settings \in Settings
  /\ rules = TSLoad(BuildLists(settings))
  /\ controller \in BOOLEAN
  /\ toWorker \in Seq(Posted) /\ Len(toWorker) <= MaxPosts
  /\ verdicts \in Posted \cup {NoVerdicts}
  /\ ~controller => toWorker = <<>> /\ verdicts = NoVerdicts
  /\ Newest

-----------------------------------------------------------------------------
LEMMA InitHolds == Init => ShieldInv
<1> SUFFICES ASSUME Init PROVE ShieldInv
  OBVIOUS
<1>1. settings \in Settings
  BY CustomsAssumption DEF Init, Settings
<1>2. toWorker = <<>> /\ <<>> \in Seq(Posted) /\ Len(<<>>) = 0
  BY DEF Init
<1>3. Len(toWorker) <= MaxPosts
  BY <1>2, MaxPostsAssumption
<1> QED
  BY <1>1, <1>2, <1>3 DEF Init, ShieldInv, Newest

\* A list that is posted is the newest.
LEMMA PostHolds ==
  ASSUME NEW cfg \in Settings, toWorker \in Seq(Posted), Len(toWorker) < MaxPosts,
         toWorker' = Append(toWorker, Blocklist(cfg))
  PROVE  /\ toWorker' \in Seq(Posted) /\ Len(toWorker') <= MaxPosts
         /\ toWorker' # <<>> /\ toWorker'[Len(toWorker')] = Blocklist(cfg)
<1>1. Blocklist(cfg) \in Posted
  BY DEF Posted
<1>2. /\ toWorker' \in Seq(Posted) /\ Len(toWorker') = Len(toWorker) + 1
      /\ toWorker'[Len(toWorker) + 1] = Blocklist(cfg) /\ Len(toWorker) \in Nat
  BY <1>1
<1> QED
  BY <1>2, MaxPostsAssumption

LEMMA ChangeHolds ==
  ASSUME ShieldInv, NEW cfg \in Settings, ChangeSettings(cfg)
  PROVE  ShieldInv'
<1>1. /\ settings' = cfg /\ rules' = TSLoad(BuildLists(cfg))
      /\ UNCHANGED <<controller, verdicts>>
      /\ toWorker \in Seq(Posted) /\ Len(toWorker) < MaxPosts
      /\ controller \in BOOLEAN
  BY DEF ChangeSettings, ShieldInv
<1>2. CASE controller
  <2>1. toWorker' = Append(toWorker, Blocklist(cfg))
    BY <1>2 DEF ChangeSettings, Post
  <2>2. /\ toWorker' \in Seq(Posted) /\ Len(toWorker') <= MaxPosts
        /\ toWorker' # <<>> /\ toWorker'[Len(toWorker')] = Blocklist(cfg)
    BY <1>1, <2>1, PostHolds
  <2> QED
    BY <1>1, <1>2, <2>2 DEF ShieldInv, Newest
<1>3. CASE ~controller
  <2>1. toWorker' = toWorker
    BY <1>3 DEF ChangeSettings, Post
  <2> QED
    BY <1>1, <1>3, <2>1 DEF ShieldInv, Newest
<1> QED
  BY <1>1, <1>2, <1>3

LEMMA ReloadHolds ==
  ASSUME ShieldInv, PageReloads
  PROVE  ShieldInv'
<1>1. /\ UNCHANGED <<settings, rules, verdicts>> /\ controller' = TRUE
      /\ toWorker \in Seq(Posted) /\ settings \in Settings
      /\ Len(toWorker) < MaxPosts
      /\ toWorker' = Append(toWorker, Blocklist(settings))
  BY DEF PageReloads, ShieldInv
<1>2. /\ toWorker' \in Seq(Posted) /\ Len(toWorker') <= MaxPosts
      /\ toWorker' # <<>> /\ toWorker'[Len(toWorker')] = Blocklist(settings)
  BY <1>1, PostHolds
<1> QED
  BY <1>1, <1>2 DEF ShieldInv, Newest

\* The last message that is handled is the newest; the others leave it.
LEMMA ReceiveHolds ==
  ASSUME ShieldInv, WorkerReceives
  PROVE  ShieldInv'
<1>1. /\ UNCHANGED <<settings, rules, controller>>
      /\ toWorker \in Seq(Posted) /\ toWorker # <<>> /\ Len(toWorker) <= MaxPosts
      /\ toWorker[Len(toWorker)] = Blocklist(settings)
      /\ verdicts' = Head(toWorker) /\ toWorker' = Tail(toWorker)
  BY DEF WorkerReceives, ShieldInv, Newest
<1>2. /\ Len(toWorker) \in Nat \ {0} /\ Len(toWorker') = Len(toWorker) - 1
      /\ toWorker' \in Seq(Posted) /\ verdicts' \in Posted
      /\ verdicts' = toWorker[1]
      /\ \A i \in 1..Len(toWorker') : toWorker'[i] = toWorker[i + 1]
  BY <1>1
<1>3. Len(toWorker') <= MaxPosts
  BY <1>1, <1>2, MaxPostsAssumption
<1>4. CASE toWorker' = <<>>
  <2>1. Len(toWorker) = 1
    BY <1>2, <1>4
  <2>2. verdicts' = Blocklist(settings)
    BY <1>1, <1>2, <2>1
  <2> QED
    BY <1>1, <1>2, <1>3, <1>4, <2>2 DEF ShieldInv, Newest
<1>5. CASE toWorker' # <<>>
  <2>1. Len(toWorker') \in 1..Len(toWorker') /\ Len(toWorker') + 1 = Len(toWorker)
    BY <1>2, <1>5
  <2>2. toWorker'[Len(toWorker')] = Blocklist(settings)
    BY <1>1, <1>2, <2>1
  <2> QED
    BY <1>1, <1>2, <1>3, <1>5, <2>2 DEF ShieldInv, Newest
<1> QED
  BY <1>4, <1>5

LEMMA StepHolds == ShieldInv /\ [Next]_vars => ShieldInv'
<1> SUFFICES ASSUME ShieldInv, [Next]_vars PROVE ShieldInv'
  OBVIOUS
<1>1. ASSUME NEW cfg \in Settings, ChangeSettings(cfg) PROVE ShieldInv'
  BY <1>1, ChangeHolds
<1>2. CASE Claims
  BY <1>2 DEF Claims, ShieldInv, Newest
<1>3. CASE PageReloads
  BY <1>3, ReloadHolds
<1>4. CASE WorkerReceives
  BY <1>4, ReceiveHolds
<1>5. CASE WorkerRestarts
  BY <1>5 DEF WorkerRestarts, ShieldInv, Newest
<1>6. CASE UNCHANGED vars
  BY <1>6 DEF vars, ShieldInv, Newest
<1> QED
  BY <1>1, <1>2, <1>3, <1>4, <1>5, <1>6 DEF Next

-----------------------------------------------------------------------------
\* From lines to rules.

\* The rules that a line can give.
Rules == {NetRule(line, pattern, options)[1] :
            line \in Line, pattern \in Text, options \in Options}

LEMMA NoOptionsType == NoOptions \in Options
BY DEF NoOptions, Options

LEMMA LineType ==
  ASSUME NEW line \in Line
  PROVE  /\ line.exception \in BOOLEAN /\ line.options \in Options
         /\ line.kind = "network" => line.pattern \in Text
         /\ line.kind # "network" => /\ line.kind = "cosmetic"
                                     /\ line.host \in Text
                                     /\ line.selector \in Text
BY DEF Line

\* Texts.
LEMMA OneToken ==
  ASSUME NEW S, NEW x \in S
  PROVE  <<x>> \in Seq(S)
OBVIOUS

LEMMA MarkTexts ==
  <<>> \in Text /\ <<"@@">> \in Text /\ <<"##">> \in Text /\ <<"$", "options">> \in Text
<1> DEFINE Tokens == Marks \cup Words
<1>1. /\ "@@" \in Tokens /\ "##" \in Tokens
      /\ "$" \in Tokens /\ "options" \in Tokens
  BY DEF Marks
<1>2. Text = Seq(Tokens)
  BY DEF Text
<1> HIDE DEF Tokens
<1>3. \A x \in Tokens, y \in Tokens : <<x, y>> \in Seq(Tokens)
  OBVIOUS
<1>4. <<>> \in Seq(Tokens)
  OBVIOUS
<1> QED
  BY <1>1, <1>2, <1>3, <1>4, OneToken, Zenon

LEMMA Joined ==
  ASSUME NEW a \in Text, NEW b \in Text
  PROVE  a \o b \in Text
BY DEF Text

LEMMA RuleOf ==
  ASSUME NEW line \in Line, NEW pattern \in Text, NEW options \in Options
  PROVE  NetRule(line, pattern, options) \in Seq(Rules)
<1>1. NetRule(line, pattern, options)[1] \in Rules
  BY DEF Rules
<1>2. NetRule(line, pattern, options) = <<NetRule(line, pattern, options)[1]>>
  BY DEF NetRule
<1> QED
  BY <1>1, <1>2, OneToken, Zenon

LEMMA TSParseType ==
  ASSUME NEW line \in Line
  PROVE  TSParse(line) \in Seq(Rules)
<1> DEFINE hash == <<"##">>
           pattern == IF line.kind = "network" THEN line.pattern
                      ELSE line.host \o hash \o line.selector
<1>1. hash \in Text
  BY MarkTexts
<1> HIDE DEF hash
<1>2. pattern \in Text
  <2>1. CASE line.kind = "network"
    BY <2>1, LineType
  <2>2. CASE line.kind # "network"
    <3>1. line.host \in Text /\ line.selector \in Text
      BY <2>2, LineType
    <3> QED
      BY <1>1, <2>2, <3>1, Joined
  <2> QED
    BY <2>1, <2>2
<1>3. TSParse(line) \in {<<>>, NetRule(line, pattern, line.options)}
  BY DEF TSParse, hash
<1> HIDE DEF pattern
<1>4. NetRule(line, pattern, line.options) \in Seq(Rules)
  BY <1>2, LineType, RuleOf
<1>5. <<>> \in Seq(Rules)
  OBVIOUS
<1> QED
  BY <1>3, <1>4, <1>5

LEMMA RSParseType ==
  ASSUME NEW line \in Line
  PROVE  RSParse(line) \in Seq(Rules)
<1> DEFINE odd == <<"$", "options">>
<1>1. odd \in Text
  BY MarkTexts
<1> HIDE DEF odd
<1>2. CASE line.kind = "cosmetic" \/ line.pattern = <<>>
  BY <1>2 DEF RSParse
<1>3. CASE ~ (line.kind = "cosmetic" \/ line.pattern = <<>>) 
  <2>1. line.kind = "network" /\ line.pattern \in Text
    BY <1>3, LineType
  <2>2. line.pattern \o odd \in Text
    BY <1>1, <2>1, Joined
  <2>3. RSParse(line) \in {NetRule(line, line.pattern \o odd, NoOptions),
                           NetRule(line, line.pattern, line.options)}
    BY <1>3 DEF RSParse, odd
  <2>4. NetRule(line, line.pattern, line.options) \in Seq(Rules)
    BY <2>1, LineType, RuleOf
  <2>5. NetRule(line, line.pattern \o odd, NoOptions) \in Seq(Rules)
    BY <2>2, NoOptionsType, RuleOf
  <2> QED
    BY <2>3, <2>4, <2>5
<1> QED
  BY <1>2, <1>3

LEMMA LoadType ==
  ASSUME NEW lines \in Seq(Line)
  PROVE  TSLoad(lines) \in Seq(Rules) /\ RSLoad(lines) \in Seq(Rules)
<1>1. DOMAIN lines = 1..Len(lines) /\ Len(lines) \in Nat
      /\ \A i \in 1..Len(lines) : lines[i] \in Line
  OBVIOUS
<1>2. [i \in DOMAIN lines |-> TSParse(lines[i])] \in Seq(Seq(Rules))
  BY <1>1, TSParseType
<1>3. [i \in DOMAIN lines |-> RSParse(lines[i])] \in Seq(Seq(Rules))
  BY <1>1, RSParseType
<1> QED
  BY <1>2, <1>3, FlattenType DEF TSLoad, RSLoad

\* The lists that the settings give.
LEMMA ListType ==
  ASSUME NEW cfg \in Settings
  PROVE  BuildLists(cfg) \in Seq(Line)
BY LinesAssumption DEF Settings, BuildLists

LEMMA RuleType ==
  ASSUME NEW r \in Rules
  PROVE  /\ r.whitelist \in BOOLEAN /\ r.options.important \in BOOLEAN
         /\ r.raw \in Text
<1>1. PICK line \in Line, pattern \in Text, options \in Options :
        r = NetRule(line, pattern, options)[1]
  BY DEF Rules
<1>2. r.whitelist = line.exception /\ r.options = options
      /\ r.raw = Raw(line, pattern)
  BY <1>1 DEF NetRule
<1>3. options.important \in BOOLEAN
  BY DEF Options
<1> DEFINE mark == <<"@@">>
           rest == <<"$", "options">>
<1>4. mark \in Text /\ rest \in Text /\ <<>> \in Text
  BY MarkTexts
<1>5. Raw(line, pattern) = (IF line.exception THEN mark ELSE <<>>) \o pattern \o
                             (IF line.options = NoOptions THEN <<>> ELSE rest)
  BY DEF Raw
<1> HIDE DEF mark, rest
<1>6. Raw(line, pattern) \in Text
  BY <1>4, <1>5, Joined
<1> QED
  BY <1>2, <1>3, <1>6, LineType

\* The text of a host is a text, whatever the rule.
LEMMA HostTextType ==
  ASSUME NEW raw \in Text
  PROVE  HostText(raw) \in Text
<1> DEFINE Tokens == Marks \cup Words
           rest == SubSeq(raw, 3, Len(raw))
           slash == <<"/">>
           ends == {"^", "/"}
           closed == rest \o slash
           at == {i \in 1..Len(closed) : closed[i] \in ends}
           end == IF at # {} THEN Min(at) ELSE 0
<1>1. HostText(raw) = SubSeq(rest, 1, end - 1)
  BY DEF HostText, SelectInSeq
<1>2. slash \in Text /\ Len(slash) = 1
  <2>1. "/" \in Tokens
    BY DEF Marks
  <2> HIDE DEF Tokens
  <2>2. \A t \in Tokens : <<t>> \in Seq(Tokens) /\ Len(<<t>>) = 1
    OBVIOUS
  <2> QED
    BY <2>1, <2>2, Zenon DEF Text, Tokens
<1> HIDE DEF slash, ends
<1>3. rest \in Text
  <2>1. \A i \in 3..Len(raw) : raw[i] \in Tokens
    BY DEF Text, Tokens
  <2>2. Len(raw) \in Int /\ 3 \in Int
    BY DEF Text
  <2> QED
    BY <2>1, <2>2, SubSeqProperties DEF Text, Tokens
<1> HIDE DEF rest
<1>4. Len(rest) \in Nat /\ Len(closed) = Len(rest) + 1
  <2>1. rest \in Seq(Tokens) /\ slash \in Seq(Tokens)
    BY <1>2, <1>3 DEF Text
  <2> HIDE DEF Tokens
  <2>2. Len(closed) = Len(rest) + Len(slash)
    BY <2>1, ConcatProperties
  <2>3. Len(rest) \in Nat
    BY <2>1
  <2> QED
    BY <1>2, <2>2, <2>3
<1> HIDE DEF closed
<1>5. end - 1 \in Int /\ end - 1 <= Len(rest)
  <2>1. CASE at = {}
    BY <1>4, <2>1
  <2>2. CASE at # {}
    <3>1. at \in SUBSET Nat /\ at \subseteq 1..Len(closed)
      BY <1>4
    <3>2. end \in at
      BY <2>2, <3>1, MinIn
    <3>3. end \in 1..(Len(rest) + 1)
      BY <1>4, <3>1, <3>2
    <3> HIDE DEF end
    <3> QED
      BY <1>4, <3>3
  <2> QED
    BY <2>1, <2>2
<1> HIDE DEF end
<1>6. \A i \in 1..(end - 1) : rest[i] \in Tokens
  BY <1>3, <1>4, <1>5 DEF Text, Tokens
<1>7. SubSeq(rest, 1, end - 1) \in Seq(Tokens)
  BY <1>5, <1>6, SubSeqProperties
<1> QED
  BY <1>1, <1>7 DEF Text, Tokens

\* The lists that are posted hold no empty text: an empty text would be part
\* of every host.
LEMMA HostsType ==
  ASSUME NEW rs \in Seq(Rules), NEW h \in Hosts(rs)
  PROVE  h # <<>> /\ h \in Text
<1>1. h # <<>> /\ \E r \in ToSet(rs) : h = HostText(r.raw)
  BY Zenon DEF Hosts
<1>2. \A r \in ToSet(rs) : r \in Rules
  BY DEF ToSet
<1> QED
  BY <1>1, <1>2, RuleType, HostTextType

-----------------------------------------------------------------------------
\* A pass over the rules.

\* What the pass needs to know of a rule.
Flagged(rs) ==
  \A i \in DOMAIN rs : /\ rs[i].whitelist \in BOOLEAN
                       /\ rs[i].options.important \in BOOLEAN

Founds == [blocked: Nat, whitelisted: Nat, important: Nat]

\* What a pass has found when it has gone over the first n rules.
Seen(rs, hits, n, found) ==
  LET before == {i \in hits : i <= n}
      passes == {i \in before : rs[i].whitelist}
      strong == {i \in before : ~rs[i].whitelist /\ rs[i].options.important}
      weak   == {i \in before : ~rs[i].whitelist /\ ~rs[i].options.important}
  IN /\ found \in Founds
     /\ IF passes = {} THEN found.whitelisted = 0 ELSE found.whitelisted \in passes
     /\ IF strong = {} THEN found.important = 0 ELSE found.important \in strong
     /\ IF weak = {} THEN found.blocked = 0 ELSE found.blocked \in weak

LEMMA SeenNothing ==
  ASSUME NEW rs, NEW hits \in SUBSET (Nat \ {0})
  PROVE  Seen(rs, hits, 0, Found)
<1>1. \A i \in hits : ~ (i <= 0)
  OBVIOUS
<1>2. Found \in Founds /\ Found.whitelisted = 0 /\ Found.important = 0 /\ Found.blocked = 0
  BY DEF Found, Founds
<1> QED
  BY <1>1, <1>2 DEF Seen

LEMMA SeenSkip ==
  ASSUME NEW rs, NEW hits \in SUBSET (Nat \ {0}), NEW i \in Nat \ {0}, i \notin hits,
         NEW found, Seen(rs, hits, i - 1, found)
  PROVE  Seen(rs, hits, i, found)
<1>1. \A k \in hits : k <= i <=> k <= i - 1
  OBVIOUS
<1>2. {k \in hits : k <= i} = {k \in hits : k <= i - 1}
  BY <1>1
<1> QED
  BY <1>2 DEF Seen

\* A rule that hits.
LEMMA SeenMore ==
  ASSUME NEW rs, NEW hits \in SUBSET (Nat \ {0}), NEW i \in hits,
         rs[i].whitelist \in BOOLEAN, rs[i].options.important \in BOOLEAN,
         NEW found, Seen(rs, hits, i - 1, found),
         NEW next \in {TSTake(found, rs[i], i), RSTake(found, rs[i], i)}
  PROVE  Seen(rs, hits, i, next)
<1> DEFINE before(n) == {k \in hits : k <= n}
           passes(n) == {k \in before(n) : rs[k].whitelist}
           strong(n) == {k \in before(n) : ~rs[k].whitelist /\ rs[k].options.important}
           weak(n)   == {k \in before(n) : ~rs[k].whitelist /\ ~rs[k].options.important}
<1>0. i \in Nat \ {0} /\ found \in Founds
  BY DEF Seen
<1>1. before(i) = before(i - 1) \cup {i}
  <2>0. \A k \in Nat : k <= i <=> (k <= i - 1 \/ k = i)
    BY <1>0
  <2>1. \A k \in hits : k <= i <=> (k <= i - 1 \/ k = i)
    BY <2>0
  <2> QED
    BY <2>1
<1>2. CASE rs[i].whitelist
  <2>1. /\ passes(i) = passes(i - 1) \cup {i}
        /\ strong(i) = strong(i - 1) /\ weak(i) = weak(i - 1)
    BY <1>1, <1>2
  <2>2. \/ next = [found EXCEPT !.whitelisted = i]
        \/ next = found /\ found.whitelisted # 0
    BY <1>2 DEF TSTake, RSTake
  <2>3. next \in Founds /\ next.important = found.important /\ next.blocked = found.blocked
    BY <1>0, <2>2 DEF Founds
  <2>4. next.whitelisted \in passes(i)
    <3>1. CASE next = [found EXCEPT !.whitelisted = i]
      BY <1>0, <2>1, <3>1 DEF Founds
    <3>2. CASE next = found /\ found.whitelisted # 0
      BY <2>1, <3>2 DEF Seen
    <3> QED
      BY <2>2, <3>1, <3>2
  <2> QED
    BY <2>1, <2>3, <2>4 DEF Seen
<1>3. CASE ~rs[i].whitelist /\ rs[i].options.important
  <2>1. /\ strong(i) = strong(i - 1) \cup {i}
        /\ passes(i) = passes(i - 1) /\ weak(i) = weak(i - 1)
    BY <1>1, <1>3
  <2>2. next = [found EXCEPT !.important = i]
    BY <1>3 DEF TSTake, RSTake
  <2>3. /\ next \in Founds /\ next.important = i
        /\ next.whitelisted = found.whitelisted /\ next.blocked = found.blocked
    BY <1>0, <2>2 DEF Founds
  <2> QED
    BY <2>1, <2>3 DEF Seen
<1>4. CASE ~rs[i].whitelist /\ ~rs[i].options.important
  <2>1. /\ weak(i) = weak(i - 1) \cup {i}
        /\ passes(i) = passes(i - 1) /\ strong(i) = strong(i - 1)
    BY <1>1, <1>4
  <2>2. \/ next = [found EXCEPT !.blocked = i]
        \/ next = found /\ found.blocked # 0
    BY <1>4 DEF TSTake, RSTake
  <2>3. /\ next \in Founds /\ next.important = found.important
        /\ next.whitelisted = found.whitelisted
    BY <1>0, <2>2 DEF Founds
  <2>4. next.blocked \in weak(i)
    <3>1. CASE next = [found EXCEPT !.blocked = i]
      BY <1>0, <2>1, <3>1 DEF Founds
    <3>2. CASE next = found /\ found.blocked # 0
      BY <2>1, <3>2 DEF Seen
    <3> QED
      BY <2>2, <3>1, <3>2
  <2> QED
    BY <2>1, <2>3, <2>4 DEF Seen
<1> QED
  BY <1>2, <1>3, <1>4

\* What a pass over all rules has found decides as the precedence says.
LEMMA SeenDecides ==
  ASSUME NEW rs, NEW n \in Nat, NEW hits \in SUBSET (1..n),
         \A i \in hits : rs[i].whitelist \in BOOLEAN /\ rs[i].options.important \in BOOLEAN,
         NEW found, Seen(rs, hits, n, found)
  PROVE  Decides(rs, hits, Pick(found))
<1> DEFINE blocks == {i \in hits : ~rs[i].whitelist}
           strong == {i \in blocks : rs[i].options.important}
           weak   == {i \in hits : ~rs[i].whitelist /\ ~rs[i].options.important}
           passes == {i \in hits : rs[i].whitelist}
<1>1. {i \in hits : i <= n} = hits
  <2>1. \A i \in hits : i <= n
    OBVIOUS
  <2> QED
    BY <2>1
<1>2. strong = {i \in hits : ~rs[i].whitelist /\ rs[i].options.important}
  OBVIOUS
<1>3. passes = hits \ blocks
  OBVIOUS
<1>4. /\ IF passes = {} THEN found.whitelisted = 0 ELSE found.whitelisted \in passes
      /\ IF strong = {} THEN found.important = 0 ELSE found.important \in strong
      /\ IF weak = {} THEN found.blocked = 0 ELSE found.blocked \in weak
  BY <1>1, <1>2 DEF Seen
<1>5. 0 \notin hits
  OBVIOUS
<1>6. CASE strong # {}
  <2>1. found.important # 0 /\ found.important \in strong
    BY <1>4, <1>5, <1>6
  <2>2. Pick(found) = [verdict |-> "block", rule |-> found.important]
    BY <2>1 DEF Pick
  <2> QED
    BY <1>6, <2>1, <2>2 DEF Decides
<1>7. CASE strong = {} /\ passes # {}
  <2>1. found.important = 0 /\ found.whitelisted # 0 /\ found.whitelisted \in passes
    BY <1>4, <1>5, <1>7
  <2>2. Pick(found) = [verdict |-> "allow", rule |-> found.whitelisted]
    BY <2>1 DEF Pick
  <2> QED
    BY <1>3, <1>7, <2>1, <2>2 DEF Decides
<1>8. CASE strong = {} /\ passes = {} /\ weak # {}
  <2>1. /\ found.important = 0 /\ found.whitelisted = 0
        /\ found.blocked # 0 /\ found.blocked \in blocks
    BY <1>4, <1>5, <1>8
  <2>2. Pick(found) = [verdict |-> "block", rule |-> found.blocked]
    BY <2>1 DEF Pick
  <2> QED
    BY <1>3, <1>8, <2>1, <2>2 DEF Decides
<1>9. CASE strong = {} /\ passes = {} /\ weak = {}
  <2>1. found.important = 0 /\ found.whitelisted = 0 /\ found.blocked = 0
    BY <1>4, <1>9
  <2>2. Pick(found).verdict = "pass"
    BY <2>1 DEF Pick
  <2>3. hits = {}
    BY <1>9
  <2> QED
    BY <2>2, <2>3 DEF Decides
<1> QED
  BY <1>6, <1>7, <1>8, <1>9

\* Any pass that takes the rules one after the other, as either engine does.
LEMMA PassDecides ==
  ASSUME NEW rs, NEW n \in Nat, DOMAIN rs = 1..n, Flagged(rs),
         NEW hits \in SUBSET (1..n), NEW pass, pass[0] = Found,
         \A i \in 1..n :
           pass[i] \in IF i \in hits
                       THEN {TSTake(pass[i - 1], rs[i], i), RSTake(pass[i - 1], rs[i], i)}
                       ELSE {pass[i - 1]}
  PROVE  Decides(rs, hits, Pick(pass[n]))
<1> DEFINE good == {p \in Nat \X Founds : Seen(rs, hits, p[1], p[2])}
<1>0. \A v : \A i : Seen(rs, hits, i, v) => v \in Founds
  BY DEF Seen
<1>1. hits \in SUBSET (Nat \ {0}) /\ \A i \in hits : i \in DOMAIN rs
  OBVIOUS
<1>2. Seen(rs, hits, 0, pass[0])
  BY <1>1, SeenNothing
<1>3. ASSUME NEW i \in 1..n, Seen(rs, hits, i - 1, pass[i - 1])
      PROVE  Seen(rs, hits, i, pass[i])
  <2>1. CASE i \in hits
    <3>1. pass[i] \in {TSTake(pass[i - 1], rs[i], i), RSTake(pass[i - 1], rs[i], i)}
      BY <2>1
    <3>2. rs[i].whitelist \in BOOLEAN /\ rs[i].options.important \in BOOLEAN
      BY DEF Flagged
    <3> QED
      BY <1>1, <1>3, <2>1, <3>1, <3>2, SeenMore
  <2>2. CASE i \notin hits
    <3>1. pass[i] \in {pass[i - 1]}
      BY <2>2
    <3>2. i \in Nat \ {0}
      OBVIOUS
    <3>3. Seen(rs, hits, i, pass[i - 1])
      BY <1>1, <1>3, <2>2, <3>2, SeenSkip
    <3> QED
      BY <3>1, <3>3
  <2> QED
    BY <2>1, <2>2
<1>4. <<0, pass[0]>> \in good
  BY <1>0, <1>2
<1>5. \A i \in 1..n : <<i - 1, pass[i - 1]>> \in good => <<i, pass[i]>> \in good
  BY <1>0, <1>3
<1> HIDE DEF good
<1>6. <<n, pass[n]>> \in good
  <2>1. \A i \in 0..n : <<i, pass[i]>> \in good
    BY <1>4, <1>5, LoopInvariant
  <2>2. n \in 0..n
    OBVIOUS
  <2> QED
    BY <2>1, <2>2
<1>7. Seen(rs, hits, n, pass[n])
  BY <1>6 DEF good
<1>8. \A i \in hits : rs[i].whitelist \in BOOLEAN /\ rs[i].options.important \in BOOLEAN
  BY <1>1 DEF Flagged
<1> QED
  BY <1>7, <1>8, SeenDecides

LEMMA TakeType ==
  ASSUME NEW found \in Founds, NEW r, NEW i \in Nat
  PROVE  TSTake(found, r, i) \in Founds /\ RSTake(found, r, i) \in Founds
BY DEF TSTake, RSTake, Founds

\* matchNetwork: the shell's pass over the rules.
LEMMA TSPass ==
  ASSUME NEW rs, NEW n \in Nat, DOMAIN rs = 1..n, Flagged(rs), NEW req
  PROVE  Decides(rs, {i \in DOMAIN rs : TSHits(rs[i], req)}, TSVerdict(rs, req))
<1> DEFINE hits == {i \in DOMAIN rs : TSHits(rs[i], req)}
           after(found, i) == IF TSHits(rs[i], req) THEN TSTake(found, rs[i], i)
                              ELSE found
           turn == [p \in Founds \X (1..n) |-> after(p[1], p[2])]
           order == [i \in DOMAIN rs |-> i]
           Fold(f) == [s \in SUBSET (DOMAIN order) |->
                         IF s = {} THEN Found
                         ELSE after(f[s \ {Max(s)}], order[Max(s)])]
           fold == CHOOSE f : f = Fold(f)
<1>1. TSVerdict(rs, req) = Pick(fold[DOMAIN order])
  BY DEF TSVerdict, FoldLeftDomain, FoldLeft, MapThenFoldSet
<1>2. DOMAIN order = 1..n /\ \A i \in 1..n : order[i] = i
  OBVIOUS
<1>3. Found \in Founds
  BY DEF Found, Founds
<1>4. \A found \in Founds, i \in 1..n : after(found, i) \in Founds
  BY TakeType
<1> HIDE DEF after
<1>5. turn \in [Founds \X (1..n) -> Founds]
  BY <1>4
<1>6. \E f : f = Fold(f)
  <2>1. PICK g \in [SUBSET (1..n) -> Founds] : IsFold(g, n, Found, turn)
    BY <1>3, <1>5, FoldExists
  <2>2. ASSUME NEW s \in SUBSET (1..n)
        PROVE  g[s] = IF s = {} THEN Found
                      ELSE after(g[s \ {Max(s)}], order[Max(s)])
    <3>1. CASE s = {}
      BY <2>1, <3>1 DEF IsFold
    <3>2. CASE s # {}
      <4>1. Max(s) \in 1..n /\ s \ {Max(s)} \in SUBSET (1..n)
        BY <3>2, MaxIn
      <4>2. g[s] = turn[<<g[s \ {Max(s)}], Max(s)>>]
        BY <2>1, <3>2 DEF IsFold
      <4> QED
        BY <1>2, <2>1, <3>2, <4>1, <4>2
    <3> QED
      BY <3>1, <3>2
  <2>3. g = Fold(g)
    BY <1>2, <2>1, <2>2
  <2> QED
    BY <2>3
<1>7. fold = Fold(fold)
  BY <1>6
<1> HIDE DEF fold
<1> DEFINE pass == [i \in 0..n |-> fold[1..i]]
<1>8. pass[0] = Found
  <2>1. 1..0 = {}
    OBVIOUS
  <2>2. fold[{}] = Found
    BY <1>7
  <2> QED
    BY <2>1, <2>2
<1>9. ASSUME NEW i \in 1..n PROVE pass[i] = after(pass[i - 1], i)
  <2>1. 1..i \in SUBSET (1..n) /\ i \in 1..i /\ i \in Nat
    OBVIOUS
  <2>2. Max(1..i) = i
    BY <2>1, MaxIs
  <2>3. (1..i) \ {i} = 1..(i - 1) /\ i - 1 \in 0..n /\ i \in 0..n
    OBVIOUS
  <2>4. fold[1..i] = after(fold[(1..i) \ {Max(1..i)}], order[Max(1..i)])
    BY <1>2, <1>7, <2>1
  <2> QED
    BY <1>2, <2>2, <2>3, <2>4
<1>10. n \in 0..n /\ pass[n] = fold[DOMAIN order]
  BY <1>2
<1>11. hits \in SUBSET (1..n)
  OBVIOUS
<1> HIDE DEF pass
<1>12. \A i \in 1..n :
         pass[i] \in IF i \in hits
                     THEN {TSTake(pass[i - 1], rs[i], i), RSTake(pass[i - 1], rs[i], i)}
                     ELSE {pass[i - 1]}
  BY <1>9 DEF after
<1> HIDE DEF hits
<1>13. Decides(rs, hits, Pick(pass[n]))
  BY <1>8, <1>11, <1>12, PassDecides
<1> QED
  BY <1>1, <1>10, <1>13 DEF hits

\* match_network: the pass of the other engine.
LEMMA RSPass ==
  ASSUME NEW rs, NEW n \in Nat, DOMAIN rs = 1..n, Flagged(rs), NEW req
  PROVE  Decides(rs, {i \in DOMAIN rs : RSHits(rs[i], req)}, RSVerdict(rs, req))
<1> DEFINE hits == {i \in DOMAIN rs : RSHits(rs[i], req)}
           after(found, i) == IF RSHits(rs[i], req) THEN RSTake(found, rs[i], i)
                              ELSE found
           turn == [p \in Founds \X (1..n) |-> after(p[1], p[2])]
           order == [i \in DOMAIN rs |-> i]
           Fold(f) == [s \in SUBSET (DOMAIN order) |->
                         IF s = {} THEN Found
                         ELSE after(f[s \ {Max(s)}], order[Max(s)])]
           fold == CHOOSE f : f = Fold(f)
<1>1. RSVerdict(rs, req) = Pick(fold[DOMAIN order])
  BY DEF RSVerdict, FoldLeftDomain, FoldLeft, MapThenFoldSet
<1>2. DOMAIN order = 1..n /\ \A i \in 1..n : order[i] = i
  OBVIOUS
<1>3. Found \in Founds
  BY DEF Found, Founds
<1>4. \A found \in Founds, i \in 1..n : after(found, i) \in Founds
  BY TakeType
<1> HIDE DEF after
<1>5. turn \in [Founds \X (1..n) -> Founds]
  BY <1>4
<1>6. \E f : f = Fold(f)
  <2>1. PICK g \in [SUBSET (1..n) -> Founds] : IsFold(g, n, Found, turn)
    BY <1>3, <1>5, FoldExists
  <2>2. ASSUME NEW s \in SUBSET (1..n)
        PROVE  g[s] = IF s = {} THEN Found
                      ELSE after(g[s \ {Max(s)}], order[Max(s)])
    <3>1. CASE s = {}
      BY <2>1, <3>1 DEF IsFold
    <3>2. CASE s # {}
      <4>1. Max(s) \in 1..n /\ s \ {Max(s)} \in SUBSET (1..n)
        BY <3>2, MaxIn
      <4>2. g[s] = turn[<<g[s \ {Max(s)}], Max(s)>>]
        BY <2>1, <3>2 DEF IsFold
      <4> QED
        BY <1>2, <2>1, <3>2, <4>1, <4>2
    <3> QED
      BY <3>1, <3>2
  <2>3. g = Fold(g)
    BY <1>2, <2>1, <2>2
  <2> QED
    BY <2>3
<1>7. fold = Fold(fold)
  BY <1>6
<1> HIDE DEF fold
<1> DEFINE pass == [i \in 0..n |-> fold[1..i]]
<1>8. pass[0] = Found
  <2>1. 1..0 = {}
    OBVIOUS
  <2>2. fold[{}] = Found
    BY <1>7
  <2> QED
    BY <2>1, <2>2
<1>9. ASSUME NEW i \in 1..n PROVE pass[i] = after(pass[i - 1], i)
  <2>1. 1..i \in SUBSET (1..n) /\ i \in 1..i /\ i \in Nat
    OBVIOUS
  <2>2. Max(1..i) = i
    BY <2>1, MaxIs
  <2>3. (1..i) \ {i} = 1..(i - 1) /\ i - 1 \in 0..n /\ i \in 0..n
    OBVIOUS
  <2>4. fold[1..i] = after(fold[(1..i) \ {Max(1..i)}], order[Max(1..i)])
    BY <1>2, <1>7, <2>1
  <2> QED
    BY <1>2, <2>2, <2>3, <2>4
<1>10. n \in 0..n /\ pass[n] = fold[DOMAIN order]
  BY <1>2
<1>11. hits \in SUBSET (1..n)
  OBVIOUS
<1> HIDE DEF pass
<1>12. \A i \in 1..n :
         pass[i] \in IF i \in hits
                     THEN {TSTake(pass[i - 1], rs[i], i), RSTake(pass[i - 1], rs[i], i)}
                     ELSE {pass[i - 1]}
  BY <1>9 DEF after
<1> HIDE DEF hits
<1>13. Decides(rs, hits, Pick(pass[n]))
  BY <1>8, <1>11, <1>12, PassDecides
<1> QED
  BY <1>1, <1>10, <1>13 DEF hits
-----------------------------------------------------------------------------
\* The two ways to match, on plain patterns.

\* Whether the segments from the k-th on match from position i on, if row says
\* from where those after the k-th do.
Cell(segs, url, mustEnd, k, i, row) ==
  IF k > Len(segs) THEN mustEnd => i > Len(url)
  ELSE \/ segs[k] = "*" /\ \E j \in i..(Len(url) + 1) : row[j]
       \/ segs[k] = "^" /\ (i > Len(url) \/ IsSep(url[i])) /\ row[i]
       \/ segs[k] \notin {"*", "^"} /\ i <= Len(url) /\ url[i] = segs[k] /\ row[i + 1]

\* The equations of SegMatch, row by row.
IsTable(m, segs, url, mustEnd) ==
  \A k \in 1..(Len(segs) + 1) :
    m[k] = [i \in 1..(Len(url) + 1) |-> Cell(segs, url, mustEnd, k, i, m[k + 1])]

\* They have a solution, filled in from the last row, and SegMatch reads it.
LEMMA TableIs ==
  ASSUME NEW segs, Len(segs) \in Nat, NEW url, Len(url) \in Nat, NEW mustEnd
  PROVE  \E m : /\ IsTable(m, segs, url, mustEnd)
                /\ \A from : SegMatch(segs, url, from, mustEnd) = m[1][from]
<1> DEFINE L == Len(segs)
           n == Len(url)
           Row(k, row) == [i \in 1..(n + 1) |-> Cell(segs, url, mustEnd, k, i, row)]
           Unfold(f) == [k \in 1..(L + 1) |-> Row(k, f[k + 1])]
           table == CHOOSE f : f = Unfold(f)
           V == [1..(n + 1) -> BOOLEAN]
           turn == [p \in V \X (1..L) |-> Row(L + 1 - p[2], p[1])]
           last == Row(L + 1, <<>>)
<1>0. L \in Nat /\ n \in Nat
  OBVIOUS
<1>1. \A from : SegMatch(segs, url, from, mustEnd) = table[1][from]
  BY DEF SegMatch, Cell
<1>2. \A k, row : Row(k, row) \in V
  <2>1. \A k, i, row : Cell(segs, url, mustEnd, k, i, row) \in BOOLEAN
    BY DEF Cell
  <2> QED
    BY <2>1
<1>3. \A row : Row(L + 1, row) = last
  <2>1. L + 1 > Len(segs)
    BY <1>0
  <2>2. \A i, row : Cell(segs, url, mustEnd, L + 1, i, row)
                   = Cell(segs, url, mustEnd, L + 1, i, <<>>)
    <3> HIDE DEF L
    <3> QED
      BY <2>1 DEF Cell
  <2> QED
    BY <2>2
<1> HIDE DEF Row
<1>4. turn \in [V \X (1..L) -> V] /\ last \in V
  BY <1>2
<1> HIDE DEF V, last
<1>5. PICK g \in [0..L -> V] : IsLoop(g, L, last, turn)
  BY <1>0, <1>4, LoopExists
<1> DEFINE f == [k \in 1..(L + 1) |-> g[L + 1 - k]]
<1>6. ASSUME NEW k \in 1..(L + 1) PROVE f[k] = Row(k, f[k + 1])
  <2>1. CASE k = L + 1
    <3>1. f[k] = g[0]
      BY <1>0, <2>1
    <3> QED
      BY <1>3, <1>5, <2>1, <3>1 DEF IsLoop
  <2>2. CASE k # L + 1
    <3>1. /\ k \in 1..L /\ L + 1 - k \in 1..L /\ L + 1 - k - 1 = L - k /\ L - k \in 0..L
          /\ k + 1 \in 1..(L + 1) /\ L + 1 - (k + 1) = L - k /\ L + 1 - (L + 1 - k) = k
      BY <1>0, <2>2
    <3>2. g[L + 1 - k] = turn[<<g[L - k], L + 1 - k>>]
      <4>1. \A i \in 1..L : g[i] = turn[<<g[i - 1], i>>]
        BY <1>5 DEF IsLoop
      <4> DEFINE t == L + 1 - k
      <4>2. t \in 1..L /\ t - 1 = L - k
        BY <3>1
      <4> HIDE DEF t
      <4>3. g[t] = turn[<<g[t - 1], t>>]
        BY <4>1, <4>2
      <4>4. g[t] = turn[<<g[L - k], t>>]
        BY <4>2, <4>3
      <4> QED
        BY <4>4 DEF t
    <3>3. g[L - k] \in V
      BY <1>5, <3>1
    <3>4. turn[<<g[L - k], L + 1 - k>>] = Row(k, g[L - k])
      BY <3>1, <3>3
    <3>5. f[k + 1] = g[L - k]
      BY <3>1
    <3> QED
      BY <3>2, <3>4, <3>5
  <2> QED
    BY <2>1, <2>2
<1>7. f = Unfold(f)
  BY <1>6
<1>8. table = Unfold(table)
  BY <1>7
<1> HIDE DEF table
<1>9. \A k \in 1..(L + 1) : table[k] = Row(k, table[k + 1])
  BY <1>8
<1>10. IsTable(table, segs, url, mustEnd)
  BY <1>9 DEF Row, IsTable
<1> QED
  BY <1>1, <1>10

\* What matches from the end of an address matches from its last token, too:
\* only "*" takes nothing.
LEMMA LastStart ==
  ASSUME NEW segs, Len(segs) \in Nat \ {0}, segs[1] # "^",
         NEW url, Len(url) \in Nat \ {0}, NEW mustEnd,
         SegMatch(segs, url, Len(url) + 1, mustEnd)
  PROVE  SegMatch(segs, url, Len(url), mustEnd)
<1> DEFINE n == Len(url)
<1>0. n \in Nat \ {0} /\ 1 \in 1..(Len(segs) + 1) /\ ~ (1 > Len(segs))
  OBVIOUS
<1>1. PICK m : /\ IsTable(m, segs, url, mustEnd)
               /\ \A from : SegMatch(segs, url, from, mustEnd) = m[1][from]
  BY TableIs
<1>2. \A i \in 1..(n + 1) : m[1][i] = Cell(segs, url, mustEnd, 1, i, m[1 + 1])
  <2>1. m[1] = [i \in 1..(Len(url) + 1) |-> Cell(segs, url, mustEnd, 1, i, m[1 + 1])]
    <3>1. \A k \in 1..(Len(segs) + 1) :
            m[k] = [i \in 1..(Len(url) + 1) |-> Cell(segs, url, mustEnd, k, i, m[k + 1])]
      BY <1>1 DEF IsTable
    <3> QED
      BY <1>0, <3>1, Zenon
  <2> QED
    BY <2>1
<1>3. n \in 1..(n + 1) /\ n + 1 \in 1..(n + 1) /\ ~ (n + 1 <= n)
  BY <1>0
<1>4. Cell(segs, url, mustEnd, 1, n + 1, m[1 + 1])
  BY <1>1, <1>2, <1>3
<1>5. segs[1] = "*" /\ \E j \in (n + 1)..(n + 1) : m[1 + 1][j]
  BY <1>0, <1>3, <1>4 DEF Cell
<1>6. \A j \in (n + 1)..(n + 1) : j \in n..(n + 1)
  BY <1>0
<1>7. Cell(segs, url, mustEnd, 1, n, m[1 + 1])
  BY <1>0, <1>5, <1>6 DEF Cell
<1> QED
  BY <1>1, <1>2, <1>3, <1>7

\* A compiled pattern without marks that the engines read in different ways.
PlainPattern(c) ==
  /\ ~c.host /\ c.end \in BOOLEAN
  /\ c.segs \in Text \ {<<>>}
  /\ \A k \in DOMAIN c.segs : c.segs[k] \notin {"|", "^"}

LEMMA SameMatches ==
  ASSUME NEW c, PlainPattern(c), NEW url \in Text \ {<<>>}
  PROVE  TSMatches(c, url) <=> RSMatches(c, url)
<1> DEFINE n == Len(c.segs) + 1
           u == Len(url)
           M(i) == SegMatch(c.segs, url, i, c.end)
           bars == {0, n} \cup {k \in DOMAIN c.segs : c.segs[k] = "|"}
           Starting(a) == IF a = 0 THEN Starts(c, url, 1..(u + 1)) ELSE 1..(u + 1)
           Alternative(a, b) ==
             /\ a < b /\ \A k \in bars : k <= a \/ k >= b
             /\ \E i \in Starting(a) :
                  SegMatch(SubSeq(c.segs, a + 1, b - 1), url, i, c.end /\ b = n)
<1>1. /\ Len(c.segs) \in Nat \ {0} /\ u \in Nat \ {0} /\ n \in Nat /\ n > 1
      /\ SubSeq(c.segs, 0 + 1, n - 1) = c.segs
      /\ DOMAIN c.segs = 1..Len(c.segs)
  BY DEF PlainPattern, Text
<1>2. c.segs[1] # "^" /\ bars = {0, n}
  BY <1>1 DEF PlainPattern
<1>3. TSMatches(c, url) <=> \E a \in bars, b \in bars : Alternative(a, b)
  BY DEF TSMatches
<1>4. (c.end /\ n = n) = c.end
  BY DEF PlainPattern
<1>5. Alternative(0, n) <=> \E i \in Starts(c, url, 1..(u + 1)) : M(i)
  <2>1. 0 < n /\ \A k \in bars : k <= 0 \/ k >= n
    BY <1>1, <1>2
  <2>2. Starting(0) = Starts(c, url, 1..(u + 1))
    OBVIOUS
  <2>3. \A i : SegMatch(SubSeq(c.segs, 0 + 1, n - 1), url, i, c.end /\ n = n) <=> M(i)
    BY <1>1, <1>4
  <2> HIDE DEF Starting, M, bars, n
  <2> QED
    BY <2>1, <2>2, <2>3
<1>6. \A a \in bars, b \in bars : Alternative(a, b) => a = 0 /\ b = n
  BY <1>1, <1>2
<1> HIDE DEF Alternative
<1>7. TSMatches(c, url) <=> \E i \in Starts(c, url, 1..(u + 1)) : M(i)
  BY <1>2, <1>3, <1>5, <1>6
<1>8. RSMatches(c, url) <=> \E i \in Starts(c, url, 1..u) : M(i)
  BY DEF RSMatches
<1>9. M(u + 1) => M(u)
  BY <1>1, <1>2, LastStart
<1>10. (\E i \in 1..(u + 1) : M(i)) <=> (\E i \in 1..u : M(i))
  <2> HIDE DEF M
  <2>1. u \in 1..u /\ \A i \in 1..(u + 1) : i \in 1..u \/ i = u + 1
    BY <1>1
  <2>2. \A i \in 1..u : i \in 1..(u + 1)
    BY <1>1
  <2> QED
    BY <1>9, <2>1, <2>2
<1> HIDE DEF M
<1>11. CASE c.start
  <2>1. Starts(c, url, 1..(u + 1)) = {1} /\ Starts(c, url, 1..u) = {1}
    BY <1>11 DEF Starts, PlainPattern
  <2> QED
    BY <1>7, <1>8, <2>1
<1>12. CASE ~c.start
  <2>1. Starts(c, url, 1..(u + 1)) = 1..(u + 1) /\ Starts(c, url, 1..u) = 1..u
    BY <1>12 DEF Starts, PlainPattern
  <2> QED
    BY <1>7, <1>8, <1>10, <2>1
<1> QED
  BY <1>11, <1>12

\* A plain line's pattern compiles to a plain one: no inner "|" leaves none
\* for "||", and more than two tokens leave one between the ends.
LEMMA PlainCompiles ==
  ASSUME NEW pattern \in Text, "^" \notin ToSet(pattern), Len(pattern) > 2,
         \A i \in 2..(Len(pattern) - 1) : pattern[i] # "|"
  PROVE  PlainPattern(Compile(pattern))
<1> DEFINE l == Len(pattern)
           ends   == pattern # <<>> /\ Last(pattern) = "|"
           headed == IF ends THEN Front(pattern) ELSE pattern
           starts == headed # <<>> /\ Head(headed) = "|"
           bare   == IF starts THEN Tail(headed) ELSE headed
           hosts  == IsPrefix(<<"|", "|">>, bare)
<1>0. l \in Nat /\ l > 2 /\ DOMAIN pattern = 1..l /\ \A i \in 1..l : pattern[i] # "^"
  BY DEF Text, ToSet
<1> DEFINE Tokens == Marks \cup Words
<1>t. Text = Seq(Tokens) /\ pattern \in Seq(Tokens)
  BY DEF Text
<1> HIDE DEF Tokens
<1>1. Compile(pattern) = [segs |-> IF hosts THEN SubSeq(bare, 3, Len(bare)) ELSE bare,
                          host |-> hosts, start |-> starts, end |-> ends]
  BY DEF Compile
<1>2. ends <=> pattern[l] = "|"
  BY <1>0 DEF Last
<1>3. /\ headed \in Seq(Tokens)
      /\ Len(headed) \in Nat /\ Len(headed) > 1 /\ Len(headed) <= l
      /\ \A i \in 1..Len(headed) : headed[i] = pattern[i]
      /\ Len(headed) = l => ~ends
  <2>1. CASE ends
    <3>1. headed = SubSeq(pattern, 1, l - 1)
      BY <2>1 DEF Front
    <3> HIDE DEF headed, ends
    <3>2. /\ headed \in Seq(Tokens) /\ Len(headed) = l - 1
          /\ \A i \in 1..(l - 1) : headed[i] = pattern[i]
      BY <1>0, <1>t, <3>1
    <3> HIDE DEF l
    <3>3. l - 1 \in Nat /\ l - 1 > 1 /\ l - 1 <= l /\ l - 1 # l
      BY <1>0
    <3> QED
      BY <3>2, <3>3
  <2>2. CASE ~ends
    <3>1. headed = pattern
      BY <2>2
    <3> HIDE DEF headed, ends
    <3> QED
      BY <1>0, <1>t, <2>2, <3>1
  <2> QED
    BY <2>1, <2>2
<1>4. \A i \in 2..Len(headed) : headed[i] # "|"
  <2> SUFFICES ASSUME NEW i \in 2..Len(headed) PROVE headed[i] # "|"
    OBVIOUS
  <2> HIDE DEF headed, ends, l
  <2>1. i \in 1..Len(headed) /\ headed[i] = pattern[i]
    BY <1>0, <1>3
  <2>2. i \in 2..(l - 1) \/ (i = l /\ ~ends)
    BY <1>0, <1>3
  <2> QED
    BY <1>2, <2>1, <2>2 DEF l
<1>5. starts <=> headed[1] = "|"
  <2> HIDE DEF headed
  <2> QED
    BY <1>3
<1>6. ends \in BOOLEAN
  OBVIOUS
<1> HIDE DEF headed, ends
<1>7. /\ bare \in Seq(Tokens) /\ Len(bare) \in Nat \ {0}
      /\ \A i \in 1..Len(bare) : bare[i] \notin {"|", "^"}
  <2>1. CASE starts
    <3>1. /\ bare \in Seq(Tokens) /\ Len(bare) = Len(headed) - 1
          /\ \A i \in 1..Len(bare) : bare[i] = headed[i + 1]
      BY <1>3, <2>1
    <3> HIDE DEF bare, starts, l
    <3>2. \A i \in 1..Len(bare) : i + 1 \in 2..Len(headed) /\ i + 1 \in 1..Len(headed) /\ i + 1 \in 1..l
      BY <1>0, <1>3, <3>1
    <3>3. ASSUME NEW i \in 1..Len(bare) PROVE bare[i] \notin {"|", "^"}
      <4>1. bare[i] = headed[i + 1] /\ headed[i + 1] = pattern[i + 1]
        BY <1>3, <3>1, <3>2
      <4>2. headed[i + 1] # "|" /\ pattern[i + 1] # "^"
        BY <1>0, <1>4, <3>2
      <4> QED
        BY <4>1, <4>2
    <3> QED
      BY <1>3, <3>1, <3>3
  <2>2. CASE ~starts
    <3>1. bare = headed
      BY <2>2
    <3> HIDE DEF bare, starts, l
    <3>2. \A i \in 1..Len(headed) : (i = 1 \/ i \in 2..Len(headed)) /\ i \in 1..l
      BY <1>0, <1>3
    <3>3. ASSUME NEW i \in 1..Len(headed) PROVE headed[i] \notin {"|", "^"}
      <4>1. headed[i] # "|"
        BY <1>4, <1>5, <2>2, <3>2
      <4>2. headed[i] = pattern[i] /\ pattern[i] # "^"
        BY <1>0, <1>3, <3>2
      <4> QED
        BY <4>1, <4>2
    <3> QED
      BY <1>3, <3>1, <3>3
  <2> QED
    BY <2>1, <2>2
<1> HIDE DEF bare, starts
<1>8. ~hosts
  <2>1. hosts => bare[1] = "|"
    BY <1>7 DEF IsPrefix
  <2> QED
    BY <1>7, <2>1
<1>9. Compile(pattern) = [segs |-> bare, host |-> hosts, start |-> starts, end |-> ends]
  BY <1>1, <1>8
<1>10. bare # <<>> /\ DOMAIN bare = 1..Len(bare)
  BY <1>7
<1> HIDE DEF hosts
<1> QED
  BY <1>t, <1>6, <1>7, <1>8, <1>9, <1>10 DEF PlainPattern

\* Of a plain line both engines make the same rule.
PlainRules == {r \in Rules : PlainPattern(r.pattern)}

LEMMA PlainParse ==
  ASSUME NEW line \in Line, Plain(line)
  PROVE  TSParse(line) = RSParse(line) /\ TSParse(line) \in Seq(PlainRules)
<1> DEFINE rule == NetRule(line, line.pattern, line.options)
<1>1. /\ line.kind = "network" /\ "^" \notin ToSet(line.pattern) /\ Len(line.pattern) > 2
      /\ ~line.options.odd /\ line.pattern \in Text /\ line.options \in Options
  BY LineType DEF Plain
<1>2. line.pattern # <<>>
  <2>1. Len(<<>>) = 0
    OBVIOUS
  <2> QED
    BY <1>1, <2>1
<1>3. TSParse(line) = rule
  BY <1>1, <1>2 DEF TSParse
<1>4. RSParse(line) = rule
  BY <1>1, <1>2 DEF RSParse
<1>5. PlainPattern(Compile(line.pattern))
  BY <1>1, PlainCompiles DEF Plain
<1>6. rule[1] \in Rules
  BY <1>1 DEF Rules
<1>7. rule[1].pattern = Compile(line.pattern) /\ rule = <<rule[1]>>
  BY DEF NetRule
<1> HIDE DEF rule
<1>8. rule[1] \in PlainRules
  BY <1>5, <1>6, <1>7 DEF PlainRules
<1>9. <<rule[1]>> \in Seq(PlainRules)
  BY <1>8, OneToken
<1>10. rule \in Seq(PlainRules)
  BY <1>7, <1>9
<1> QED
  BY <1>3, <1>4, <1>10

LEMMA PlainLoad ==
  ASSUME NEW lines \in Seq(Line), \A i \in DOMAIN lines : Plain(lines[i])
  PROVE  TSLoad(lines) = RSLoad(lines) /\ TSLoad(lines) \in Seq(PlainRules)
<1>1. DOMAIN lines = 1..Len(lines) /\ Len(lines) \in Nat
      /\ \A i \in 1..Len(lines) : lines[i] \in Line
  OBVIOUS
<1>2. \A i \in DOMAIN lines : TSParse(lines[i]) = RSParse(lines[i])
                              /\ TSParse(lines[i]) \in Seq(PlainRules)
  BY <1>1, PlainParse
<1>3. [i \in DOMAIN lines |-> TSParse(lines[i])] = [i \in DOMAIN lines |-> RSParse(lines[i])]
  BY <1>2
<1>4. [i \in DOMAIN lines |-> TSParse(lines[i])] \in Seq(Seq(PlainRules))
  BY <1>1, <1>2
<1> QED
  BY <1>3, <1>4, FlattenType DEF TSLoad, RSLoad

\* Rules that hit are all that a verdict depends on.
LEMMA DecidedOnce ==
  ASSUME NEW rs, NEW hits, NEW v, NEW w, Decides(rs, hits, v), Decides(rs, hits, w)
  PROVE  v.verdict = w.verdict
BY DEF Decides

-----------------------------------------------------------------------------
\* Whatever is changed, reloaded, delivered and restarted, in any order: with
\* no message under way the worker has the list of the settings, or none.
THEOREM NeverAnOldListAlways == Spec => []NeverAnOldList
<1>1. ShieldInv => NeverAnOldList
  BY DEF ShieldInv, Newest, NeverAnOldList
<1> QED
  BY <1>1, InitHolds, StepHolds, PTL DEF Spec

\* Every list the worker holds or is sent is one of texts that are not empty,
\* whatever lines the settings hold.
THEOREM ShieldTyped == Spec => []TypeOK
<1>1. ASSUME ShieldInv PROVE TypeOK
  <2>1. \A v \in {verdicts} \cup ToSet(toWorker) : v \in Posted \cup {NoVerdicts}
    BY <1>1 DEF ShieldInv, ToSet
  <2>2. ASSUME NEW v \in Posted, NEW h \in v.hosts
        PROVE  h # <<>> /\ h \in Text
    <3>1. PICK cfg \in Settings : v = Blocklist(cfg)
      BY DEF Posted
    <3>2. h \in Hosts(TSLoad(BuildLists(cfg)))
      BY <2>2, <3>1 DEF Blocklist
    <3> QED
      BY <3>1, <3>2, ListType, LoadType, HostsType
  <2>3. \A v \in Posted : v.enabled \in BOOLEAN
    BY DEF Posted, Blocklist, Settings
  <2>4. NoVerdicts.enabled \in BOOLEAN /\ NoVerdicts.hosts = {}
    BY DEF NoVerdicts
  <2> QED
    BY <1>1, <2>1, <2>2, <2>3, <2>4 DEF ShieldInv, TypeOK
<1> QED
  BY <1>1, InitHolds, StepHolds, PTL DEF Spec

\* An important block beats an exception and an exception beats a block, for
\* every list of lines the settings can hold and every request, whatever the
\* order of the lines: of the one pass of matchNetwork and of match_network.
THEOREM PrecedenceAlways == Spec => []Precedence
<1>1. ASSUME NEW rs \in Seq(Rules), NEW req
      PROVE  /\ Decides(rs, {i \in DOMAIN rs : TSHits(rs[i], req)}, TSVerdict(rs, req))
             /\ Decides(rs, {i \in DOMAIN rs : RSHits(rs[i], req)}, RSVerdict(rs, req))
  <2>1. Len(rs) \in Nat /\ DOMAIN rs = 1..Len(rs)
    OBVIOUS
  <2>2. Flagged(rs)
    BY RuleType DEF Flagged
  <2> QED
    BY <2>1, <2>2, TSPass, RSPass
<1>2. ASSUME ShieldInv PROVE Precedence
  <2>1. rules = TSLoad(BuildLists(settings)) /\ settings \in Settings
    BY <1>2 DEF ShieldInv
  <2>2. rules \in Seq(Rules) /\ RSLoad(BuildLists(settings)) \in Seq(Rules)
    BY <2>1, ListType, LoadType
  <2> QED
    BY <1>1, <2>2 DEF Precedence
<1> QED
  BY <1>2, InitHolds, StepHolds, PTL DEF Spec

\* On plain lines the regular expressions of the shell and the segments of the
\* core give every request the same verdict, whatever the settings
\* (matchNetwork beside match_network, lib.rs: "keeps verdicts identical").
THEOREM PlainLinesAgreeAlways == Spec => []PlainLinesAgree
<1>1. ASSUME ShieldInv PROVE PlainLinesAgree
  <2> DEFINE lines == BuildLists(settings)
             rs == TSLoad(lines)
  <2> SUFFICES ASSUME \A i \in DOMAIN lines : Plain(lines[i]), NEW req \in Requests
               PROVE  TSVerdict(rs, req).verdict = RSVerdict(RSLoad(lines), req).verdict
    BY DEF PlainLinesAgree, Agree
  <2>1. lines \in Seq(Line)
    BY <1>1, ListType DEF ShieldInv
  <2> HIDE DEF lines
  <2>2. RSLoad(lines) = rs /\ rs \in Seq(PlainRules)
    BY <2>1, PlainLoad
  <2> HIDE DEF rs
  <2>3. rs \in Seq(Rules) /\ \A i \in DOMAIN rs : rs[i] \in Rules /\ PlainPattern(rs[i].pattern)
    BY <2>2 DEF PlainRules
  <2>4. req.url \in Text \ {<<>>}
    BY RequestsAssumption
  <2>5. \A i \in DOMAIN rs : TSHits(rs[i], req) <=> RSHits(rs[i], req)
    BY <2>3, <2>4, SameMatches DEF TSHits, RSHits
  <2>6. {i \in DOMAIN rs : TSHits(rs[i], req)} = {i \in DOMAIN rs : RSHits(rs[i], req)}
    BY <2>5
  <2>7. /\ Decides(rs, {i \in DOMAIN rs : TSHits(rs[i], req)}, TSVerdict(rs, req))
        /\ Decides(rs, {i \in DOMAIN rs : RSHits(rs[i], req)}, RSVerdict(rs, req))
    <3>1. Len(rs) \in Nat /\ DOMAIN rs = 1..Len(rs)
      BY <2>3
    <3>2. Flagged(rs)
      BY <2>3, RuleType DEF Flagged
    <3> QED
      BY <3>1, <3>2, TSPass, RSPass
  <2> DEFINE hits == {i \in DOMAIN rs : TSHits(rs[i], req)}
  <2>8. Decides(rs, hits, TSVerdict(rs, req)) /\ Decides(rs, hits, RSVerdict(rs, req))
    BY <2>6, <2>7
  <2> HIDE DEF hits
  <2>9. TSVerdict(rs, req).verdict = RSVerdict(rs, req).verdict
    BY <2>8, DecidedOnce
  <2> QED
    BY <2>2, <2>9
<1> QED
  BY <1>1, InitHolds, StepHolds, PTL DEF Spec
=============================================================================
