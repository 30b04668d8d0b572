----------------------------- MODULE FilterEngine -----------------------------
(***************************************************************************)
(* The two filter engines: the shell's (src/src/lib/engine.ts, prefix TS)  *)
(* and the one meant for WebAssembly (src/wasm_engine/src/filters.rs,      *)
(* prefix RS), from the lines of a list to the verdict on a request.       *)
(*                                                                         *)
(* Text is a sequence of tokens: the marks "|", "*" and "^" of a pattern,  *)
(* "://", "." and "/" of an address, and words, of which none is part of   *)
(* another, so that a literal matches token by token.  A line has its $    *)
(* options split off already:                                              *)
(*   network  - pattern, exception (@@), options: important, types ({}:    *)
(*              all), third ("any", "third" or "first" party), inc and exc *)
(*              (domain=), odd: one that only the shell's engine knows     *)
(*   cosmetic - host, marker, selector                                     *)
(***************************************************************************)
EXTENDS Naturals, Sequences, SequencesExt

CONSTANT Words  \* the words of patterns and addresses

Marks == {"|", "*", "^", "://", ".", "/", "@@", "##", "$", "options"}
Text == Seq(Marks \cup Words)

Options == [important: BOOLEAN, types: SUBSET STRING,
            third: {"any", "third", "first"}, inc: SUBSET Text,
            exc: SUBSET Text, odd: BOOLEAN]

Line ==
  [kind: {"network"}, exception: BOOLEAN, pattern: Text, options: Options]
  \cup [kind: {"cosmetic"}, exception: BOOLEAN, host: Text, marker: STRING,
        selector: Text, options: Options]

NoOptions == [important |-> FALSE, types |-> {}, third |-> "any",
              inc |-> {}, exc |-> {}, odd |-> FALSE]

\* raw: the text of the line that a rule keeps.
Raw(line, pattern) ==
  (IF line.exception THEN <<"@@">> ELSE <<>>) \o pattern \o
  (IF line.options = NoOptions THEN <<>> ELSE <<"$", "options">>)

-----------------------------------------------------------------------------
\* Patterns.

\* Both engines take one "|" off each end before they look for "||".
Compile(pattern) ==
  LET ends   == pattern # <<>> /\ Last(pattern) = "|"
      headed == IF ends THEN Front(pattern) ELSE pattern
      starts == headed # <<>> /\ Head(headed) = "|"
      bare   == IF starts THEN Tail(headed) ELSE headed
      hosts  == IsPrefix(<<"|", "|">>, bare)
  IN [segs |-> IF hosts THEN SubSeq(bare, 3, Len(bare)) ELSE bare,
      host |-> hosts, start |-> starts, end |-> ends]

IsSep(token) == token \in {"://", "/", "|", "$"}

\* Do the segments match the address from position from on?  "^" looks at the
\* next token and leaves it there.
SegMatch(segs, url, from, mustEnd) ==
  LET m[k \in 1..(Len(segs) + 1)] ==
        [i \in 1..(Len(url) + 1) |->
           IF k > Len(segs) THEN mustEnd => i > Len(url)
           ELSE \/ segs[k] = "*" /\ \E j \in i..(Len(url) + 1) : m[k + 1][j]
                \/ segs[k] = "^" /\ (i > Len(url) \/ IsSep(url[i])) /\ m[k + 1][i]
                \/ segs[k] \notin {"*", "^"} /\ i <= Len(url) /\ url[i] = segs[k]
                   /\ m[k + 1][i + 1]]
  IN m[1][from]

\* Where the host begins, and each of its parent domains.
HostStarts(url) ==
  LET root == SelectInSeq(url, LAMBDA token : token = "://") IN
  {i \in (root + 1)..Len(url) :
     /\ url[i - 1] \in {"://", "."}
     /\ \A j \in (root + 1)..(i - 1) : url[j] # "/"}

Starts(c, url, all) ==
  IF c.host THEN HostStarts(url) ELSE IF c.start THEN {1} ELSE all

\* Mutant of RSMatches: the end anchor is forgotten.
RSMatchesAnyEnd(c, url) ==
  \E i \in Starts(c, url, 1..Len(url)) : SegMatch(c.segs, url, i, FALSE)

\* NetRule::matches: a "|" that is left is a literal.
RSMatches(c, url) ==
  \E i \in Starts(c, url, 1..Len(url)) : SegMatch(c.segs, url, i, c.end)

\* RegExp.test (external): a "|" that is left separates alternatives, and an
\* anchor belongs to the first or the last of them only.
TSMatches(c, url) ==
  LET n    == Len(c.segs) + 1
      bars == {0, n} \cup {k \in DOMAIN c.segs : c.segs[k] = "|"}
      all  == 1..(Len(url) + 1)
  IN \E a \in bars, b \in bars :
       /\ a < b /\ \A k \in bars : k <= a \/ k >= b
       /\ \E i \in (IF a = 0 THEN Starts(c, url, all) ELSE all) :
            SegMatch(SubSeq(c.segs, a + 1, b - 1), url, i, c.end /\ b = n)

-----------------------------------------------------------------------------
\* Lines to network rules: a sequence of one rule, or of none.

NetRule(line, pattern, options) ==
  <<[whitelist |-> line.exception, options |-> options,
     raw |-> Raw(line, pattern), pattern |-> Compile(pattern)]>>

\* parseLine: "##" is compared with three characters and so not recognised:
\* the line is read as a network rule.  "^" is escaped before it is replaced,
\* which leaves a bracket unmatched: RegExp throws and the rule is dropped.
TSParse(line) ==
  LET pattern == IF line.kind = "network" THEN line.pattern
                 ELSE line.host \o <<"##">> \o line.selector
  IN IF \/ line.kind = "cosmetic" /\ line.marker # "##"
        \/ pattern = <<>>
        \/ "^" \in ToSet(pattern)
     THEN <<>> ELSE NetRule(line, pattern, line.options)

\* parse_line: an option it does not know leaves all of them in the pattern.
RSParse(line) ==
  IF line.kind = "cosmetic" \/ line.pattern = <<>> THEN <<>>
  ELSE IF line.options.odd
       THEN NetRule(line, line.pattern \o <<"$", "options">>, NoOptions)
       ELSE NetRule(line, line.pattern, line.options)

TSLoad(lines) == FlattenSeq([i \in DOMAIN lines |-> TSParse(lines[i])])
RSLoad(lines) == FlattenSeq([i \in DOMAIN lines |-> RSParse(lines[i])])

-----------------------------------------------------------------------------
\* Verdicts.

Within(host, domain) == host = domain \/ IsSuffix(<<".">> \o domain, host)

\* The options o of a rule let it speak about request req.
Applies(o, req) ==
  /\ o.types # {} => req.type \in o.types
  /\ o.third # "any" => (o.third = "third") = req.third
  /\ ~\E d \in o.exc : Within(req.origin, d)
  /\ o.inc # {} => \E d \in o.inc : Within(req.origin, d)

TSHits(r, req) == Applies(r.options, req) /\ TSMatches(r.pattern, req.url)
RSHits(r, req) == Applies(r.options, req) /\ RSMatches(r.pattern, req.url)

\* What a pass over the rules has found: indices of rules, 0 for none.
Found == [blocked |-> 0, whitelisted |-> 0, important |-> 0]

\* Mutant of TSTake: an important rule counts as an ordinary one.
TSTakeUnimportant(found, r, i) ==
  IF r.whitelist THEN [found EXCEPT !.whitelisted = i]
  ELSE IF found.blocked = 0 THEN [found EXCEPT !.blocked = i]
  ELSE found

TSTake(found, r, i) ==
  IF r.whitelist
  THEN IF found.whitelisted = 0 \/ r.options.important
       THEN [found EXCEPT !.whitelisted = i] ELSE found
  ELSE IF r.options.important THEN [found EXCEPT !.important = i]
  ELSE IF found.blocked = 0 THEN [found EXCEPT !.blocked = i]
  ELSE found

RSTake(found, r, i) ==
  IF r.whitelist THEN [found EXCEPT !.whitelisted = i]
  ELSE IF r.options.important THEN [found EXCEPT !.important = i]
  ELSE IF found.blocked = 0 THEN [found EXCEPT !.blocked = i]
  ELSE found

Pick(found) ==
  IF found.important # 0 THEN [verdict |-> "block", rule |-> found.important]
  ELSE IF found.whitelisted # 0 THEN [verdict |-> "allow", rule |-> found.whitelisted]
  ELSE IF found.blocked # 0 THEN [verdict |-> "block", rule |-> found.blocked]
  ELSE [verdict |-> "pass", rule |-> 0]

\* matchNetwork and match_network.
TSVerdict(rules, req) ==
  Pick(FoldLeftDomain(LAMBDA found, i : IF TSHits(rules[i], req)
                                        THEN TSTake(found, rules[i], i) ELSE found,
                      Found, rules))
RSVerdict(rules, req) ==
  Pick(FoldLeftDomain(LAMBDA found, i : IF RSHits(rules[i], req)
                                        THEN RSTake(found, rules[i], i) ELSE found,
                      Found, rules))
=============================================================================
