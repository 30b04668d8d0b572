------------------------------ MODULE MCParts ------------------------------
(***************************************************************************)
(* The parts that share no state with the others or with each other, on    *)
(* small instances: proxied links as text, pages and their references,     *)
(* dialling, the worker's X25519 and its WASM core.  A behaviour exercises *)
(* one of them, part, and the variables of the others stay Unused.         *)
(***************************************************************************)
EXTENDS Naturals, Sequences, TLC

CONSTANTS CodePoints, MaxName, Units, MaxText,   \* Links
          Sites, Paths,                          \* Pages
          Hosts, Lengths, Stream,                \* Dial
          P, A24, Bits,                          \* X25519
          Sizes, MaxBodies                       \* WasmCore

\* Names are made of characters, so that no half of a surrogate pair stands
\* alone; the destination's bytes, the length of a name and the sizes of bodies
\* are numbers; no site is at the shell's own address.
ASSUME CodePointsAssumption ==
  CodePoints \subseteq Nat
  /\ \A c \in CodePoints : c <= 1114111 /\ ~ (c >= 55296 /\ c <= 57343)
ASSUME RouteAssumption == Lengths \subseteq Nat /\ Stream \in Seq(Nat)
ASSUME SizesAssumption == Sizes \subseteq Nat
ASSUME SitesAssumption == "shell" \notin Sites

VARIABLES
  part,
  name, text,
  engine, frame, doc, going, last,
  upstream, meant, target, proto, pc, egress, asked, skip, sent, coming, inbox, hung,
  k, b, phase, u, t, x2, z2, x3, z3, swap, pub, secret,
  bodies, core

links == <<name, text>>
pages == <<engine, frame, doc, going, last>>
dial == <<upstream, meant, target, proto, pc, egress, asked, skip, sent, coming,
          inbox, hung>>
keys == <<k, b, phase, u, t, x2, z2, x3, z3, swap, pub, secret>>
wasm == <<bodies, core>>
all == <<part, links, pages, dial, keys, wasm>>

Link == INSTANCE Links
Page == INSTANCE Pages
Route == INSTANCE Dial
TwoBytes == <<8, 9>>

\* y^2 = x^3 + 14 x^2 + x over 127 has 8 * 17 points.
Curve == INSTANCE X25519 WITH Base <- <<9, 27>>
Wasm == INSTANCE WasmCore

-----------------------------------------------------------------------------
Unused == "unused"
NoLinks == name = Unused /\ text = Unused
NoPages == engine = Unused /\ frame = Unused /\ doc = Unused /\ going = Unused
             /\ last = Unused
NoDial ==
  /\ upstream = Unused /\ meant = Unused /\ target = Unused /\ proto = Unused
  /\ pc = Unused /\ egress = Unused /\ asked = Unused /\ skip = Unused
  /\ sent = Unused /\ coming = Unused /\ inbox = Unused /\ hung = Unused
NoKeys ==
  /\ k = Unused /\ b = Unused /\ phase = Unused /\ u = Unused /\ t = Unused
  /\ x2 = Unused /\ z2 = Unused /\ x3 = Unused /\ z3 = Unused /\ swap = Unused
  /\ pub = Unused /\ secret = Unused
NoWasm == bodies = Unused /\ core = Unused

Init ==
  \/ part = "links" /\ Link!Init /\ NoPages /\ NoDial /\ NoKeys /\ NoWasm
  \/ part = "pages" /\ Page!Init /\ NoLinks /\ NoDial /\ NoKeys /\ NoWasm
  \/ part = "dial" /\ Route!Init /\ NoLinks /\ NoPages /\ NoKeys /\ NoWasm
  \/ part = "keys" /\ Curve!Init /\ NoLinks /\ NoPages /\ NoDial /\ NoWasm
  \/ part = "wasm" /\ Wasm!Init /\ NoLinks /\ NoPages /\ NoDial /\ NoKeys

Next ==
  \/ part = "links" /\ Link!Next /\ UNCHANGED <<part, pages, dial, keys, wasm>>
  \/ part = "pages" /\ Page!Next /\ UNCHANGED <<part, links, dial, keys, wasm>>
  \/ part = "dial" /\ Route!Next /\ UNCHANGED <<part, links, pages, keys, wasm>>
  \/ part = "keys" /\ Curve!Next /\ UNCHANGED <<part, links, pages, dial, wasm>>
  \/ part = "wasm" /\ Wasm!Next /\ UNCHANGED <<part, links, pages, dial, keys>>

\* The dialling task is scheduled; no other part is asked to come to an end.
Dialling == part = "dial" /\ Route!Client /\ UNCHANGED <<part, links, pages, keys, wasm>>
Spec == Init /\ [][Next]_all /\ WF_all(Dialling)

-----------------------------------------------------------------------------
\* The properties; the modules state and explain their conjuncts.

\* The worker reads out of a link the address that was put in (b64url, fromB64url).
LinksComeBack == part = "links" => Link!LinksComeBack

\* Neither path of rewriteText drops or doubles a part of a text, and in plain
\* text both find the same addresses.
RewritesSoundly == part = "links" => Link!LosesNothing /\ Link!PlainTextsAgree

\* Absolute references that stand bare in a rewritten page come back to the
\* worker, no page is shown for another one but where an entity or a backslash
\* stood in its address, and the frame leaves the worker only by a redirect, an
\* unclicked "//host" or an address rewriteText did not see (rewriteHtml,
\* NAV_INTERCEPT, proxyFetch).
ReferencesLead ==
  part = "pages" =>
    Page!AbsoluteComesBack /\ Page!NothingMistaken /\ Page!LeavesFewWays

\* connect_via_socks reads all of the reply and nothing of the stream behind it;
\* the proxy gets the name to resolve, and it is not looked up here; open_tcp
\* takes .onion hosts over Tor, with an upstream or without.
HandsOnWhole ==
  part = "dial" =>
    Route!StreamIsWhole /\ Route!ProxyResolves /\ Route!TcpOnionStaysInTor

\* Dialling ends once the proxy has hung up (read_exact).
HangUpEnds == part = "dial" /\ hung = TRUE ~> pc \in {"connected", "secured", "failed"}

\* The pairs of the ladder are neighbouring multiples of the point, and worker
\* and node come to the same secret (x25519, connectTunnel, crypto.rs).
SecretsAgree == part = "keys" => Curve!LadderHolds /\ Curve!SecretsAgree

\* What vec, sec and code write is read back by the format's rules; init()
\* nevertheless never comes to an interface.
PartsReadBack == part = "wasm" => Wasm!PartsReadBack /\ Wasm!CoreStaysOff
=============================================================================
