# A verification project for rubyx (WRAITH)

rubyx is a browser inside a browser: a React shell with tabs, a service worker
that serves pages under a proxied prefix, and a Rust node ("wisp node") that
opens the connections for it over one encrypted WebSocket.  This directory
models its concurrent and stateful parts and its conversions in TLA+, checks
them with TLC on small instances, and proves with TLAPS that most of the safety
properties hold for every value of the constants.

Paths below are relative to the repository root.

## 1. Inventory

| Part | State it keeps | Operations | Talks to |
|---|---|---|---|
| Service worker, tunnel (`public/sw.js` 260-390) | `tunnel` = socket, key, next stream id, map of pending requests | `connectTunnel`, `tunnelSend`, `onmessage`, `onclose`, `tunnelFetch`, 8 s timers | shell (messages), node (WebSocket), pages (fetch events) |
| Service worker, requests (`public/sw.js` 392-590) | `verdicts` (memory only) | `proxyFetch`, `isBlocked`, mirror of other requests, message handler | pages, shell |
| Wisp node (`server/src/wisp.rs`) | per connection: cipher, map of streams, channel to the egress pump; per stream a socket behind a mutex | `serve_conn`, `process` (CONNECT, DATA, REQ, UDP, END), `l7_roundtrip`, `spawn_io_pump` | worker, remote hosts, SOCKS5 proxy |
| Shell, tabs (`src/state.tsx`, `src/App.tsx`, `src/components/Chrome.tsx`) | tabs with history, active tab, frames, timers | reducer actions, `onLoad`, 900 ms timers, retry when the worker arrives | iframes, worker |
| Shell, session (`src/state.tsx`, `src/components/Panels.tsx`, `src/lib/crx.ts`) | settings, jar, extensions, downloads, blocked counter, also in localStorage; cloak | dispatches of the panels, "Save page as", extension import, wipe, reload, panic key, auto-cloak | localStorage, window focus |
| Filter engines (`src/lib/engine.ts`, `wasm_engine/src/filters.rs`) | parsed rules | load, `matchNetwork` / `match_network`, cosmetics | shell |
| Control plane (`src/App.tsx` 139-145, `public/sw.js` 516-585, `src/state.tsx` 434-468) | settings; attempts, `tunnel.ws`; status bar, latency, feed, counter of a window | `connect-tunnel`, `ping`, their broadcasts, mirror and refusals of the fetch handler | all windows, worker |
| Block list (`src/App.tsx` 110-126, `public/sw.js` 516-532) | the worker's copy of the host set | effect on the settings, `set-blocklist`, restart of the worker | shell to worker |
| WASM loader (`public/wasm-engine.js`) | none: its `init` always ends in `null` | start, `blocked`, `setHosts` | worker |
| Rewriting and links (`src/lib/proxy.ts`, `public/sw.js` 46-142, `wasm_engine/src/lib.rs`) | none | base64url, HTML and CSS rewriting | worker, shell |
| Cryptography (`server/src/crypto.rs`, `public/sw.js` 144-258) | keys | X25519, HKDF, AES-GCM | tunnel, node |
| Dialling (`server/src/wisp.rs` 278-340, `server/src/socks.rs`) | configuration: upstream, Tor port | `open_tcp`, `open_udp`, `open_l7`, SOCKS5 handshake | node, proxies, DNS |
| Process entry, deployment (`server/src/main.rs`, `deploy/`) | configuration | listener loop, containers | node |
| Presentation (`src/components/*`, `src/lib/sites.ts`) | none of its own | rendering | shell |

What is hard here:

* The worker is one thread, but each of its functions is cut into pieces by its
  awaits, and several connect attempts, requests, message decryptions and
  timers interleave.  The tunnel is one global object they all read at
  different moments (`tunnelSend` reads the key before an await and the socket
  after it; `onclose` does not ask whose socket closed).
* The node runs a reader, an egress pump, a pump per raw stream, and a task per
  frame on a multi-threaded runtime, around a mutex per stream and a bounded
  channel per connection.
* The tabs are changed by the user, by load events of frames, by timers that
  outlive their frame, and by the worker's arrival.
* State is persisted by effects that may run later, wiped by removing keys, and
  read back by a reload that comes later still; work begun before may end in
  between.
* Two filter engines are meant to give the same verdicts, two rewriting paths
  the same text, and two encoders the same links.
* Several windows share one worker and one store, and the worker answers all of
  them at once; attempts to connect overlap.
* A page's references pass through rewriting, the browser's resolution, the
  click interceptor, the worker's decoding and redirects, each of which encodes
  or expects an encoding.
* Three functions of the node choose the way out, each for itself.

PROJECT.json lists each hazard at its line with the properties that would catch
it.  What makes the parts correct:

* tunnel: a request is answered, once, with its own response or an error, in
  cipher only, its body sent at most once;
* node: bytes come down in order, chunks go up once or are dropped for a reason,
  END is true and last, the map has no dead or
  missing entries, a closed connection ends;
* tabs: there is an active tab; address, history and frame agree;
* session: a page load brings back what was shown, but for what was due or was
  wiped; nothing hangs; auto-cloak covers a window that is left;
* control plane: what the status bar shows is what the worker does, each refusal
  is counted once;
* links and pages: a link is read back, rewriting loses nothing, an address that
  stands bare in a page leads where its author meant and through the worker, and
  one that stands there otherwise misleads in known ways only;
* dialling: the stream begins with the destination's first byte, names are
  resolved by the proxy, .onion stays in Tor;
* cryptography: both sides derive one secret;
* shield: the worker never returns to an older list, off means off; precedence
  is as filter lists define it; on plain lines both engines agree.

## 2. Modules

```
WispFrames            frames, queues
  L7Node              the node in fetch mode, one per connection (abstract)
    SwTunnel          the worker's tunnel, composed with L7Node
      SwTunnelProofs  theorems
      MCSwTunnel
  WispNode            the node in detail (INSTANCEs L7Node)
    WispNodeProofs    theorems
    MCWispNode
FetchPromise          what a page is promised (INSTANCEd by SwTunnel)
BrowserTabs           MCBrowserTabs, BrowserTabsProofs (theorems)
Session               MCSession, SessionProofs (theorems)
FilterEngine          both engines as operators
  Shield              settings, engine, worker's list
    MCShield, ShieldProofs (theorems)
Gateway               shell, worker, attempts, feed
                      MCGateway, GatewayProofs (theorems)
Links                 base64url, rewriteText
Pages                 a frame behind the rewriting proxy
Dial                  open_tcp/udp/l7 and SOCKS5
X25519                the worker's ladder
WasmCore              the binary module that is built
  MCParts             these five side by side (INSTANCEs each)
    PartsProofs       theorems about Dial, Pages, Links and WasmCore
Selection             the elements of a sequence that are in a set (WispNode, Session, Links)
Recursion             lemmas: induction, recursive functions, loops, folds,
                      selections, sequences of sequences (all *Proofs)
```

**WispFrames.** A frame is a record.  Sealing is a field: the name of the
connection whose key sealed the frame.  A frame opens under that key and is
noise under another, which is what AES-GCM gives.

**SwTunnel.** An action is what runs between two awaits.  For a connection:
`Dial`, `Opened`, `HelloAnswered`, `ConnectFails` (timeouts and errors),
`Install`, `OnClose`, `OnMessage`, with `Closing` as the network's part.  A
message that was taken off the socket waits in `opening` until its decryption
resolves, in any order (`OpenedRes`, `OpenedEnd`).  For a request: `ProxyFetch`,
`BodyRead`, `SealedConnect`, `SealedReq`, `TimerFires`, `Resume`, `LocalFetch`.
`conn`, `pc` and `out` are program counters and promises; `tunnelWs`,
`tunnelKey`, `nextSid` and `pending` are the fields of `tunnel`.  Socket events
of a connection whose handler was not yet assigned are lost, as in the code; a
failed attempt leaves its socket open.  A local fetch of a request with a body
is refused by browsers (the stream was read, or has no `duplex`), and gives 502.

**L7Node, WispNode.** L7Node is the node as the worker needs it.  WispNode has
the reader (which awaits CONNECT inline), the tasks with their place in
`lock / write / read / send / end / remove`, the channel with its capacity, the
egress pump, legacy clients without a handshake, clean and abrupt ends of the
WebSocket, and the remote hosts.  `NodeSteps` shows that on a connection of a
client that seals, every step of WispNode is a step of L7Node or changes
nothing L7Node speaks of: this is what justifies using L7Node in SwTunnel.
`heard` is what a remote was given and `missed` what it was not: a datagram of
less than two bytes, which `process` drops (`ReadShort`, for the chunks in
`Short`), a datagram whose send failed, which nobody looks at, and what is
written to a stream whose remote has closed (`Writes`).
The node's `process` hides the function `frame` behind a parameter of that
name and so does not build as committed; it is modelled as it is meant to read.

**BrowserTabs.** A dispatch is a step.  A frame is named by its tab's key, as
React does it.  The browser's part is stated in the header: which windows read
as blank.  Timers of one frame share one record, since they all read the same
window.  The page menu's items are those of the tool bar and need no action of
their own.

**Session.** One slice of state per key of localStorage, and in `due` the slices
whose effect is still to run.  React 18 runs the effects of an update that a
click, a key or a blur made as soon as it is rendered, and those that were due
before it first (`Persist`, `FlushFirst`); the effects of the mount and of an
update from elsewhere (a message of the worker, an archive that was parsed, a
page that was fetched: `PersistLater`) run in a task of their own (`Effects`), and
a page load may come before it.  `unseen`, `touched`, `unsaved` and `cut` are
history, for the properties.  `LoadBrings` says what a page load brings back
after any of this.  `AwayIsCloaked` speaks of state: with auto-cloak on, a window
without the focus is cloaked, unless its page was loaded there by a wipe's timer
and had not the focus yet.  The feeds that nobody reads back are left out.

**FilterEngine, Shield.** Text is a sequence of tokens, of which no word is part
of another, so token-wise matching is what both engines do.  The shell's regular
expressions are modelled by what they match, including what becomes of anchors
and of `^`.  Shield is the way of the list: settings, engine, message, worker,
restart, reload.

**Gateway.** Windows and worker exchange messages through one queue per window
and direction.  `Connect` orders and pings go up; `pong`, `tunnel` and feed
messages come down to every window.  `AttemptEnds` is the end of
`connectTunnel` with the broadcast that follows it, in any order of attempts;
`SocketCloses` is `onclose`, of a replaced socket too; `WorkerStops` is the
browser.  What happens inside an attempt is SwTunnel's matter, the block list
Shield's.  The number of milliseconds that the bar shows is left out.

**MCParts.** Links, Pages, Dial, X25519 and WasmCore share no variable and call
nothing of each other at run time but through values, so one behaviour
exercises one of them (`part`) and the invariants speak of that one.

**Links.** Addresses are sequences of code points and links sequences of base64
digits: `Btoa`, `Atob`, `Utf8` and `FromUtf8` do what btoa, atob, unescape and
decodeURIComponent do, including where these throw.  Texts are sequences of
units (a scheme, an ordinary or wide character, a quote, white space,
a parenthesis), and `RewriteJs` and `RewriteWasm` cut them into links and text.
The second is the code for a WASM core and never runs, as that core stays off
(WasmCore); what is shown of it holds for the day it does.

**Pages.** An address is a host and a path; a path below the prefix holds the
address it encodes.  `rewriteText` takes an address out of the text by a pattern
and encodes what stands there, not what the browser would read (`Linked`): one
that stands `bare` becomes the link of itself; with an entity in it (`&amp;`), a
backslash or a line end it is the link of another page (`misread`); at a quote, a
bracket or a backtick it is `cut`, and with the rest behind it the link cannot be
read; `https:\/\/`, capitals and the addresses `skipUrl` spares are `unseen` and
stay as they are.  Following one reference is a request (`Load`, `Assign`,
`Click`, `Submit`, `Reload`, or the shell's `Open`), perhaps one redirect, and
an answer.  `Href` is what the browser makes of the text that was delivered
under the base tag that was delivered.  `engine` is sw.js or the Rust rewriter,
which nothing in the repository calls; it promises less, as its property says.

**Dial.** One dialling task, and a proxy whose bytes arrive in pieces of any
size and that hangs up at any time.  `target` is the frame's text, split at its
colons, as the worker or another client wrote it.

**WasmCore.** What leb, vec, sec, code and build write, byte by byte, for
function bodies of any of the given sizes, against a reader of the format.  Both
are recursive functions, one over the number that is left to write, one over the
positions in the bytes.

**X25519.** The worker's ladder, one bit per step, over the field of 127 with the
curve of the same form (A = 14, whose A24 is 3).  The reference is the group law
on points; the twin of the curve's order is not used, since public keys are
computed from the base point.

## 3. Runs

| Run | Instance | States | Shows |
|---|---|---|---|
| `tunnel_safety` | 2 connections (symmetric), a GET and a POST | 3.7 M | `OwnResponse`, `SealedOnWire`, `BodyOnce`, `NoOrphan`, `EndIsLast` |
| `tunnel_promise` | 2 connections, a GET | 28 k | the inductive invariant of the proofs, `KeepsPromise`, `TunnelLetsGo` (liveness) |
| `node_raw` | a TCP and a UDP stream with two chunks each way, one of them short, 5 frames and chunks in all, channel of 2 | 2.1 M | `DownInOrder`, `UpIsWhole`, `EndIsTrue`, `MapFollowsPumps` |
| `node_fetch` | one TCP, one fetch stream, channel of 1 | 212 k | `NodeSteps` (refinement), `EndReachesClient`, `Returns` (liveness) |
| `tabs` | 3 tabs (symmetric), one address, history of 2, 3 remounts | 831 k | `ActiveExists`, `AddressIsEntry`, `LoadingHasFrame`, `NoPastRewritten` |
| `session` | 2 cookies, an archive, 2 downloads, list capped at 1 | 279 k | `LoadBrings`, `InterceptedIsUnderWay`, `AwayIsCloaked` |
| `shield` | 157 lists of up to two lines, 5 requests, 2 messages | 8 k | `NeverAnOldList`, `OffMeansOpen`, `Precedence`, `PlainLinesAgree` |
| `gateway` | a gateway that fails and drops, one change of it, a worker that is stopped, 3 fetches (refused, mirrored, proxied), queues of 2 | 94 k | `BarCatchesUp` (liveness), `CountedOnce` |
| `parts` | see below | 301 k | 6 invariants of five modules, `HangUpEnds` (liveness) |

The instances of `parts`:

| Part | Instance | Property | Its conjuncts |
|---|---|---|---|
| Links | 6 characters of all widths, names up to 4 | `LinksComeBack` | |
| Links | 6 units, texts up to 5 | `RewritesSoundly` | `LosesNothing`, `PlainTextsAgree` |
| Pages | 2 sites, 2 paths, 4 ways to write an address, one redirect, both rewriters | `ReferencesLead` | `AbsoluteComesBack`, `NothingMistaken`, `LeavesFewWays` |
| Dial | 4 kinds of hosts, 3 ports, names of 0, 1 and 3 bytes | `HandsOnWhole` | `StreamIsWhole`, `ProxyResolves`, `TcpOnionStaysInTor` |
| Dial | the same | `HangUpEnds` (liveness) | |
| X25519 | field of 127, 7 bits, all pairs of scalars | `SecretsAgree` | `LadderHolds`, `SecretsAgree` of X25519 |
| WasmCore | up to 3 bodies of 0 to 300 bytes | `PartsReadBack` | `PartsReadBack` of WasmCore, `CoreStaysOff` |

Bounds.  Two connections are enough for a reconnect to replace a live tunnel and
for each to close at any moment; a third would repeat the second.  Two requests
are enough to mix up answers.  A channel of one or two frames is full at once, which is
where pumps wait for one another (1024 in the code).  Two chunks each way are
where one can overtake another; `MaxTraffic` (a state constraint) lets one stream
carry all four, or two streams three between them.  `MaxUp` bounds frames on
their way to the node, `MaxHist` and `MaxMounts` the life of a tab (three
remounts allow navigating, going back and forward, and a copy of a tab),
`MaxBlocked` a counter, `MaxPosts` the messages on their way to the worker.  A
download list of one entry reaches its cap with the second save (40 in the code).
Queues of two messages are where answers of different age meet; a second window
would hear the same broadcasts.  An address of four
characters reaches every remainder by three with every width, and five units
hold an address, what ends it and a second one.  Two sites with two paths tell
apart another host, another page and the same; a second redirect would only
repeat the first.  A body of 124 bytes is the first whose length takes two
bytes; 7 bits walk the ladder through every pattern of equal and unequal
neighbours.  Deadlock is not checked where the system may stop: a worker with no more
requests, a connection that is over.

Runs that are expected to fail, each a disagreement between the repository's own
words and its code (PROJECT.json "findings" quotes both):

* `end_means_complete`: END may be opened before the RES that precedes it, and
  the fetch gets an empty response.  It then takes the local path (or 502 if it
  has a body), so the promise to the page still holds.
* `writes_go_out`: a raw TCP stream whose remote waits for the client never gets
  the client's bytes, since the pump reads with the mutex held.
* `blocked_is_refused`: a timer of a page that was replaced covers the next one
  with the overlay of a refused page.

Further disagreements between the repository's words and its code that were met
while modelling.  They are written down here and have no run; the models behave
as the code does.

* Node.  Two DATA frames of a stream are written by two tasks in either order
  (wisp.rs:190), though DATA is "raw stream bytes" (wisp.rs:6); `UpIsWhole` says
  what does hold: which chunk is where, in any order, and that a TCP stream with
  its remote misses none.  A UDP stream does miss chunks (wisp.rs:219, 225).  END of the client takes the stream out of the map and leaves
  its socket open for as long as the remote likes (wisp.rs:230-232, against
  "half-close", wisp.rs:8).
* Filter engines.  engine.ts takes one `|` off before it looks for `||`
  (engine.ts:101-104), so `||host/path` matches every address, and escapes `^`
  before it replaces it (engine.ts:107-109), so that such a rule is dropped;
  lib.rs:7-8 says that the mirror "keeps verdicts identical".  In the bundled
  list the shell keeps only `||` rules with a path and no `^`, and the worker gets
  the hosts of the rules that survive: `facebook.com` is blocked whole,
  `doubleclick.net` not at all.  `PlainLinesAgree` is the part that holds.
* Wipe.  The keys are removed and the state stays (state.tsx:357-360); a save or
  a parse that ends in the 60 ms until the reload, or a click on a panel, stores
  its whole old list again, and the reload restores it, against "Wiping clears
  the scoped jar, plugins, captured downloads" (Panels.tsx:506).  `LoadBrings`
  bounds it: only slices that were dispatched on in that time come back.
* Cloak.  The start page calls the panic key "panic — cloak now"
  (StartPage.tsx:219); the key toggles (state.tsx:307, 474), so that pressing it
  in a cloaked window shows the page.  A page that the wipe reloads in the
  background starts without the cloak, also with auto-cloak on.
* Gateway.  On a first visit the order to connect has no controller to go to
  (App.tsx:140-145), and nothing repeats it, nor after a drop (sw.js:326-329) or
  a stop of the worker, against "when a gateway is configured the worker opens a
  WebSocket" (sw.js:15-16).  An empty gateway leaves the tunnel in use
  (sw.js:278).  Of two attempts that overlap the last to end is installed
  (sw.js:533-536).  `onclose` of a replaced socket takes down the live tunnel;
  what it may not do, leave a request waiting in the tunnel, is `NoOrphan` and `TunnelLetsGo`.  A
  request that went to the local path waits as long as its site is silent:
  `fetch(target)` has no time limit (sw.js:462).
* Broadcasts.  A pong goes to every window with the clock of the one that asked
  (sw.js:519).  What the proxy fetches is reported without a type (sw.js:480)
  and listed nowhere.  Two windows overwrite each other's slices of the store
  (state.tsx:395).
* Rewriting.  The WASM scan's offsets are bytes and index a string
  (sw.js:96-124), against "identical output" (sw.js:92).  The base tag is
  rewritten itself (sw.js:141), so relative references miss; a click encodes a
  link a second time (sw.js:131); a redirect is handed on or named by its bare
  target (sw.js:468-480); a GET form puts a query into the link (sw.js:431);
  all against "keep relative URLs and navigations in" (sw.js:10-11).  An address
  is encoded as it stands in the text (sw.js:79, 88-93, 141), so that in markup
  `?a=1&amp;b=2` leads to another page; one with a quote, a bracket or a backtick in
  it is cut there, and the link with its rest behind it gets 400 (atob throws);
  one with a backslash or a line end is cut too, and may lead to another page
  instead; one written `https:\/\/` or in capitals is not seen and loaded past the
  worker; against "every absolute http(s) URL inside HTML, CSS and JS is rewritten
  back" (sw.js:7-9).  `ReferencesLead` is what holds beside these.  The Rust
  rewriter puts bare addresses behind the prefix (lib.rs:206).
* Dialling.  `open_l7` and `open_udp` do not ask whether the host is an .onion
  (wisp.rs:310-340, against main.rs:7), and `open_udp` takes no notice of the
  upstream (main.rs:6).  The worker appends ":443" to a host that may have a
  port, and to http addresses (sw.js:361).
* WASM core.  Its sections are arrays inside an array of bytes
  (wasm-engine.js:191-213), so no module is valid and `init` comes to null,
  against "run as real WebAssembly" (wasm-engine.js:6-8).  Shield and Links rest
  on that: `CoreStaysOff`.
* Tabs.  `fwd` to the start page shows "loading" for ever (state.tsx:293), so
  `LoadingHasFrame` speaks of tabs with a page.  An "intercepted" download whose
  fetch, or the storing of whose end, a page load cut off stays so (`cut` in
  Session).

## 4. Fairness

* SwTunnel, `FairSpec`: the browser's cryptography settles, timers fire and a
  settled promise resumes its function (`SealedConnect`, `SealedReq`,
  `TimerFires`, `Resume`).  Nothing is asked of the node, of the network, of
  connect attempts, of arriving messages, of the page that sends a body or of a
  site: `TunnelLetsGo` holds with a node that is silent.  Nothing is promised of
  the local path, since `fetch(target)` has no time limit.
* WispNode, `NodeSpec`: the runtime polls the reader, the egress pump and the
  tasks of each stream and kind when they can go on; among the writers of one
  stream any may go first.  `FairSpec` adds that remote hosts hang up some day;
  `Returns` needs it, since the node has no timeout of its own.  It also adds
  that a dial returns.
* Gateway: timers tick, messages arrive, attempts end (they have two timeouts of
  three seconds), a body that is being read ends.  Delivery to the worker and
  the ends of attempts and bodies are taken strongly fair, because the bounds of
  the queues, which the code has not, disable them now and then.
* Dial: the dialling task is scheduled.  Nothing is asked of proxy and net.
* Shield: a posted message is delivered.
* BrowserTabs, Session, Links, Pages, WasmCore and X25519 are checked
  for safety only.

## 5. Proofs

TLC looks at the instances of section 3; the theorems here hold for every value
of the constants that meets the assumptions declared beside them.  Most proofs
are an inductive invariant: it holds initially, every action keeps it (one lemma
per action or group of actions), and it implies the property.  The three about
what a loop computes for every input (`PlainLinesAgreeAlways`,
`RewritesSoundlyAlways`, `LinksAlwaysComeBack`) go along the input instead, by the
lemmas of Recursion.

| Theorem | States | Module |
|---|---|---|
| `Typing` | `Spec => []TypeOK` | SwTunnelProofs |
| `SealedAlways` | `Spec => []SealedOnWire` | |
| `OwnResponseAlways` | `Spec => []OwnResponse` | |
| `BodyOnceAlways` | `Spec => []BodyOnce` | |
| `NoOrphanAlways` | `Spec => []NoOrphan` | |
| `EndIsLastAlways` | `Spec => []EndIsLast` | |
| `InductiveAlways` | `Spec => []Inductive` | |
| `PromiseKept` | `Spec => KeepsPromise`, the refinement of FetchPromise | |
| `NodeTyped` | `Spec => []TypeOK` | WispNodeProofs |
| `DownAlwaysInOrder` | `Spec => []DownInOrder` | |
| `UpAlwaysWhole` | `Spec => []UpIsWhole` | |
| `EndAlwaysTrue` | `Spec => []EndIsTrue` | |
| `MapAlwaysFollows` | `Spec => []MapFollowsPumps` | |
| `NodeAlwaysSteps` | `Spec => NodeSteps`, the refinement of L7Node | |
| `TabsTyped` | `Spec => []TypeOK` | BrowserTabsProofs |
| `ActiveAlwaysExists` | `Spec => []ActiveExists` | |
| `AddressAlwaysIsEntry` | `Spec => []AddressIsEntry` | |
| `LoadingAlwaysHasFrame` | `Spec => []LoadingHasFrame` | |
| `PastNeverRewritten` | `Spec => NoPastRewritten`, an action property | |
| `LoadBringsAlways` | `Spec => LoadBrings`, an action property | SessionProofs |
| `InterceptedAlways` | `Spec => []InterceptedIsUnderWay` | |
| `AwayAlwaysCloaked` | `Spec => []AwayIsCloaked` | |
| `SessionTyped` | `Spec => []TypeOK` | |
| `ShieldTyped` | `Spec => []TypeOK` | ShieldProofs |
| `NeverAnOldListAlways` | `Spec => []NeverAnOldList` | |
| `PrecedenceAlways` | `Spec => []Precedence` | |
| `PlainLinesAgreeAlways` | `Spec => []PlainLinesAgree` | |
| `CountedOnceAlways` | `Spec => []CountedOnce` | GatewayProofs |
| `HandsOnWholeAlways` | `Spec => []HandsOnWhole` | PartsProofs |
| `ReferencesAlwaysLead` | `Spec => []ReferencesLead` | |
| `RewritesSoundlyAlways` | `Spec => []RewritesSoundly` | |
| `LinksAlwaysComeBack` | `Spec => []LinksComeBack` | |
| `PartsAlwaysReadBack` | `Spec => []PartsReadBack` | |

**Tunnel.**  For every set of connections and requests, assuming that requests
and connections are not confused with the tokens of the model
(`BodiedAssumption`, `TokensAssumption`).
`OwnResponse` is not inductive: a step that answers a request looks at what its
promise resolved with, that at an entry of `pending`, that at a frame in
`opening`, that at the wire, the node's round trips and the REQ that began them.
`StreamIdentity` says of each of these places that the label belongs to the
request that owns the stream id, and rests on ids never being given twice, also
across reconnects (`SidsUnique`).  `KeyWithSocket` (key and socket are installed
and cleared together, so whoever seals has a key) carries `SealedOnWire`.
`TunnelOnce` counts the ways a request may still reach its origin: the tunnel
carries it as one REQ frame or one round trip not yet made, and runs so far plus
what is carried stay within the promise; `BodyOnce` and the bound of FetchPromise
follow.  `ResponsesEarned` says that a response exists only for a request the
origin received.  `Inductive` is the conjunction, and TLC checks it in
`tunnel_promise` as well.  `NoOrphan` is kept with `StreamIdentity`, which says
whose entry a message takes away.  `EndIsLast` needs `ServedOnce`: a
stream is asked for once, served by one round trip and ended by one END, in that
order, so that no REQ or round trip of an ended stream is left to send more.

**Node.**  For any streams of each protocol, anything their clients and remotes
say, any room in the channel and any bound on the frames under way.  The four
properties and the types are proved as one invariant with thirteen more conjuncts,
since each depends on places the properties do not mention:

* what the client has under way, of which kinds and in which order: `UpFrames`,
  `UpOrder` (CONNECT first, END or the one REQ last), `Ciphers`, `Starting`;
* that a stream leaves no trace before its CONNECT is answered, nor a fetch
  before its REQ was read: `Fresh`, `Unopened`, `Unasked`.  Without it a second
  pump, or a frame behind an END, could come from a stream already used;
* where tasks may stand, and that a stream has one pump or one round trip:
  `TaskKinds`, `OneEach`.  Order through the channel needs both: the chunk in the
  one pump's hand is the next one;
* `Ended`: who sent END sends nothing more, from which END is last;
* `Over` and `Known`: what the end of a connection leaves, and that the map
  knows a stream while payload for it may come;
* `Whole`: `UpIsWhole` already from the CONNECT on, with each chunk in one hand
  only, which is what makes counting and naming the chunks agree; heard and
  missed chunks are counted together.

`PayloadAssumption` has the chunks of one client told apart (they are names, not
bytes) and no stream with id 0, which the worker's counter never gives.
`AfterSend` and `Out` are written the way they are because CASE with overlapping
guards and counting by SelectSeq cannot be reasoned about here.

`NodeAlwaysSteps` maps the node's state to L7Node's: round trips made are what the
origin heard less the tasks not yet past their read, round trips under way are
the tasks between lock and send, the wire is the channel, the egress pump's hand
and the socket in a row, and of every queue the frames of fetches are kept
(`Select`).  Each action of WispNode has a lemma that names the action of L7Node
it is, or shows that nothing selected changes; a DATA, UDP or END of a raw stream
and a move from the channel to the egress pump are of the second kind.  The
invariant above says how many tasks and frames a stream has; `Labelled` adds that
a REQ and the task that serves it carry the name of the stream they are for,
without which a response could be taken for another stream's.

**Tabs.**  For any tabs, addresses and bounds.  The invariant is the four of the
run with `ClosedIsBlank`: a key that is not in the list has no frame, so that a
tab opened under it starts with none.  `NoPastRewritten` follows step by step.

**Session.**  For any cookies, archives, downloads and cap of the list
(`CapAssumption`: the cap is a positive number).  `SessionInv` is
`InterceptedIsUnderWay` with what the store holds at any moment: `Mirrored` (a
slice is due, or stored as it is shown, or a wipe took its key and nothing was
dispatched on it since), `WipedClean` (after a wipe only what was dispatched on is
stored or due), `Shape` and `Lists` (which keys there are, and that the downloads
are lists of entries), and `StoredIsUnderWay` (the stored list may be behind the
shown one by the ends that are due), since a reload takes the list from the
store.  `LoadBrings` follows from `Mirrored` and `WipedClean`.  `DispatchStore`,
`PersistOther` and the lemmas behind them say what a dispatch preserves, whether
its effect runs at once or later.  `AwayIsCloaked` is inductive as it stands.  The
types (`SessionTyped`) need that what a reload would read has its type as well
(`ReadBack`), and that an archive is listed only after it was read, and is read
once (`ReadOnce`).

**Shield.**  For any bundled list and custom texts over the model's words.
`NeverAnOldList` says nothing while a message is under way; `Newest` does: the
last message, or else what the worker has in force, is the list of the settings
now.  `Precedence` is a statement about loops: `TSPass` and `RSPass` say what one
pass over the rules has seen after each rule.

`PlainLinesAgree` compares two matchers.  `PlainParse` and `PlainLoad` show that
both engines make the same rules of plain lines.  `TableIs` gives the matching of
segments (`SegMatch`) cell by cell, over places in the address and segments, and
`SameMatches` shows that the places at which the regular expression may begin and
those at which the segments are tried give the same answer: the expression may
also begin behind the last character, where only "*" matches, and "*" matches at
the last character as well (`LastStart`).  Equal hits then give equal verdicts
(`DecidedOnce`).  Assumed: the address of a request is not empty
(`RequestsAssumption`); on the empty one the engines would differ.

**Control plane.**  For any windows, gateways and fetches.  `CountedOnce` needs
`BodiesAreMirrored`: a body that ends is one of the mirror, so its message is no
refusal and what is coming to each window keeps its number.

**Dialling.**  `DialInv` says which bytes are still unread at each place of
connect_via_socks, as one sequence `q` (`Unread`) that is what has arrived
followed by what is on its way, however it is cut, or begins with what has
arrived once the proxy has hung up (`Fits`).  `Taken` and `Arrived` say that
reading and arriving keep it; each read leaves the `Unread` of the next place,
for replies of all three kinds and names of any length.  Assumed: bytes are
numbers (`RouteAssumption`).

**Pages.**  `PageInv` adds to the three properties what a request under way may
hold (`OnItsWay`): a link below the prefix is that of the page that was meant, of
one misread, or of no page at all (`LinkReads`); what leaves the shell's host was
named with a host or not seen (`MayLeave`); and a bare absolute reference that is
loaded or navigated to has the very link of its page (`Sure`).  And the frame
that shows a page stands at its link (`ShownIsKnown`).  `HrefIs` follows a
reference through rewriting and base tag.  Assumed: no site is at the shell's own
address (`SitesAssumption`).

**Links.**  `JsIs` and `WasmIs` show that the equations of the two loops have a
solution that is a list of pieces at each position.  `JsLosesNothing` and
`WasmLosesNothing` go from the end of the text backwards: the pieces from a
position on, put together (`Joint`), are the text from there on.  For the WASM
path the positions run over the bytes, of which there may be more than characters,
and the slices of the string behind its end are empty (`SliceCut`); an address may
be cut in the wrong place, but nothing is lost.  `PlainSame` shows for texts where
both offsets are the same that the pieces carry the same marks from each
position on: an address ends alike on both paths (`SameEnd`, `PlainAddress`), and
what the JavaScript path leaves character by character the WASM path leaves in
one piece (`PlainOther`).

`LinksAlwaysComeBack` inverts the two encodings one inside the other.  `DigitsAre`
and `BytesAre` say what the four digits of three bytes are and the three bytes of
four digits, also where the last group is short (`At` is 0 there), and
`BytesComeBack` puts them together; `AtobIs` shows that of the text only the
padding that was added is taken off.  `CodedIs` does the same for a character and
its one to four bytes, and `NameComesBack` goes from the end of the bytes
backwards: from the first byte of a character on, the decoder gives the rest of
the address.  Assumed: characters are code points and no half surrogates
(`CodePointsAssumption`), on which encodeURIComponent would throw.

**WASM core.**  For any number of functions of any sizes.  `LebIs` says that what
leb writes for a number is read as that number wherever it stands (`IsNumber`),
by induction on the number; `ItemRead` that an item behind its length, with or
without a byte before it, is read whole, and `ItemsRead` goes from the end of the
bytes backwards: items one after the other are read as they were written.
Sections (`SecIs`) and functions (`CodeIs`) are such items (`IsItem`).
`NeverValid` is why the core stays off all the same: each section is longer than
one number and so becomes one byte 0, and behind the header stand two of them.
Assumed: sizes of bodies are numbers (`SizesAssumption`).

**Recursion.**  The library's induction theorems take operators as parameters,
which the provers here cannot instantiate.  This module states induction with
sets instead (`Least`, `NatSet`), and from it that a recursive function on a range
of numbers exists and satisfies its equations, whether it looks back
(`LoopExists`, `UpExists`) or ahead (`DownExists`), that a loop keeps its invariant
(`LoopInvariant`, `UpSet`, `DownSet`), and the same for the fold of the community modules
over sequences (`FoldExists`, `FoldLoops`).  From these follow the lemmas on
`Select` (a selection of two sequences in a row is the two selections in a row),
on FlattenSeq and on sequences of pieces (`Joint`).  Loops of the models that are
proved about are written as such functions or folds.

Model-checked only:

* liveness (`TunnelLetsGo`, `EndReachesClient`, `Returns`, `BarCatchesUp`,
  `OffMeansOpen`, `HangUpEnds`) and what rests on ENABLED: out of this prover's
  reach;
* `SecretsAgree`: the ladder computes multiples because the curve's points are a
  group, which would have to be proved first.

## 6. Not modelled

* HKDF and AES-GCM, ideal as in WispFrames; X25519 on its own field of 2^255 - 19
  (the same code on a small one is); parsing of HTTP heads beyond "has one".
* What the functions of the WASM core compute: no build of the module gets as far
  (`CoreStaysOff`), so no behaviour of the program reaches them.  Reading them
  shows what waits behind: `ver` does not return 0x00010200, the hash starts from
  a constant that is neither FNV's nor a valid number of the format, the fold
  multiplies by another number and reads at p - len, before the string,
  `set_verdicts` overwrites words of its mask, whose region (1024 to 9216)
  reaches into the arena at 4112, and the start function has a parameter and a
  result.
* Addresses that a script puts together out of pieces (each is encoded by
  itself); sites at localhost, whose base tag `skipUrl` spares; the blocked script
  tags that the Rust rewriter drops; `srcset`, CSS escapes, pages with a base tag
  of their own.
* What some hazards of PROJECT.json leave open, said there in their notes: a
  worker that has no block list yet or lost it; which of two attempts' sockets is
  installed; `.onion` over UDP and fetches; the cap of the network feed.
* A second window of the shell over the same store and worker; latencies.
* DNS and TLS of the node: they succeed or fail.
* Frames the node ignores (short, unknown, EXTEND) and its panic on a CONNECT
  without payload (the worker never sends one); a client that reuses stream ids.
* The wrap of the stream id at 2^32.
* Filter options that are negated types, upper case, lists of hosts before `##`;
  cosmetic rules (no caller asks for them).
* The shell's console feed, its panels, titles and icons; the order and the cap
  of 250 of the network feed.
* `main.rs`: one failed `accept` ends the node (main.rs:63); the loop is a single
  statement around the operating system.

## 7. Plan

Done: all modules of section 2, and the theorems of section 5.

What is left has no proof within reach: liveness, and `SecretsAgree`, for which
the group law of the curve would have to be proved.

A composition of several workers with WispNode directly is not planned: nodes
share nothing but their configuration, and `NodeSteps` lets L7Node stand for
WispNode wherever the worker is concerned.
