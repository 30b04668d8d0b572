-------------------------------- MODULE Pages --------------------------------
(***************************************************************************)
(* Pages shown through the proxy and where their references lead: what     *)
(* sw.js makes of a page's text, how the browser resolves what it finds    *)
(* there, what the worker answers, and where redirects go.                 *)
(*                                                                         *)
(* An address is a host and a path.  The path is plain, or "misread",      *)
(* another page of the host than one that is meant, or one of the shell's  *)
(* under PROXY_PREFIX: "wisp" for the link of an address, "tailed" for a   *)
(* link with something behind it that cannot be read, "raw" for text that  *)
(* is no base64url of an address.  A reference is absolute                 *)
(* ("https://h/p"), names a host ("//h/p"), the root ("/p") or is relative *)
(* ("p"); to is what its author means.  How an absolute one is written     *)
(* decides what rewriteText makes of it, see Linked; addresses that a       *)
(* script puts together out of pieces are left out.  The worker is ready;  *)
(* the encoding is module Links.                                           *)
(***************************************************************************)
EXTENDS Naturals

CONSTANTS Sites,   \* hosts, other than the shell's own
          Paths    \* their pages

VARIABLES engine, \* who rewrites: "worker" (sw.js) or "rust" (wasm_engine)
          frame,  \* address of the frame
          doc,    \* what it shows
          going,  \* the request on its way, or Idle
          last    \* the last one that was answered, with what it got

vars == <<engine, frame, doc, going, last>>

Plain(h, p) == [host |-> h, path |-> <<"plain", p>>]
Proxied(a) == [host |-> "shell", path |-> <<"wisp", a>>]
Tailed(a) == [host |-> "shell", path |-> <<"tailed", a>>]
Raw(p) == [host |-> "shell", path |-> <<"raw", p>>]
Misread(a) == [host |-> a.host, path |-> <<"misread", a.path>>]

Addresses == {Plain(h, p) : h \in Sites, p \in Paths}

\* References on a page of t, in its markup, a script or a style sheet.
Refs(t) ==
  {r \in [form : {"absolute", "host", "root", "relative"}, to : Addresses,
          text : {"markup", "script", "style"},
          written : {"bare", "misread", "cut", "unseen"}] :
     /\ r.form \in {"root", "relative"} => r.to.host = t.host
     /\ r.form # "absolute" => r.written = "bare"}

Nowhere == [kind |-> "none", of |-> Plain("shell", "start")]
Idle == [way |-> "none"]

-----------------------------------------------------------------------------
\* What stands in the page that is delivered.

\* The link of an absolute address is that of what stands in the text.  An
\* entity ("&amp;" in markup) is encoded as it stands, and another page of the
\* host is "misread".  The pattern ends at quotes, brackets, white space and
\* backslashes, and the rest of a "cut" address stays behind the link, where
\* nothing can be read any more; or where what the browser makes of a backslash
\* or a line end is more of the code, another page is misread.
Linked(r) ==
  CASE r.written = "misread" -> Proxied(Misread(r.to))
    [] r.written = "cut" -> Tailed(r.to)
    [] OTHER -> Proxied(r.to)

\* rewriteText: absolute addresses become links, which begin with "/", but for
\* those the pattern does not see ("https:\/\/", capitals) or skipUrl spares.
WorkerText(r) ==
  IF r.form = "absolute" /\ r.written # "unseen"
  THEN [r EXCEPT !.form = "root", !.to = Linked(r)] ELSE r

\* rewrite::html takes the references without a scheme, rewrite::js and ::css
\* the absolute ones; both put the prefix before the address as it is.
RustText(r) ==
  IF (r.text = "markup") = (r.form = "absolute") \/ r.written = "unseen"
  THEN r
  ELSE IF r.text = "markup" \/ r.form = "absolute"
       THEN [r EXCEPT !.form = "root", !.to = Raw(r.to.path[2])]
       ELSE r

Rewritten(r) == IF engine = "worker" THEN WorkerText(r) ELSE RustText(r)

\* The browser's rule for a reference under a base address.
Resolve(base, r) ==
  CASE r.form \in {"absolute", "host"} -> r.to
    [] r.form = "root" -> [host |-> base.host, path |-> r.to.path]
    [] r.form = "relative" /\ base.host # "shell" ->
         [host |-> base.host, path |-> r.to.path]
    [] OTHER -> Raw(r.to.path[2])

\* Mutant of Base: the <base> tag is put in after the text was rewritten.
BaseAfterwards(t) == t

\* rewriteHtml puts in <base href="t"> first, so that it is rewritten as well.
Base(t) ==
  Resolve(Proxied(t), WorkerText([form |-> "absolute", to |-> t, text |-> "markup",
                                  written |-> "bare"]))

Href(r) == Resolve(Base(doc.of), Rewritten(r))

-----------------------------------------------------------------------------
\* Requests.

Go(way, nav, r, addr) ==
  going' = [way |-> way, nav |-> nav, form |-> r.form, written |-> r.written,
            meant |-> r.to, addr |-> addr, hops |-> 0]

\* An address that was not read out of a text.
Itself(a) == [form |-> "absolute", written |-> "bare", to |-> a]

\* The shell's frame: src = toProxyUrl(tab.url).
Open(t) ==
  /\ going = Idle
  /\ Go("open", TRUE, Itself(t), Proxied(t))
  /\ UNCHANGED <<engine, frame, doc, last>>

OnPage == going = Idle /\ doc.kind = "page"

\* An image, a style sheet, a script, fetch or XHR.
Load(r) ==
  /\ OnPage
  /\ Go("load", FALSE, r, Href(r))
  /\ UNCHANGED <<engine, frame, doc, last>>

\* The browser navigates without a click on a link: location.href, a POST form.
Assign(r) ==
  /\ OnPage
  /\ Go("assign", TRUE, r, Href(r))
  /\ UNCHANGED <<engine, frame, doc, last>>

\* A page is loaded again from where it is.
Reload ==
  /\ OnPage
  /\ Go("reload", TRUE, Itself(doc.of), frame)
  /\ UNCHANGED <<engine, frame, doc, last>>

\* NAV_INTERCEPT: location.href = enc(a.href), where a.href is resolved.
Intercepted(a) == Proxied(a)
Click(r) ==
  /\ OnPage /\ r.text = "markup"
  /\ Go("click", TRUE, r, Intercepted(Href(r)))
  /\ UNCHANGED <<engine, frame, doc, last>>

\* A GET form puts its fields behind the address of its action.
Queried(a) ==
  IF a.path[1] = "wisp" THEN Tailed(a.path[2]) ELSE a
Submit(r) ==
  /\ OnPage /\ r.text = "markup"
  /\ Go("submit", TRUE, r, Queried(Href(r)))
  /\ UNCHANGED <<engine, frame, doc, last>>

-----------------------------------------------------------------------------
\* Answers.

Got(kind, a) ==
  /\ last' = [way |-> going.way, form |-> going.form, written |-> going.written,
              meant |-> going.meant, hops |-> going.hops,
              got |-> [kind |-> kind, of |-> a]]
  /\ going' = Idle /\ UNCHANGED engine
  /\ IF going.nav THEN frame' = going.addr /\ doc' = [kind |-> kind, of |-> a]
                  ELSE UNCHANGED <<frame, doc>>

\* fromB64url(pathname + search): "?", ")", "%" and most raw text make it throw
\* (400).
Target(a) == IF a.path[1] = "wisp" THEN {a.path[2]} ELSE {}

ToWorker == going # Idle /\ going.addr.host = "shell" /\ going.addr.path[1] # "plain"

\* proxyFetch, with the site's page, or an error of the site or of fetch.  The
\* worker's own requests are not intercepted again: one for the shell's host
\* gets what its server has under that path.
Malformed == ToWorker /\ Target(going.addr) = {} /\ Got("malformed", going.addr)
Deliver ==
  /\ ToWorker
  /\ \E t \in Target(going.addr) :
       Got(IF t.host = "shell" THEN "server" ELSE "page", t)
Failed ==
  /\ ToWorker
  /\ \E t \in Target(going.addr) : Got("failed", t)

\* The site redirects.  Through the tunnel its answer is passed on, Location
\* and all; on the local path fetch shows an opaque redirect, whose headers
\* cannot be read, and the worker names the target itself.
ThroughTunnel(a, t, r) == Resolve(a, r)

Locally(t) == t

Redirected ==
  /\ ToWorker /\ going.hops = 0                    \* bound: one redirect
  /\ \E t \in Target(going.addr) : \E r \in Refs(t) :
       /\ t.host # "shell" /\ r.text = "markup"
       /\ \E next \in {ThroughTunnel(going.addr, t, r), Locally(t)} :
            going' = [going EXCEPT !.addr = next, !.meant = r.to, !.hops = 1]
  /\ UNCHANGED <<engine, frame, doc, last>>

\* Everything else in scope is fetched as it is (the mirror); a navigation to
\* another host is none of the worker's.
Mirrored ==
  /\ going # Idle /\ ~ToWorker
  /\ Got(IF going.addr.host = "shell" THEN "server"
         ELSE IF going.nav THEN "outside" ELSE "direct", going.addr)

Init ==
  /\ engine \in {"worker", "rust"}
  /\ frame = Nowhere.of /\ doc = Nowhere /\ going = Idle
  /\ last = [way |-> "none", form |-> "none", written |-> "bare",
             meant |-> Nowhere.of, hops |-> 0, got |-> Nowhere]

Next ==
  \/ \E t \in Addresses : Open(t)
  \/ Reload
  \/ \E r \in Refs(doc.of) : Load(r) \/ Assign(r) \/ Click(r) \/ Submit(r)
  \/ Malformed \/ Deliver \/ Failed \/ Redirected \/ Mirrored

Spec == Init /\ [][Next]_vars

-----------------------------------------------------------------------------
Answered(ways) == last.way \in ways /\ last.got.kind # "failed"
ComesBack == last.got = [kind |-> "page", of |-> last.meant]

\* An absolute reference that stands bare in any page that was reached in any
\* way, loaded or navigated to by anything but a click or a GET form, gets
\* through the worker the page it means, unless the site fails; so does loading
\* a page again.  It needs both that addresses in the text become links and
\* that the address of the <base> tag becomes one, or links would be resolved on
\* the site.  The Rust engine, which nothing calls, promises less.
AbsoluteComesBack ==
  /\ engine = "worker"
  /\ Answered({"open", "load", "assign", "reload"})
  /\ last.form = "absolute" /\ last.written = "bare" /\ last.hops = 0
  => ComesBack

\* A page that is shown through the worker is the one that was meant, also
\* after a redirect: what is not reached is not taken for another, but where
\* the address stood with an entity in it, or with a backslash or a line end.
NothingMistaken ==
  last.got.kind = "page" /\ last.written # "misread" => last.got.of = last.meant

\* The frame leaves the worker only by a redirect, or by a reference that
\* names a host without a scheme or was not seen, and is not clicked.  (The
\* Rust engine leaves the absolute references of the markup, too.)
LeavesFewWays ==
  engine = "worker" /\ doc.kind = "outside" =>
    \/ last.hops = 1
    \/ /\ last.form = "host" \/ last.written = "unseen"
       /\ last.way \in {"assign", "submit"}
=============================================================================
