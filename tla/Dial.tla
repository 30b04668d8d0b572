-------------------------------- MODULE Dial --------------------------------
(***************************************************************************)
(* How the node opens the stream of a CONNECT frame (wisp.rs open_tcp,     *)
(* open_udp, open_l7) and the SOCKS5 handshake on the way through Tor or   *)
(* the upstream proxy (socks.rs).  The frame comes from the worker, for    *)
(* the address of a request (sw.js tunnelFetch), or from another client,   *)
(* for a host and a port.  The proxy's bytes arrive in pieces of any size, *)
(* and the first bytes of the stream may be in the piece that ends its     *)
(* reply.                                                                  *)
(***************************************************************************)
EXTENDS Naturals, Sequences, SequencesExt

CONSTANTS Hosts,    \* "ip", "name", "onion", "long" (over 255 bytes)
          Lengths,  \* lengths of a domain name in a proxy's reply
          Stream    \* the first bytes that the destination sends

VARIABLES upstream,  \* --socks5 was given
          meant,     \* the destination: host, port, and whether it talks TLS
          target,    \* "host:port" of the frame, split at its colons
          proto,     \* tcp, udp or l7
          pc,        \* where the dialling task is
          egress,    \* the way it takes
          asked,     \* the host was looked up in DNS
          skip,      \* bytes of the bound address still to be read, less two
          sent,      \* what was sent to the proxy
          coming,    \* bytes of the proxy that are still on the way
          inbox,     \* bytes of it that have arrived and are not read
          hung       \* it has hung up

frame == <<upstream, meant, target, proto>>
vars == <<frame, pc, egress, asked, skip, sent, coming, inbox, hung>>

Destinations ==
  [host : Hosts, port : {80, 443, 8443}, tls : BOOLEAN]

\* u.host has the port where it is not the scheme's; the worker puts ":443"
\* behind either.
WorkerTarget(m) ==
  IF m.port = (IF m.tls THEN 443 ELSE 80) THEN <<m.host, 443>>
  ELSE <<m.host, m.port, 443>>

Init ==
  /\ upstream \in BOOLEAN
  /\ meant \in Destinations
  /\ \/ proto = "l7" /\ target = WorkerTarget(meant)
     \/ proto \in {"tcp", "udp"} /\ target = <<meant.host, meant.port>>
  /\ pc = "open" /\ egress = "none" /\ asked = FALSE /\ skip = 0
  /\ sent = <<>> /\ coming = <<>> /\ inbox = <<>> /\ hung = FALSE

\* rsplit_once(':'): the last part is the port, the host is all that is before.
Split == Len(target) = 2
Host == target[1]
Port == Last(target)

-----------------------------------------------------------------------------
TcpWay ==
  IF Host = "onion" THEN "tor" ELSE IF upstream THEN "upstream" ELSE "direct"

Way ==
  CASE proto = "tcp" -> TcpWay
    [] proto = "udp" -> "direct"
    [] proto = "l7" -> IF upstream THEN "upstream" ELSE "direct"

\* Towards a proxy: the connection may fail; the greeting is sent.
OpenProxy ==
  /\ pc = "open" /\ Way # "direct"
  /\ egress' = Way
  /\ \/ pc' = "failed" /\ UNCHANGED <<sent, coming>>
     \/ /\ pc' = "method"
        /\ sent' = <<"greeting">>
        /\ \E m \in {<<5, 0>>, <<5, 255>>, <<4, 0>>} : coming' = m
  /\ UNCHANGED <<frame, asked, skip, inbox, hung>>

\* resolve_host: an address is taken as it is, any other text is looked up;
\* DNS knows neither .onion nor a host with a port in it.
OpenDirect ==
  /\ pc = "open" /\ Way = "direct"
  /\ egress' = "direct"
  /\ asked' = ~(Split /\ Host = "ip")
  /\ pc' \in {"failed"} \cup (IF Split /\ Host \in {"ip", "name"} THEN {"connected"} ELSE {})
  /\ UNCHANGED <<frame, skip, sent, coming, inbox, hung>>

-----------------------------------------------------------------------------
\* connect_via_socks.  read_exact waits for n bytes and takes no more of them.
Reads(n) == Len(inbox) >= n /\ inbox' = SubSeq(inbox, n + 1, Len(inbox))

Replies ==
  {<<5, 1, 0, 1, 0, 0, 0, 0, 0, 0>>, <<5, 0, 0, 9>>}
    \cup {<<5, 0, 0, 1>> \o [k \in 1..6 |-> 7] \o Stream}
    \cup {<<5, 0, 0, 4>> \o [k \in 1..18 |-> 7] \o Stream}
    \cup {<<5, 0, 0, 3, n>> \o [k \in 1..n + 2 |-> 7] \o Stream : n \in Lengths}

\* CONNECT with the host as it was given (ATYP 3).
Request == <<"domain", SubSeq(target, 1, Len(target) - 1), Port>>

\* The method is read and the request goes out.
Method ==
  /\ pc = "method" /\ Reads(2)
  /\ IF SubSeq(inbox, 1, 2) = <<5, 0>> /\ Host # "long"
     THEN /\ pc' = "head"
          /\ sent' = Append(sent, Request)
          /\ \E b \in Replies : coming' = coming \o b
     ELSE pc' = "failed" /\ UNCHANGED <<sent, coming>>
  /\ UNCHANGED <<frame, egress, asked, skip, hung>>

ReplyHead ==
  /\ pc = "head" /\ Reads(4)
  /\ LET rep == inbox[2]  atyp == inbox[4] IN
     /\ skip' = CASE atyp = 1 -> 4 [] atyp = 4 -> 16 [] OTHER -> 0
     /\ pc' = CASE rep # 0 \/ atyp \notin {1, 3, 4} -> "failed"
                [] rep = 0 /\ atyp = 3 -> "length"
                [] OTHER -> "tail"
  /\ UNCHANGED <<frame, egress, asked, sent, coming, hung>>

DomainLength ==
  /\ pc = "length" /\ Reads(1)
  /\ skip' = inbox[1] /\ pc' = "tail"
  /\ UNCHANGED <<frame, egress, asked, sent, coming, hung>>

\* Mutant of Rest: the port of the bound address is left unread.
RestNoPort == skip

Rest == skip + 2

BoundAddress ==
  /\ pc = "tail" /\ Reads(Rest)
  /\ pc' = "connected"
  /\ UNCHANGED <<frame, egress, asked, skip, sent, coming, hung>>

\* The number of bytes that the task waits for.
Wanted == CASE pc = "method" -> 2 [] pc = "head" -> 4 [] pc = "length" -> 1
            [] pc = "tail" -> Rest [] OTHER -> 0

\* Mutant of CutShort: the end of the stream is taken for bytes to come.
CutShortWaits == FALSE /\ UNCHANGED vars

\* read_exact fails where the stream ends before the last byte.
CutShort ==
  /\ hung /\ Len(inbox) < Wanted
  /\ pc' = "failed"
  /\ UNCHANGED <<frame, egress, asked, skip, sent, coming, inbox, hung>>

\* L7: TLS with the host, over whichever way; it may fail.
Tls ==
  /\ pc = "connected" /\ proto = "l7"
  /\ pc' \in {"secured", "failed"}
  /\ UNCHANGED <<frame, egress, asked, skip, sent, coming, inbox, hung>>

Client ==
  \/ OpenProxy \/ OpenDirect \/ Method \/ ReplyHead \/ DomainLength
  \/ BoundAddress \/ CutShort \/ Tls

-----------------------------------------------------------------------------
\* The proxy and the net between.
Arrive ==
  /\ ~hung
  /\ \E n \in 1..Len(coming) :
       /\ inbox' = inbox \o SubSeq(coming, 1, n)
       /\ coming' = SubSeq(coming, n + 1, Len(coming))
  /\ UNCHANGED <<frame, pc, egress, asked, skip, sent, hung>>

HangUp ==
  /\ sent # <<>> /\ ~hung
  /\ hung' = TRUE /\ coming' = <<>>
  /\ UNCHANGED <<frame, pc, egress, asked, skip, sent, inbox>>

Next == Client \/ Arrive \/ HangUp

Spec == Init /\ [][Next]_vars

\* The task is scheduled; the net and the proxy owe it nothing.
FairSpec == Spec /\ WF_vars(Client)

-----------------------------------------------------------------------------
Ready == pc \in {"connected", "secured"}
Proxies == {"tor", "upstream"}

\* The stream that is handed on begins with the destination's first byte: the
\* handshake has read the whole reply, whatever the kind of its address, and
\* nothing behind it, however the bytes were cut into pieces.
StreamIsWhole ==
  pc = "connected" /\ egress \in Proxies =>
    IF hung THEN IsPrefix(inbox, Stream) ELSE inbox \o coming = Stream

\* A proxy is told the name and not an address: with a stream over one of them
\* it has been sent the frame's target, and the node's DNS knows nothing of it.
ProxyResolves ==
  Ready /\ egress \in Proxies =>
    ~asked /\ sent = <<"greeting", <<"domain", SubSeq(target, 1, Len(target) - 1), Port>>>>

\* A TCP stream to an .onion host goes over Tor, also with an upstream.
TcpOnionStaysInTor ==
  proto = "tcp" /\ Host = "onion" => egress \in {"none", "tor"} /\ ~asked

\* Once the proxy has hung up, dialling ends.
HangUpEnds == hung ~> pc \in {"connected", "secured", "failed"}
=============================================================================
