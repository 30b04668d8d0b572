----------------------------- MODULE MCWispNode -----------------------------
(* WispNode on small instances: the kinds of the streams a connection        *)
(* carries, and two payloads a side.                                         *)
EXTENDS WispNode, TLC

CONSTANTS s1, s2, k1, k2,
          MaxTraffic  \* bound: frames the clients and chunks the remotes send

\* Two chunks up are enough for the second to overtake the first.
TwoUp == s1 :> <<k1, k2>> @@ s2 :> <<k1>>
TwoEach == s1 :> <<k1, k2>> @@ s2 :> <<k1, k2>>
OneUp == s1 :> <<k1>> @@ s2 :> <<k1>>
TcpUdp == s1 :> "tcp" @@ s2 :> "udp"
TcpFetch == s1 :> "tcp" @@ s2 :> "l7"
OneTcp == s1 :> "tcp"

\* One stream may carry all its four payloads, or two streams three of theirs.
Traffic == sent[s1] + sent[s2] + said[s1] + said[s2] <= MaxTraffic
=============================================================================
