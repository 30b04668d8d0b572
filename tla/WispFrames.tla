----------------------------- MODULE WispFrames -----------------------------
(***************************************************************************)
(* The wisp frames that the service worker (public/sw.js) and the node     *)
(* (server/src/wisp.rs) exchange over one WebSocket, and the WebSocket as  *)
(* two sequences of messages, one per direction.                           *)
(*                                                                         *)
(* A frame is a record.  "key" names the connection whose AES-GCM key      *)
(* sealed it ("none" for a message sent in the clear), so opening a frame  *)
(* with the key of connection c succeeds exactly when frame.key = c.       *)
(* "body" is the payload, reduced to what the properties tell apart: the   *)
(* request it carries or answers, or a token.                              *)
(***************************************************************************)
EXTENDS Naturals, Sequences

Hello == "hello"      \* the JSON handshake { v: 1, pub }, either direction
CONNECT == "CONNECT"  \* 0x01
DATA == "DATA"        \* 0x02
END == "END"          \* 0x03
UDP == "UDP"          \* 0x04
REQ == "REQ"          \* 0x06
RES == "RES"          \* 0x07

FrameTypes == {Hello, CONNECT, DATA, END, UDP, REQ, RES}

Frame(type, sid, key, body) ==
  [type |-> type, sid |-> sid, key |-> key, body |-> body]

\* The handshake message: sent before any key exists, belongs to no stream.
HelloFrame == Frame(Hello, 0, "none", "none")

\* What AES-GCM decides: a message opens under the key that sealed it.
Opens(key, frame) == frame.key = key

\* The messages in a queue, whatever their order.
Contents(queue) == {queue[i] : i \in 1..Len(queue)}

IsHead(queue, type) == queue # <<>> /\ Head(queue).type = type
=============================================================================
