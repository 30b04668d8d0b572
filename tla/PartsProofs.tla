----------------------------- MODULE PartsProofs -----------------------------
(***************************************************************************)
(* Proofs about four of the parts that stand alone: dialling through a     *)
(* proxy (module Dial, as Route) hands the stream on whole, the references *)
(* of rewritten pages (module Pages, as Page) lead back to the worker,     *)
(* (module Links, as Link) rewriting a text neither drops nor doubles a    *)
(* part of it, and a link is read back, and (module WasmCore, as Wasm) so  *)
(* are the sections of the worker's core.  The theorems are about the      *)
(* behaviours of MCParts, in which one part moves and the variables of the *)
(* others stay Unused.                                                     *)
(***************************************************************************)
EXTENDS MCParts, Recursion, SequenceTheorems, TLAPS

-----------------------------------------------------------------------------
\* The SOCKS5 handshake (socks.rs connect_via_socks, wisp.rs open_tcp, open_l7).

Proxies == {"tor", "upstream"}
Waiting == {"method", "head", "length", "tail"}
Asked == {"head", "length", "tail", "connected", "secured"}

\* What of the proxy's answers is still unread when the task stands at at.
Unread(at, n, q) ==
  /\ q \in Seq(Nat)
  /\ at = "method" => Len(q) = 2
  /\ at = "head" => q \in Route!Replies
  /\ at = "length" => \E l \in Lengths : q = <<l>> \o [i \in 1..l + 2 |-> 7] \o Stream
  /\ at = "tail" => /\ Len(q) = n + 2 + Len(Stream)
                    /\ \A i \in 1..Len(Stream) : q[n + 2 + i] = Stream[i]
  /\ at = "connected" => q = Stream

\* q is what has arrived and what is on its way, or, when the proxy has hung up,
\* it begins with what has arrived.
Fits(q, in, co, over) ==
  /\ Len(in) <= Len(q)
  /\ \A i \in 1..Len(in) : in[i] = q[i]
  /\ ~over => /\ Len(in) + Len(co) = Len(q)
              /\ \A i \in 1..Len(co) : co[i] = q[Len(in) + i]

DialTyped ==
  /\ pc \in {"open", "connected", "secured", "failed"} \cup Waiting
  /\ egress \in {"none", "direct"} \cup Proxies
  /\ proto \in {"tcp", "udp", "l7"} /\ upstream \in BOOLEAN
  /\ inbox \in Seq(Nat) /\ coming \in Seq(Nat) /\ skip \in Nat /\ hung \in BOOLEAN

InOrder ==
  /\ pc = "open" => /\ egress = "none" /\ asked = FALSE
                    /\ inbox = <<>> /\ coming = <<>> /\ sent = <<>>
  /\ pc \in Waiting => egress \in Proxies
  /\ pc = "method" => sent = <<"greeting">> /\ asked = FALSE

Told ==
  pc \in Asked /\ egress \in Proxies =>
    asked = FALSE /\ sent = <<"greeting", Route!Request>>

Unbroken ==
  pc \in Waiting \cup {"connected"} /\ egress \in Proxies =>
    \E q : Unread(pc, skip, q) /\ Fits(q, inbox, coming, hung)

OverTor ==
  proto = "tcp" /\ Route!Host = "onion" => egress \in {"none", "tor"} /\ asked = FALSE

DialInv == DialTyped /\ InOrder /\ Told /\ Unbroken /\ OverTor

\* Whatever the proxy answers is bytes.
LEMMA RepliesTyped == Route!Replies \subseteq Seq(Nat)
<1> USE RouteAssumption
<1>1. Stream \in Seq(Nat)
  OBVIOUS
<1>2. <<5, 1, 0, 1, 0, 0, 0, 0, 0, 0>> \in Seq(Nat) /\ <<5, 0, 0, 9>> \in Seq(Nat)
  OBVIOUS
<1>3. <<5, 0, 0, 1>> \o [i \in 1..6 |-> 7] \o Stream \in Seq(Nat)
  OBVIOUS
<1>4. <<5, 0, 0, 4>> \o [i \in 1..18 |-> 7] \o Stream \in Seq(Nat)
  OBVIOUS
<1>5. ASSUME NEW n \in Lengths
      PROVE  <<5, 0, 0, 3, n>> \o [i \in 1..n + 2 |-> 7] \o Stream \in Seq(Nat)
  OBVIOUS
<1> QED
  BY <1>2, <1>3, <1>4, <1>5 DEF Route!Replies

\* Lengths and elements of a concatenation, of a suffix and of a prefix, and
\* equality by elements, over the numbers that stand for bytes.
LEMMA Joined ==
  ASSUME NEW s \in Seq(Nat), NEW v \in Seq(Nat)
  PROVE  /\ s \o v \in Seq(Nat) /\ Len(s \o v) = Len(s) + Len(v)
         /\ Len(s) \in Nat /\ Len(v) \in Nat
         /\ \A i \in 1..Len(s) : (s \o v)[i] = s[i]
         /\ \A i \in 1..Len(v) : (s \o v)[Len(s) + i] = v[i]
OBVIOUS

LEMMA Same ==
  ASSUME NEW s \in Seq(Nat), NEW v \in Seq(Nat), Len(s) = Len(v),
         \A i \in 1..Len(s) : s[i] = v[i]
  PROVE  s = v
OBVIOUS

LEMMA Dropped ==
  ASSUME NEW s \in Seq(Nat), NEW n \in Nat, n <= Len(s)
  PROVE  LET r == SubSeq(s, n + 1, Len(s)) IN
         /\ r \in Seq(Nat) /\ Len(r) = Len(s) - n /\ Len(s) \in Nat
         /\ \A i \in 1..Len(s) - n : r[i] = s[n + i]
OBVIOUS

\* The end of a reply of each kind.
LEMMA ReplyRead ==
  ASSUME NEW q \in Route!Replies, q[2] = 0, q[4] \in {1, 3, 4}
  PROVE  /\ Len(q) >= 4
         /\ q[4] = 3 => \E n \in Lengths : SubSeq(q, 5, Len(q)) = <<n>> \o [i \in 1..n + 2 |-> 7] \o Stream
         /\ q[4] = 1 => /\ Len(q) - 4 = 6 + Len(Stream)
                        /\ \A i \in 1..Len(Stream) : q[10 + i] = Stream[i]
         /\ q[4] = 4 => /\ Len(q) - 4 = 18 + Len(Stream)
                        /\ \A i \in 1..Len(Stream) : q[22 + i] = Stream[i]
<1>0. Stream \in Seq(Nat) /\ Lengths \subseteq Nat
  BY RouteAssumption
<1>1. CASE q = <<5, 1, 0, 1, 0, 0, 0, 0, 0, 0>> \/ q = <<5, 0, 0, 9>>
  BY <1>1
<1>2. CASE q = <<5, 0, 0, 1>> \o [i \in 1..6 |-> 7] \o Stream
  <2>1. Len(q) = 10 + Len(Stream) /\ q[4] = 1 /\ \A i \in 1..Len(Stream) : q[10 + i] = Stream[i]
    BY <1>0, <1>2
  <2> QED
    BY <1>0, <2>1
<1>3. CASE q = <<5, 0, 0, 4>> \o [i \in 1..18 |-> 7] \o Stream
  <2>1. Len(q) = 22 + Len(Stream) /\ q[4] = 4 /\ \A i \in 1..Len(Stream) : q[22 + i] = Stream[i]
    BY <1>0, <1>3
  <2> QED
    BY <1>0, <2>1
<1>4. ASSUME NEW n \in Lengths, q = <<5, 0, 0, 3, n>> \o [i \in 1..n + 2 |-> 7] \o Stream
      PROVE  /\ q[4] = 3 /\ Len(q) >= 4
             /\ SubSeq(q, 5, Len(q)) = <<n>> \o [i \in 1..n + 2 |-> 7] \o Stream
  <2> DEFINE pad == [i \in 1..n + 2 |-> 7]
             rest == <<n>> \o pad \o Stream
  <2>1. n \in Nat /\ pad \in Seq(Nat) /\ Len(pad) = n + 2
    BY <1>0
  <2> HIDE DEF pad
  <2>2. /\ rest \in Seq(Nat) /\ Len(rest) = 1 + (n + 2) + Len(Stream)
        /\ rest[1] = n /\ \A i \in 1..n + 2 : rest[1 + i] = pad[i]
        /\ \A i \in 1..Len(Stream) : rest[n + 3 + i] = Stream[i]
    <3> DEFINE a == <<n>> \o pad
    <3>1. <<n>> \in Seq(Nat) /\ Len(<<n>>) = 1 /\ <<n>>[1] = n
      BY <2>1
    <3>2. /\ a \in Seq(Nat) /\ Len(a) = 1 + (n + 2)
          /\ \A i \in 1..1 : a[i] = <<n>>[i]
          /\ \A i \in 1..n + 2 : a[1 + i] = pad[i]
      BY <2>1, <3>1, Joined
    <3>3. a[1] = n
      BY <3>1, <3>2
    <3> HIDE DEF a
    <3>4. /\ a \o Stream \in Seq(Nat) /\ Len(a \o Stream) = 1 + (n + 2) + Len(Stream)
          /\ \A i \in 1..Len(a) : (a \o Stream)[i] = a[i]
          /\ \A i \in 1..Len(Stream) : (a \o Stream)[Len(a) + i] = Stream[i]
      <4>1. /\ a \o Stream \in Seq(Nat) /\ Len(a \o Stream) = Len(a) + Len(Stream)
            /\ \A i \in 1..Len(a) : (a \o Stream)[i] = a[i]
            /\ \A i \in 1..Len(Stream) : (a \o Stream)[Len(a) + i] = Stream[i]
        <5>1. a \in Seq(Nat) /\ Stream \in Seq(Nat)
          BY <1>0, <3>2
        <5> QED
          BY <5>1, Joined
      <4> QED
        BY <3>2, <4>1
    <3>5. rest = a \o Stream
      BY DEF a
    <3>6. Len(a) = n + 3 /\ 1 \in 1..Len(a) /\ \A i \in 1..n + 2 : 1 + i \in 1..Len(a)
      BY <2>1, <3>2
    <3> HIDE DEF rest
    <3> QED
      BY <3>2, <3>3, <3>4, <3>5, <3>6
  <2>3. q = <<5, 0, 0, 3, n>> \o pad \o Stream
    BY <1>4 DEF pad
  <2>4. /\ q \in Seq(Nat) /\ Len(q) = 5 + (n + 2) + Len(Stream)
        /\ q[4] = 3 /\ q[5] = n /\ \A i \in 1..n + 2 : q[5 + i] = pad[i]
        /\ \A i \in 1..Len(Stream) : q[n + 7 + i] = Stream[i]
    <3> DEFINE h == <<5, 0, 0, 3, n>>
               a == h \o pad
    <3>1. h \in Seq(Nat) /\ Len(h) = 5 /\ h[4] = 3 /\ h[5] = n
      BY <2>1
    <3> HIDE DEF h
    <3>2. /\ a \in Seq(Nat) /\ Len(a) = 5 + (n + 2)
          /\ \A i \in 1..5 : a[i] = h[i]
          /\ \A i \in 1..n + 2 : a[5 + i] = pad[i]
      <4>1. /\ h \o pad \in Seq(Nat) /\ Len(h \o pad) = Len(h) + Len(pad)
            /\ \A i \in 1..Len(h) : (h \o pad)[i] = h[i]
            /\ \A i \in 1..Len(pad) : (h \o pad)[Len(h) + i] = pad[i]
        BY <2>1, <3>1, Joined
      <4> QED
        BY <2>1, <3>1, <4>1
    <3>3. a[4] = 3 /\ a[5] = n
      <4>1. a[4] = h[4] /\ a[5] = h[5]
        <5> HIDE DEF a
        <5> QED
          BY <3>2
      <4> QED
        BY <3>1, <4>1
    <3> HIDE DEF a
    <3>4. /\ a \o Stream \in Seq(Nat) /\ Len(a \o Stream) = 5 + (n + 2) + Len(Stream)
          /\ \A i \in 1..Len(a) : (a \o Stream)[i] = a[i]
          /\ \A i \in 1..Len(Stream) : (a \o Stream)[Len(a) + i] = Stream[i]
      <4>1. /\ a \o Stream \in Seq(Nat) /\ Len(a \o Stream) = Len(a) + Len(Stream)
            /\ \A i \in 1..Len(a) : (a \o Stream)[i] = a[i]
            /\ \A i \in 1..Len(Stream) : (a \o Stream)[Len(a) + i] = Stream[i]
        <5>1. a \in Seq(Nat) /\ Stream \in Seq(Nat)
          BY <1>0, <3>2
        <5> QED
          BY <5>1, Joined
      <4> QED
        BY <3>2, <4>1
    <3>5. q = a \o Stream
      BY <2>3 DEF a, h
    <3>6. /\ Len(a) = n + 7 /\ 4 \in 1..Len(a) /\ 5 \in 1..Len(a)
          /\ \A i \in 1..n + 2 : 5 + i \in 1..Len(a)
      BY <2>1, <3>2
    <3> QED
      BY <3>2, <3>3, <3>4, <3>5, <3>6
  <2>5. SubSeq(q, 5, Len(q)) \in Seq(Nat) /\ Len(SubSeq(q, 5, Len(q))) = Len(rest)
        /\ \A i \in 1..Len(rest) : SubSeq(q, 5, Len(q))[i] = q[4 + i]
    <3> HIDE DEF rest
    <3>1. Len(Stream) \in Nat
      BY <1>0
    <3>2. 4 <= Len(q) /\ Len(q) - 4 = Len(rest)
      BY <2>1, <2>2, <2>4, <3>1
    <3>3. LET r == SubSeq(q, 4 + 1, Len(q)) IN
          /\ r \in Seq(Nat) /\ Len(r) = Len(q) - 4
          /\ \A i \in 1..Len(q) - 4 : r[i] = q[4 + i]
      <4>1. q \in Seq(Nat) /\ 4 \in Nat /\ 4 <= Len(q)
        BY <2>4, <3>2
      <4> QED
        BY <4>1, Dropped
    <3> QED
      BY <3>2, <3>3
  <2>6. \A i \in 1..Len(rest) : q[4 + i] = rest[i]
    <3>1. ASSUME NEW i \in 1..Len(rest) PROVE q[4 + i] = rest[i]
      <4>1. i = 1 \/ (\E j \in 1..n + 2 : i = 1 + j) \/ (\E j \in 1..Len(Stream) : i = n + 3 + j)
        <5>1. i \in Nat /\ i >= 1 /\ i <= n + 3 + Len(Stream) /\ Len(Stream) \in Nat
          BY <1>0, <2>1, <2>2, <3>1
        <5>2. CASE i = 1
          BY <5>2
        <5>3. CASE i > 1 /\ i <= n + 3
          <6>1. i - 1 \in 1..n + 2 /\ i = 1 + (i - 1)
            BY <2>1, <5>1, <5>3
          <6> QED
            BY <6>1
        <5>4. CASE i > n + 3
          <6>1. i - (n + 3) \in 1..Len(Stream) /\ i = n + 3 + (i - (n + 3))
            BY <2>1, <5>1, <5>4
          <6> QED
            BY <6>1
        <5> QED
          BY <2>1, <5>1, <5>2, <5>3, <5>4
      <4>2. CASE i = 1
        BY <2>2, <2>4, <4>2
      <4>3. ASSUME NEW j \in 1..n + 2, i = 1 + j PROVE q[4 + i] = rest[i]
        <5>1. 4 + i = 5 + j
          BY <2>1, <4>3
        <5> QED
          BY <2>2, <2>4, <4>3, <5>1
      <4>4. ASSUME NEW j \in 1..Len(Stream), i = n + 3 + j PROVE q[4 + i] = rest[i]
        <5>1. 4 + i = n + 7 + j
          BY <1>0, <2>1, <4>4
        <5>2. q[n + 7 + j] = Stream[j] /\ rest[n + 3 + j] = Stream[j]
          <6> HIDE DEF rest
          <6>1. \A l \in 1..Len(Stream) : q[n + 7 + l] = Stream[l]
            BY <2>4
          <6>2. \A l \in 1..Len(Stream) : rest[n + 3 + l] = Stream[l]
            BY <2>2
          <6> QED
            BY <4>4, <6>1, <6>2
        <5> QED
          BY <4>4, <5>1, <5>2
      <4> QED
        BY <4>1, <4>2, <4>3, <4>4
    <3> QED
      BY <3>1
  <2>7. SubSeq(q, 5, Len(q)) = rest
    <3> HIDE DEF rest
    <3> QED
      BY <2>2, <2>5, <2>6, Same
  <2>8. Len(q) >= 4
    BY <1>0, <2>1, <2>4
  <2> QED
    BY <2>4, <2>7, <2>8 DEF pad
<1>5. \/ q = <<5, 1, 0, 1, 0, 0, 0, 0, 0, 0>> \/ q = <<5, 0, 0, 9>>
      \/ q = <<5, 0, 0, 1>> \o [i \in 1..6 |-> 7] \o Stream
      \/ q = <<5, 0, 0, 4>> \o [i \in 1..18 |-> 7] \o Stream
      \/ \E n \in Lengths : q = <<5, 0, 0, 3, n>> \o [i \in 1..n + 2 |-> 7] \o Stream
  BY DEF Route!Replies
<1>6. ASSUME \E n \in Lengths : q = <<5, 0, 0, 3, n>> \o [i \in 1..n + 2 |-> 7] \o Stream
      PROVE  /\ q[4] = 3 /\ Len(q) >= 4
             /\ \E n \in Lengths : SubSeq(q, 5, Len(q)) = <<n>> \o [i \in 1..n + 2 |-> 7] \o Stream
  BY <1>4, <1>6
<1> HIDE DEF Route!Replies
<1>7. CASE \E n \in Lengths : q = <<5, 0, 0, 3, n>> \o [i \in 1..n + 2 |-> 7] \o Stream
  <2>1. /\ q[4] = 3 /\ Len(q) >= 4
        /\ \E n \in Lengths : SubSeq(q, 5, Len(q)) = <<n>> \o [i \in 1..n + 2 |-> 7] \o Stream
    BY <1>6, <1>7
  <2>2. ~(q[4] = 1) /\ ~(q[4] = 4)
    BY <2>1
  <2>3. /\ Len(q) >= 4
        /\ \E n \in Lengths : SubSeq(q, 5, Len(q)) = <<n>> \o [i \in 1..n + 2 |-> 7] \o Stream
    BY <2>1
  <2> HIDE <1>7, <2>1
  <2> DEFINE
    Is3 == \E n \in Lengths : SubSeq(q, 5, Len(q)) = <<n>> \o [i \in 1..n + 2 |-> 7] \o Stream
    Is1 == /\ Len(q) - 4 = 6 + Len(Stream)
           /\ \A i \in 1..Len(Stream) : q[10 + i] = Stream[i]
    Is4 == /\ Len(q) - 4 = 18 + Len(Stream)
           /\ \A i \in 1..Len(Stream) : q[22 + i] = Stream[i]
  <2>4. Len(q) >= 4 /\ Is3
    BY <2>3
  <2> HIDE DEF Is3, Is1, Is4
  <2>5. Len(q) >= 4 /\ (q[4] = 3 => Is3) /\ (q[4] = 1 => Is1) /\ (q[4] = 4 => Is4)
    BY <2>2, <2>4
  <2> QED
    BY <2>5 DEF Is1, Is3, Is4
<1> QED
  BY <1>1, <1>2, <1>3, <1>5, <1>7

LEMMA Ahead ==
  ASSUME NEW s \in Seq(Nat), NEW n \in Nat, n <= Len(s)
  PROVE  LET r == SubSeq(s, 1, n) IN
         /\ r \in Seq(Nat) /\ Len(r) = n /\ Len(s) \in Nat
         /\ \A i \in 1..n : r[i] = s[i]
OBVIOUS

\* Sums of lengths.
LEMMA Less ==
  ASSUME NEW a \in Nat, NEW c \in Nat, NEW q, NEW n \in Nat, a + c = q
  PROVE  (a - n) + c = q - n
OBVIOUS

LEMMA More ==
  ASSUME NEW a \in Nat, NEW c \in Nat, NEW q, NEW n \in Nat, a + c = q, n <= c
  PROVE  a + n <= q /\ (a + n) + (c - n) = q
OBVIOUS

\* read_exact takes n bytes off what has arrived.
LEMMA Taken ==
  ASSUME NEW in \in Seq(Nat), NEW co \in Seq(Nat), NEW q \in Seq(Nat), NEW over \in BOOLEAN,
         NEW n \in Nat, n <= Len(in), Fits(q, in, co, over)
  PROVE  /\ n <= Len(q) /\ SubSeq(in, n + 1, Len(in)) \in Seq(Nat)
         /\ SubSeq(q, n + 1, Len(q)) \in Seq(Nat)
         /\ Fits(SubSeq(q, n + 1, Len(q)), SubSeq(in, n + 1, Len(in)), co, over)
<1> DEFINE r == SubSeq(q, n + 1, Len(q))
           j == SubSeq(in, n + 1, Len(in))
<1>1. /\ Len(in) <= Len(q) /\ Len(in) \in Nat /\ Len(q) \in Nat /\ Len(co) \in Nat
      /\ \A i \in 1..Len(in) : in[i] = q[i]
      /\ over \/ Len(in) + Len(co) = Len(q)
      /\ over \/ \A i \in 1..Len(co) : co[i] = q[Len(in) + i]
  BY DEF Fits
<1>2. n <= Len(q)
  BY <1>1
<1>3. /\ r \in Seq(Nat) /\ Len(r) = Len(q) - n
      /\ \A i \in 1..Len(q) - n : r[i] = q[n + i]
  BY <1>2, Dropped
<1>4. /\ j \in Seq(Nat) /\ Len(j) = Len(in) - n
      /\ \A i \in 1..Len(in) - n : j[i] = in[n + i]
  BY Dropped
<1> HIDE DEF r, j
<1>n. /\ Len(in) <= Len(q) /\ Len(in) \in Nat /\ Len(q) \in Nat /\ Len(co) \in Nat
      /\ Len(j) = Len(in) - n /\ Len(r) = Len(q) - n
  BY <1>1, <1>3, <1>4
<1>5. Len(j) <= Len(r)
  BY <1>n
<1>6. \A i \in 1..Len(j) : j[i] = r[i]
  <2> TAKE i \in 1..Len(j)
  <2>1. i \in 1..Len(in) - n /\ i \in 1..Len(q) - n /\ n + i \in 1..Len(in)
    BY <1>n
  <2>2. j[i] = in[n + i]
    BY <1>4, <2>1
  <2>3. in[n + i] = q[n + i]
    BY <1>1, <2>1
  <2>4. r[i] = q[n + i]
    BY <1>3, <2>1
  <2> QED
    BY <2>2, <2>3, <2>4
<1>7. ASSUME ~over
      PROVE  Len(j) + Len(co) = Len(r) /\ \A i \in 1..Len(co) : co[i] = r[Len(j) + i]
  <2>1. Len(in) + Len(co) = Len(q) /\ \A i \in 1..Len(co) : co[i] = q[Len(in) + i]
    BY <1>1, <1>7
  <2>0. Len(in) + Len(co) = Len(q)
    BY <2>1
  <2>2. Len(j) + Len(co) = Len(r)
    <3>1. (Len(in) - n) + Len(co) = Len(q) - n
      <4>1. Len(in) \in Nat /\ Len(co) \in Nat
        BY <1>n
      <4> QED
        BY <2>0, <4>1, Less
    <3>2. Len(j) = Len(in) - n /\ Len(r) = Len(q) - n
      BY <1>n
    <3> QED
      BY <3>1, <3>2
  <2>3. ASSUME NEW i \in 1..Len(co) PROVE co[i] = r[Len(j) + i]
    <3>0. Len(in) + Len(co) = Len(q)
      BY <2>1
    <3>1. Len(j) + i \in 1..Len(q) - n /\ n + (Len(j) + i) = Len(in) + i
      BY <1>n, <3>0
    <3>2. r[Len(j) + i] = q[n + (Len(j) + i)]
      BY <1>3, <3>1
    <3>3. co[i] = q[Len(in) + i]
      BY <2>1
    <3> QED
      BY <3>1, <3>2, <3>3
  <2> QED
    BY <2>2, <2>3
<1>8. Fits(r, j, co, over)
  BY <1>5, <1>6, <1>7 DEF Fits
<1> QED
  BY <1>2, <1>3, <1>4, <1>8 DEF r, j

\* A piece of any size moves from what is on its way to what has arrived.
LEMMA Arrived ==
  ASSUME NEW in \in Seq(Nat), NEW co \in Seq(Nat), NEW q \in Seq(Nat),
         NEW n \in 1..Len(co), Fits(q, in, co, FALSE)
  PROVE  /\ in \o SubSeq(co, 1, n) \in Seq(Nat) /\ SubSeq(co, n + 1, Len(co)) \in Seq(Nat)
         /\ Fits(q, in \o SubSeq(co, 1, n), SubSeq(co, n + 1, Len(co)), FALSE)
<1> DEFINE p == SubSeq(co, 1, n)
           r == SubSeq(co, n + 1, Len(co))
           j == in \o p
<1>n. /\ Len(in) \in Nat /\ Len(q) \in Nat /\ Len(co) \in Nat /\ n \in Nat /\ n <= Len(co)
      /\ 1 <= n
  OBVIOUS
<1>m. Len(in) + Len(co) = Len(q)
  BY DEF Fits
<1>1. /\ n \in Nat /\ n <= Len(co)
      /\ \A i \in 1..Len(in) : in[i] = q[i]
      /\ \A i \in 1..Len(co) : co[i] = q[Len(in) + i]
  BY <1>n DEF Fits
<1>2. p \in Seq(Nat) /\ Len(p) = n /\ \A i \in 1..n : p[i] = co[i]
  BY <1>1, Ahead
<1>3. /\ r \in Seq(Nat) /\ Len(r) = Len(co) - n
      /\ \A i \in 1..Len(co) - n : r[i] = co[n + i]
  BY <1>1, Dropped
<1> HIDE DEF p, r
<1>4. /\ j \in Seq(Nat) /\ Len(j) = Len(in) + Len(p)
      /\ \A i \in 1..Len(in) : j[i] = in[i]
      /\ \A i \in 1..Len(p) : j[Len(in) + i] = p[i]
  BY <1>2, Joined
<1> HIDE DEF j
<1>l. Len(j) = Len(in) + n /\ Len(p) = n /\ Len(r) = Len(co) - n
  BY <1>2, <1>3, <1>4
<1>5. Len(j) <= Len(q) /\ Len(j) + Len(r) = Len(q)
  <2>1. Len(in) + n <= Len(q) /\ (Len(in) + n) + (Len(co) - n) = Len(q)
    <3>1. Len(in) \in Nat /\ Len(co) \in Nat /\ n \in Nat /\ n <= Len(co)
      BY <1>n
    <3> QED
      BY <1>m, <3>1, More
  <2>2. Len(j) = Len(in) + n /\ Len(r) = Len(co) - n
    BY <1>l
  <2> QED
    BY <2>1, <2>2
<1>6. ASSUME NEW i \in 1..Len(j) PROVE j[i] = q[i]
  <2>1. CASE i <= Len(in)
    <3>1. i \in 1..Len(in)
      BY <1>n, <1>l, <2>1
    <3> QED
      BY <1>1, <1>4, <3>1
  <2>2. CASE i > Len(in)
    <3> DEFINE l == i - Len(in)
    <3>1. l \in 1..Len(p) /\ l \in 1..n /\ l \in 1..Len(co) /\ i = Len(in) + l
      BY <1>n, <1>l, <2>2
    <3> HIDE DEF l
    <3>2. j[Len(in) + l] = p[l] /\ p[l] = co[l] /\ co[l] = q[Len(in) + l]
      BY <1>1, <1>2, <1>4, <3>1
    <3> QED
      BY <3>1, <3>2
  <2> QED
    BY <1>n, <1>l, <2>1, <2>2
<1>7. ASSUME NEW i \in 1..Len(r) PROVE r[i] = q[Len(j) + i]
  <2>1. i \in 1..Len(co) - n /\ n + i \in 1..Len(co) /\ Len(j) + i = Len(in) + (n + i)
    BY <1>n, <1>l
  <2>2. r[i] = co[n + i] /\ co[n + i] = q[Len(in) + (n + i)]
    BY <1>1, <1>3, <2>1
  <2> QED
    BY <2>1, <2>2
<1>8. Fits(q, j, r, FALSE)
  BY <1>5, <1>6, <1>7 DEF Fits
<1> QED
  BY <1>3, <1>4, <1>8 DEF p, r, j

\* When nothing of it is unread, what the proxy sends next is all that is.
LEMMA Fresh ==
  ASSUME NEW in \in Seq(Nat), NEW co \in Seq(Nat), NEW w \in Seq(Nat),
         NEW over \in BOOLEAN, NEW c \in Seq(Nat), Len(co) = 0 => c = w,
         Fits(<<>>, in, co, over)
  PROVE  Fits(w, in, c, over)
<1>1. /\ Len(in) \in Nat /\ Len(co) \in Nat /\ Len(in) = 0
      /\ over \/ Len(co) = 0
  BY DEF Fits
<1>2. CASE over
  BY <1>1, <1>2 DEF Fits
<1>3. CASE ~over
  <2>1. c = w
    BY <1>1, <1>3
  <2> QED
    BY <1>1, <2>1 DEF Fits
<1> QED
  BY <1>2, <1>3

LEMMA InitDial == ASSUME Route!Init PROVE DialInv
<1>1. /\ upstream \in BOOLEAN /\ proto \in {"tcp", "udp", "l7"}
      /\ pc = "open" /\ egress = "none" /\ asked = FALSE /\ skip = 0
      /\ sent = <<>> /\ coming = <<>> /\ inbox = <<>> /\ hung = FALSE
  BY DEF Route!Init
<1>2. inbox \in Seq(Nat) /\ coming \in Seq(Nat) /\ skip \in Nat
  BY <1>1
<1> QED
  BY <1>1, <1>2 DEF DialInv, DialTyped, InOrder, Told, Unbroken, OverTor, Proxies, Waiting, Asked

LEMMA FrameKept ==
  ASSUME UNCHANGED Route!frame
  PROVE  /\ Route!Host' = Route!Host /\ Route!Request' = Route!Request
         /\ proto' = proto /\ upstream' = upstream /\ Route!Way' = Route!Way
BY DEF Route!frame, Route!Host, Route!Request, Route!Port, Route!Way, Route!TcpWay

LEMMA Ways ==
  ASSUME DialTyped
  PROVE  /\ Route!Way \in {"direct"} \cup Proxies
         /\ proto = "tcp" /\ Route!Host = "onion" => Route!Way = "tor"
BY DEF DialTyped, Route!Way, Route!TcpWay, Proxies

\* A step in which the dialling only fails.
LEMMA FailsOnly ==
  ASSUME DialInv, pc' = "failed", UNCHANGED Route!frame,
         UNCHANGED <<egress, asked, skip, sent, coming, inbox, hung>>
  PROVE  DialInv'
BY FrameKept DEF DialInv, DialTyped, InOrder, Told, Unbroken, OverTor, Proxies, Waiting, Asked

LEMMA StepOpenProxy == ASSUME DialInv, Route!OpenProxy PROVE DialInv'
<1>0. DialTyped /\ pc = "open" /\ egress = "none" /\ asked = FALSE /\ inbox = <<>> /\ coming = <<>>
      /\ sent = <<>>
  BY DEF DialInv, InOrder, Route!OpenProxy
<1>1. /\ egress' \in Proxies /\ egress' = Route!Way
      /\ UNCHANGED Route!frame /\ UNCHANGED <<asked, skip, inbox, hung>>
  BY <1>0, Ways DEF Route!OpenProxy
<1>2. /\ Route!Host' = Route!Host /\ Route!Request' = Route!Request
      /\ proto' = proto /\ upstream' = upstream
  BY <1>1, FrameKept
<1>3. OverTor'
  BY <1>0, <1>1, <1>2, Ways DEF OverTor
<1>4. CASE pc' = "failed" /\ UNCHANGED <<sent, coming>>
  BY <1>0, <1>1, <1>2, <1>3, <1>4
     DEF DialInv, DialTyped, InOrder, Told, Unbroken, Proxies, Waiting, Asked
<1>5. CASE pc' = "method" /\ sent' = <<"greeting">>
           /\ \E m \in {<<5, 0>>, <<5, 255>>, <<4, 0>>} : coming' = m
  <2>1. coming' \in Seq(Nat) /\ Len(coming') = 2
    <3>1. coming' = <<5, 0>> \/ coming' = <<5, 255>> \/ coming' = <<4, 0>>
      BY <1>5
    <3>2. <<5, 0>> \in Seq(Nat) /\ <<5, 255>> \in Seq(Nat) /\ <<4, 0>> \in Seq(Nat)
      OBVIOUS
    <3>3. Len(<<5, 0>>) = 2 /\ Len(<<5, 255>>) = 2 /\ Len(<<4, 0>>) = 2
      OBVIOUS
    <3> QED
      BY <3>1, <3>2, <3>3
  <2>2. DialTyped'
    BY <1>0, <1>1, <1>2, <1>5, <2>1 DEF DialTyped, Waiting
  <2>3. InOrder' /\ Told'
    BY <1>0, <1>1, <1>5 DEF InOrder, Told, Waiting, Asked
  <2>4. Unread("method", skip', coming') /\ Fits(coming', inbox', coming', hung')
    <3>1. inbox' = <<>>
      BY <1>0, <1>1
    <3> QED
      BY <2>1, <3>1 DEF Unread, Fits
  <2>5. Unbroken'
    BY <1>5, <2>4 DEF Unbroken, Unread, Fits
  <2> QED
    BY <1>3, <2>2, <2>3, <2>5 DEF DialInv
<1> QED
  BY <1>4, <1>5 DEF Route!OpenProxy

LEMMA StepOpenDirect == ASSUME DialInv, Route!OpenDirect PROVE DialInv'
<1>0. DialTyped /\ pc = "open" /\ Route!Way = "direct"
  BY DEF DialInv, Route!OpenDirect
<1>1. /\ egress' = "direct" /\ pc' \in {"failed", "connected"}
      /\ UNCHANGED Route!frame /\ UNCHANGED <<skip, sent, coming, inbox, hung>>
  BY DEF Route!OpenDirect
<1>2. /\ Route!Host' = Route!Host /\ proto' = proto /\ upstream' = upstream
  BY <1>1, FrameKept
<1>3. OverTor'
  BY <1>0, <1>2, Ways DEF OverTor
<1> QED
  BY <1>0, <1>1, <1>2, <1>3
     DEF DialInv, DialTyped, InOrder, Told, Unbroken, Proxies, Waiting, Asked

LEMMA StepTls == ASSUME DialInv, Route!Tls PROVE DialInv'
<1>1. /\ pc = "connected" /\ pc' \in {"secured", "failed"}
      /\ UNCHANGED Route!frame /\ UNCHANGED <<egress, asked, skip, sent, coming, inbox, hung>>
  BY DEF Route!Tls
<1>2. CASE pc' = "failed"
  BY <1>1, <1>2, FailsOnly
<1>3. CASE pc' = "secured"
  BY <1>1, <1>3, FrameKept
     DEF DialInv, DialTyped, InOrder, Told, Unbroken, OverTor, Proxies, Waiting, Asked
<1> QED
  BY <1>1, <1>2, <1>3

LEMMA StepCutShort == ASSUME DialInv, Route!CutShort PROVE DialInv'
BY FailsOnly DEF Route!CutShort

LEMMA StepHangUp == ASSUME DialInv, Route!HangUp PROVE DialInv'
<1>1. /\ hung' = TRUE /\ coming' = <<>> /\ sent # <<>>
      /\ UNCHANGED Route!frame /\ UNCHANGED <<pc, egress, asked, skip, sent, inbox>>
  BY DEF Route!HangUp
<1>2. Unbroken'
  <2> SUFFICES ASSUME pc \in Waiting \cup {"connected"}, egress \in Proxies
               PROVE  \E q : Unread(pc, skip, q) /\ Fits(q, inbox, <<>>, TRUE)
    BY <1>1 DEF Unbroken, Unread, Fits
  <2>1. PICK q : Unread(pc, skip, q) /\ Fits(q, inbox, coming, hung)
    BY DEF DialInv, Unbroken
  <2>2. Fits(q, inbox, <<>>, TRUE)
    BY <2>1 DEF Fits
  <2> QED
    BY <2>1, <2>2
<1> QED
  BY <1>1, <1>2, FrameKept DEF DialInv, DialTyped, InOrder, Told, OverTor

LEMMA StepArrive == ASSUME DialInv, Route!Arrive PROVE DialInv'
<1>1. PICK n \in 1..Len(coming) :
        /\ inbox' = inbox \o SubSeq(coming, 1, n)
        /\ coming' = SubSeq(coming, n + 1, Len(coming))
  BY DEF Route!Arrive
<1>2. /\ hung = FALSE /\ hung' = FALSE
      /\ UNCHANGED Route!frame /\ UNCHANGED <<pc, egress, asked, skip, sent>>
  BY DEF Route!Arrive, DialInv, DialTyped
<1>3. inbox \in Seq(Nat) /\ coming \in Seq(Nat)
  BY DEF DialInv, DialTyped
<1>4. inbox' \in Seq(Nat) /\ coming' \in Seq(Nat)
  <2>1. Len(coming) \in Nat /\ n \in Nat /\ n <= Len(coming)
    BY <1>3
  <2>2. SubSeq(coming, 1, n) \in Seq(Nat)
    BY <1>3, <2>1, Ahead
  <2>3. SubSeq(coming, n + 1, Len(coming)) \in Seq(Nat)
    BY <1>3, <2>1, Dropped
  <2> QED
    BY <1>1, <1>3, <2>2, <2>3, Joined
<1>5. pc # "open"
  BY <1>1 DEF DialInv, InOrder
<1>6. Unbroken'
  <2> SUFFICES ASSUME pc \in Waiting \cup {"connected"}, egress \in Proxies
               PROVE  \E q : Unread(pc, skip, q) /\ Fits(q, inbox', coming', FALSE)
    BY <1>2 DEF Unbroken, Unread, Fits
  <2>1. PICK q : Unread(pc, skip, q) /\ Fits(q, inbox, coming, FALSE)
    BY <1>2 DEF DialInv, Unbroken
  <2>2. q \in Seq(Nat)
    BY <2>1 DEF Unread
  <2>3. Fits(q, inbox', coming', FALSE)
    BY <1>1, <1>3, <2>1, <2>2, Arrived
  <2> QED
    BY <2>1, <2>3
<1> QED
  BY <1>2, <1>4, <1>5, <1>6, FrameKept DEF DialInv, DialTyped, InOrder, Told, OverTor

\* What a read of n bytes leaves, when q is what was unread.
LEMMA ReadOn ==
  ASSUME DialInv, pc \in Waiting, NEW n \in Nat, Route!Reads(n),
         NEW q, Unread(pc, skip, q), Fits(q, inbox, coming, hung)
  PROVE  /\ n <= Len(q) /\ n <= Len(inbox) /\ inbox' \in Seq(Nat)
         /\ SubSeq(q, n + 1, Len(q)) \in Seq(Nat)
         /\ \A i \in 1..n : inbox[i] = q[i]
         /\ Fits(SubSeq(q, n + 1, Len(q)), inbox', coming, hung)
<1>1. /\ inbox \in Seq(Nat) /\ coming \in Seq(Nat) /\ q \in Seq(Nat) /\ hung \in BOOLEAN
      /\ n <= Len(inbox) /\ inbox' = SubSeq(inbox, n + 1, Len(inbox))
  BY DEF DialInv, DialTyped, Unread, Route!Reads
<1>2. /\ n <= Len(q) /\ SubSeq(inbox, n + 1, Len(inbox)) \in Seq(Nat)
      /\ SubSeq(q, n + 1, Len(q)) \in Seq(Nat)
      /\ Fits(SubSeq(q, n + 1, Len(q)), SubSeq(inbox, n + 1, Len(inbox)), coming, hung)
  BY <1>1, Taken
<1>3. \A i \in 1..n : inbox[i] = q[i]
  BY <1>1 DEF Fits
<1> QED
  BY <1>1, <1>2, <1>3

LEMMA PcUnread ==
  ASSUME DialInv, pc \in Waiting
  PROVE  egress \in Proxies /\ \E q : Unread(pc, skip, q) /\ Fits(q, inbox, coming, hung)
BY DEF DialInv, InOrder, Unbroken

\* A step of the handshake that does not fail: what is left fits the next one.
LEMMA ReadsOn ==
  ASSUME DialInv, pc \in Waiting, pc' \in {"head", "length", "tail", "connected"},
         UNCHANGED Route!frame, UNCHANGED <<egress, asked, hung>>,
         sent' = <<"greeting", Route!Request>>,
         skip' \in Nat, inbox' \in Seq(Nat), coming' \in Seq(Nat),
         \E q : Unread(pc', skip', q) /\ Fits(q, inbox', coming', hung)
  PROVE  DialInv'
<1>1. /\ Route!Host' = Route!Host /\ Route!Request' = Route!Request
      /\ proto' = proto /\ upstream' = upstream
  BY FrameKept
<1>2. egress \in Proxies /\ asked = FALSE
  <2>1. egress \in Proxies
    BY DEF DialInv, InOrder
  <2>2. asked = FALSE
    BY <2>1 DEF DialInv, InOrder, Told, Waiting, Asked
  <2> QED
    BY <2>1, <2>2
<1>3. DialTyped'
  BY <1>1 DEF DialInv, DialTyped, Waiting
<1>4. InOrder' /\ Told' /\ OverTor'
  BY <1>1, <1>2 DEF DialInv, InOrder, Told, OverTor, Waiting, Asked
<1>5. Unbroken'
  BY DEF Unbroken, Unread, Fits
<1> QED
  BY <1>3, <1>4, <1>5 DEF DialInv

LEMMA Pair == ASSUME NEW x, NEW y PROVE Append(<<x>>, y) = <<x, y>>
<1>1. <<x>> \in Seq({x, y}) /\ y \in {x, y} /\ <<x, y>> \in Seq({x, y})
  OBVIOUS
<1>2. Append(<<x>>, y) \in Seq({x, y}) /\ Len(Append(<<x>>, y)) = 2
  BY <1>1
<1>3. Append(<<x>>, y)[1] = x /\ Append(<<x>>, y)[2] = y
  BY <1>1
<1>4. Len(<<x, y>>) = 2 /\ \A i \in 1..2 : Append(<<x>>, y)[i] = <<x, y>>[i]
  BY <1>3
<1> QED
  BY <1>1, <1>2, <1>4, SeqEqual

LEMMA StepMethod == ASSUME DialInv, Route!Method PROVE DialInv'
<1>1. /\ pc = "method" /\ Route!Reads(2)
      /\ UNCHANGED Route!frame /\ UNCHANGED <<egress, asked, skip, hung>>
  BY DEF Route!Method
<1>2. pc \in Waiting
  BY <1>1 DEF Waiting
<1>3. PICK q : Unread(pc, skip, q) /\ Fits(q, inbox, coming, hung)
  BY <1>2, PcUnread
<1> DEFINE r == SubSeq(q, 2 + 1, Len(q))
<1>4. inbox' \in Seq(Nat) /\ r \in Seq(Nat) /\ Fits(r, inbox', coming, hung)
  BY <1>1, <1>2, <1>3, ReadOn
<1>5. r = <<>>
  <2>1. q \in Seq(Nat) /\ Len(q) = 2
    BY <1>1, <1>3 DEF Unread
  <2>2. Len(r) = 0
    BY <2>1
  <2> HIDE DEF r
  <2> QED
    BY <1>4, <2>2
<1> HIDE DEF r
<1>6. CASE pc' = "failed" /\ UNCHANGED <<sent, coming>>
  BY <1>1, <1>4, <1>6, FrameKept
     DEF DialInv, DialTyped, InOrder, Told, Unbroken, OverTor, Proxies, Waiting, Asked
<1>7. CASE pc' = "head" /\ sent' = Append(sent, Route!Request)
           /\ \E w \in Route!Replies : coming' = coming \o w
  <2>1. PICK w \in Route!Replies : coming' = coming \o w
    BY <1>7
  <2>2. w \in Seq(Nat) /\ coming \in Seq(Nat) /\ hung \in BOOLEAN /\ skip \in Nat
    BY RepliesTyped DEF DialInv, DialTyped
  <2>3. coming' \in Seq(Nat) /\ Fits(w, inbox', coming', hung)
    <3>1. inbox' \in Seq(Nat) /\ Fits(<<>>, inbox', coming, hung)
      BY <1>4, <1>5
    <3>2. coming' \in Seq(Nat)
      BY <2>1, <2>2, Joined
    <3>3. ASSUME Len(coming) = 0 PROVE coming' = w
      <4>1. /\ Len(coming \o w) = Len(coming) + Len(w) /\ coming \o w \in Seq(Nat)
            /\ \A i \in 1..Len(w) : (coming \o w)[Len(coming) + i] = w[i]
            /\ Len(w) \in Nat
        BY <2>2, Joined
      <4>2. Len(coming \o w) = Len(w) /\ \A i \in 1..Len(w) : (coming \o w)[i] = w[i]
        BY <3>3, <4>1
      <4>3. coming \o w = w
        BY <2>2, <4>1, <4>2, Same
      <4> QED
        BY <2>1, <4>3
    <3> QED
      BY <2>2, <3>1, <3>2, <3>3, Fresh
  <2>4. Unread("head", skip', w)
    BY <2>2 DEF Unread
  <2>5. sent' = <<"greeting", Route!Request>>
    <3>1. sent = <<"greeting">>
      BY <1>1 DEF DialInv, InOrder
    <3> QED
      BY <1>7, <3>1, Pair
  <2>6. \E x : Unread(pc', skip', x) /\ Fits(x, inbox', coming', hung)
    BY <1>7, <2>1, <2>3, <2>4
  <2> QED
    BY <1>1, <1>2, <1>4, <1>7, <2>1, <2>2, <2>3, <2>5, <2>6, ReadsOn
<1> QED
  BY <1>6, <1>7 DEF Route!Method

LEMMA StepReplyHead == ASSUME DialInv, Route!ReplyHead PROVE DialInv'
<1>1. /\ pc = "head" /\ Route!Reads(4)
      /\ UNCHANGED Route!frame /\ UNCHANGED <<egress, asked, sent, coming, hung>>
  BY DEF Route!ReplyHead
<1>2. pc \in Waiting /\ egress \in Proxies /\ sent = <<"greeting", Route!Request>>
  <2>1. pc \in Waiting /\ pc \in Asked
    BY <1>1 DEF Waiting, Asked
  <2>2. egress \in Proxies
    BY <2>1, PcUnread
  <2> QED
    BY <2>1, <2>2 DEF DialInv, Told
<1>3. PICK q : Unread(pc, skip, q) /\ Fits(q, inbox, coming, hung)
  BY <1>2, PcUnread
<1> DEFINE r == SubSeq(q, 4 + 1, Len(q))
<1>4. /\ inbox' \in Seq(Nat) /\ r \in Seq(Nat) /\ Fits(r, inbox', coming, hung)
      /\ inbox[2] = q[2] /\ inbox[4] = q[4]
  BY <1>1, <1>2, <1>3, ReadOn
<1>5. q \in Route!Replies /\ q \in Seq(Nat)
  BY <1>1, <1>3 DEF Unread
<1>6. /\ skip' = CASE q[4] = 1 -> 4 [] q[4] = 4 -> 16 [] OTHER -> 0
      /\ pc' = CASE q[2] # 0 \/ q[4] \notin {1, 3, 4} -> "failed"
                 [] q[2] = 0 /\ q[4] = 3 -> "length"
                 [] OTHER -> "tail"
  BY <1>4 DEF Route!ReplyHead
<1>7. skip' \in Nat
  <2>1. skip' \in {0, 4, 16}
    BY <1>6
  <2> QED
    BY <2>1
<1>8. CASE q[2] # 0 \/ q[4] \notin {1, 3, 4}
  <2>1. pc' = "failed"
    BY <1>6, <1>8
  <2> QED
    BY <1>1, <1>4, <1>7, <2>1, FrameKept
       DEF DialInv, DialTyped, InOrder, Told, Unbroken, OverTor, Proxies, Waiting, Asked
<1>9. CASE q[2] = 0 /\ q[4] \in {1, 3, 4}
  <2> DEFINE
    Is3 == \E n \in Lengths : SubSeq(q, 5, Len(q)) = <<n>> \o [i \in 1..n + 2 |-> 7] \o Stream
    Is1 == /\ Len(q) - 4 = 6 + Len(Stream)
           /\ \A i \in 1..Len(Stream) : q[10 + i] = Stream[i]
    Is4 == /\ Len(q) - 4 = 18 + Len(Stream)
           /\ \A i \in 1..Len(Stream) : q[22 + i] = Stream[i]
  <2>1. Len(q) >= 4 /\ (q[4] = 3 => Is3) /\ (q[4] = 1 => Is1) /\ (q[4] = 4 => Is4)
    BY <1>5, <1>9, ReplyRead
  <2> HIDE DEF Is1, Is3, Is4
  <2>2. /\ Len(r) = Len(q) - 4 /\ \A i \in 1..Len(q) - 4 : r[i] = q[4 + i]
    <3>1. q \in Seq(Nat) /\ 4 \in Nat /\ 4 <= Len(q)
      BY <1>5, <2>1
    <3> QED
      BY <3>1, Dropped
  <2>3. SubSeq(q, 5, Len(q)) = r
    OBVIOUS
  <2> HIDE DEF r
  <2>4. Unread(pc', skip', r) /\ pc' \in {"length", "tail"}
    <3>0. Len(Stream) \in Nat
      BY RouteAssumption
    <3>1. CASE q[4] = 3
      <4>1. pc' = "length"
        BY <1>6, <1>9, <3>1
      <4>2. \E l \in Lengths : r = <<l>> \o [i \in 1..l + 2 |-> 7] \o Stream
        BY <2>1, <2>3, <3>1 DEF Is3
      <4>3. Unread("length", skip', r)
        BY <1>4, <4>2 DEF Unread
      <4> QED
        BY <4>1, <4>3
    <3>2. CASE q[4] = 1
      <4>1. pc' = "tail" /\ skip' = 4
        BY <1>6, <1>9, <3>2
      <4>2. Len(r) = 4 + 2 + Len(Stream) /\ Len(q) - 4 = 6 + Len(Stream)
        BY <2>1, <2>2, <3>0, <3>2 DEF Is1
      <4>3. ASSUME NEW i \in 1..Len(Stream) PROVE r[4 + 2 + i] = Stream[i]
        <5>1. 4 + 2 + i \in 1..Len(q) - 4 /\ 4 + (4 + 2 + i) = 10 + i
          BY <3>0, <4>2
        <5>2. r[4 + 2 + i] = q[4 + (4 + 2 + i)]
          BY <2>2, <5>1
        <5>3. q[10 + i] = Stream[i]
          BY <2>1, <3>2 DEF Is1
        <5> QED
          BY <5>1, <5>2, <5>3
      <4>4. Unread("tail", 4, r)
        BY <1>4, <4>2, <4>3 DEF Unread
      <4> QED
        BY <4>1, <4>4
    <3>3. CASE q[4] = 4
      <4>1. pc' = "tail" /\ skip' = 16
        BY <1>6, <1>9, <3>3
      <4>2. Len(r) = 16 + 2 + Len(Stream) /\ Len(q) - 4 = 18 + Len(Stream)
        BY <2>1, <2>2, <3>0, <3>3 DEF Is4
      <4>3. ASSUME NEW i \in 1..Len(Stream) PROVE r[16 + 2 + i] = Stream[i]
        <5>1. 16 + 2 + i \in 1..Len(q) - 4 /\ 4 + (16 + 2 + i) = 22 + i
          BY <3>0, <4>2
        <5>2. r[16 + 2 + i] = q[4 + (16 + 2 + i)]
          BY <2>2, <5>1
        <5>3. q[22 + i] = Stream[i]
          BY <2>1, <3>3 DEF Is4
        <5> QED
          BY <5>1, <5>2, <5>3
      <4>4. Unread("tail", 16, r)
        BY <1>4, <4>2, <4>3 DEF Unread
      <4> QED
        BY <4>1, <4>4
    <3> QED
      BY <1>9, <3>1, <3>2, <3>3
  <2>5. coming' \in Seq(Nat) /\ \E x : Unread(pc', skip', x) /\ Fits(x, inbox', coming', hung)
    BY <1>1, <1>4, <2>4 DEF DialInv, DialTyped
  <2> QED
    BY <1>1, <1>2, <1>4, <1>7, <2>4, <2>5, ReadsOn
<1> QED
  BY <1>8, <1>9

LEMMA StepDomainLength == ASSUME DialInv, Route!DomainLength PROVE DialInv'
<1>1. /\ pc = "length" /\ Route!Reads(1) /\ skip' = inbox[1] /\ pc' = "tail"
      /\ UNCHANGED Route!frame /\ UNCHANGED <<egress, asked, sent, coming, hung>>
  BY DEF Route!DomainLength
<1>2. pc \in Waiting /\ sent = <<"greeting", Route!Request>>
  <2>1. pc \in Waiting /\ pc \in Asked
    BY <1>1 DEF Waiting, Asked
  <2> QED
    BY <2>1, PcUnread DEF DialInv, Told
<1>3. PICK q : Unread(pc, skip, q) /\ Fits(q, inbox, coming, hung)
  BY <1>2, PcUnread
<1> DEFINE r == SubSeq(q, 1 + 1, Len(q))
<1>4. /\ inbox' \in Seq(Nat) /\ r \in Seq(Nat) /\ Fits(r, inbox', coming, hung)
      /\ inbox[1] = q[1]
  BY <1>1, <1>2, <1>3, ReadOn
<1>5. PICK l \in Lengths : q = <<l>> \o [i \in 1..l + 2 |-> 7] \o Stream
  BY <1>1, <1>3 DEF Unread
<1>6. /\ l \in Nat /\ q[1] = l /\ Len(r) = l + 2 + Len(Stream)
      /\ \A i \in 1..Len(Stream) : r[l + 2 + i] = Stream[i]
  <2> DEFINE pad == [i \in 1..l + 2 |-> 7]
             a == <<l>> \o pad
  <2>1. /\ l \in Nat /\ pad \in Seq(Nat) /\ Len(pad) = l + 2
        /\ Stream \in Seq(Nat) /\ Len(Stream) \in Nat
    BY RouteAssumption
  <2>2. <<l>> \in Seq(Nat) /\ Len(<<l>>) = 1 /\ <<l>>[1] = l
    BY <2>1
  <2>3. q = a \o Stream
    BY <1>5
  <2> HIDE DEF pad
  <2>4. /\ a \in Seq(Nat) /\ Len(a) = 1 + (l + 2)
        /\ \A i \in 1..1 : a[i] = <<l>>[i]
    BY <2>1, <2>2, Joined
  <2>5. a[1] = l
    BY <2>2, <2>4
  <2> HIDE DEF a
  <2>6. /\ a \o Stream \in Seq(Nat) /\ Len(a \o Stream) = Len(a) + Len(Stream)
        /\ \A i \in 1..Len(a) : (a \o Stream)[i] = a[i]
        /\ \A i \in 1..Len(Stream) : (a \o Stream)[Len(a) + i] = Stream[i]
    BY <2>1, <2>4, Joined
  <2>n. Len(a) = l + 3 /\ Len(q) = l + 3 + Len(Stream) /\ 1 \in 1..Len(a) /\ 1 <= Len(q)
    <3>1. Len(a) = l + 3
      BY <2>1, <2>4
    <3>2. Len(q) = Len(a) + Len(Stream)
      BY <2>3, <2>6
    <3> QED
      BY <2>1, <3>1, <3>2
  <2>7. q \in Seq(Nat) /\ q[1] = l /\ \A i \in 1..Len(Stream) : q[l + 3 + i] = Stream[i]
    <3>1. q \in Seq(Nat)
      BY <2>3, <2>6
    <3>2. q[1] = a[1]
      <4>1. (a \o Stream)[1] = a[1]
        BY <2>6, <2>n
      <4> QED
        BY <2>3, <4>1
    <3>3. \A i \in 1..Len(Stream) : q[Len(a) + i] = Stream[i]
      BY <2>3, <2>6
    <3> QED
      BY <2>5, <2>n, <3>1, <3>2, <3>3
  <2>8. /\ Len(r) = Len(q) - 1 /\ \A i \in 1..Len(q) - 1 : r[i] = q[1 + i]
    <3>1. q \in Seq(Nat) /\ 1 \in Nat /\ 1 <= Len(q)
      BY <2>7, <2>n
    <3> QED
      BY <3>1, Dropped
  <2> HIDE DEF r
  <2>9. Len(r) = l + 2 + Len(Stream)
    <3>1. Len(r) = Len(q) - 1
      BY <2>8
    <3> QED
      BY <2>1, <2>n, <3>1
  <2>10. ASSUME NEW i \in 1..Len(Stream) PROVE r[l + 2 + i] = Stream[i]
    <3>1. l + 2 + i \in 1..Len(q) - 1 /\ 1 + (l + 2 + i) = l + 3 + i
      BY <2>1, <2>n
    <3>2. r[l + 2 + i] = q[1 + (l + 2 + i)]
      BY <2>8, <3>1
    <3>3. q[l + 3 + i] = Stream[i]
      BY <2>7
    <3> QED
      BY <3>1, <3>2, <3>3
  <2> QED
    BY <2>1, <2>7, <2>9, <2>10
<1> HIDE DEF r
<1>7. skip' = l
  BY <1>1, <1>4, <1>6
<1>8. Unread("tail", l, r)
  BY <1>4, <1>6 DEF Unread
<1>9. coming \in Seq(Nat) /\ \E x : Unread(pc', skip', x) /\ Fits(x, inbox', coming', hung)
  BY <1>1, <1>4, <1>7, <1>8 DEF DialInv, DialTyped
<1> QED
  BY <1>1, <1>2, <1>4, <1>6, <1>7, <1>9, ReadsOn

LEMMA StepBoundAddress == ASSUME DialInv, Route!BoundAddress PROVE DialInv'
<1>1. /\ pc = "tail" /\ Route!Reads(skip + 2) /\ pc' = "connected"
      /\ UNCHANGED Route!frame /\ UNCHANGED <<egress, asked, skip, sent, coming, hung>>
  BY DEF Route!BoundAddress, Route!Rest
<1>2. pc \in Waiting /\ sent = <<"greeting", Route!Request>>
  <2>1. pc \in Waiting /\ pc \in Asked
    BY <1>1 DEF Waiting, Asked
  <2> QED
    BY <2>1, PcUnread DEF DialInv, Told
<1>3. PICK q : Unread(pc, skip, q) /\ Fits(q, inbox, coming, hung)
  BY <1>2, PcUnread
<1>0. skip \in Nat /\ skip + 2 \in Nat /\ coming \in Seq(Nat)
  BY DEF DialInv, DialTyped
<1> DEFINE n == skip + 2
           r == SubSeq(q, n + 1, Len(q))
<1>4. /\ inbox' \in Seq(Nat) /\ r \in Seq(Nat) /\ Fits(r, inbox', coming, hung)
      /\ n <= Len(q)
  <2>1. n \in Nat /\ Route!Reads(n)
    BY <1>0, <1>1
  <2> HIDE DEF n
  <2> QED
    BY <1>2, <1>3, <2>1, ReadOn
<1>5. /\ q \in Seq(Nat) /\ Len(q) = n + Len(Stream)
      /\ \A i \in 1..Len(Stream) : q[n + i] = Stream[i]
  BY <1>1, <1>3 DEF Unread
<1> HIDE DEF n
<1>6. n \in Nat
  BY <1>0 DEF n
<1>7. Len(r) = Len(q) - n /\ \A i \in 1..Len(q) - n : r[i] = q[n + i]
  BY <1>4, <1>5, <1>6, Dropped
<1> HIDE DEF r
<1>8. Stream \in Seq(Nat) /\ Len(Stream) \in Nat
  BY RouteAssumption
<1>9. Len(q) - n = Len(Stream)
  <2>1. Len(q) = n + Len(Stream)
    BY <1>5
  <2> QED
    BY <1>6, <1>8, <2>1
<1>10. r = Stream
  <2>1. Len(r) = Len(Stream) /\ \A i \in 1..Len(Stream) : r[i] = Stream[i]
    BY <1>5, <1>7, <1>9
  <2> QED
    BY <1>4, <1>8, <2>1, Same
<1>11. Unread("connected", skip', r)
  BY <1>4, <1>10 DEF Unread
<1>12. \E x : Unread(pc', skip', x) /\ Fits(x, inbox', coming', hung)
  BY <1>1, <1>4, <1>11
<1> QED
  BY <1>0, <1>1, <1>2, <1>4, <1>12, ReadsOn

LEMMA DialStep == ASSUME DialInv, Route!Next PROVE DialInv'
BY StepOpenProxy, StepOpenDirect, StepMethod, StepReplyHead, StepDomainLength,
   StepBoundAddress, StepCutShort, StepTls, StepArrive, StepHangUp
   DEF Route!Next, Route!Client

LEMMA DialStays == ASSUME DialInv, UNCHANGED dial PROVE DialInv'
<1>1. UNCHANGED Route!frame
  BY DEF dial, Route!frame
<1>2. Unbroken'
  <2>1. UNCHANGED <<pc, egress, skip, inbox, coming, hung>>
    BY DEF dial
  <2> QED
    BY <2>1 DEF DialInv, Unbroken
<1> QED
  BY <1>1, <1>2, FrameKept DEF dial, DialInv, DialTyped, InOrder, Told, OverTor

LEMMA DialWhole ==
  ASSUME DialInv
  PROVE  Route!StreamIsWhole /\ Route!ProxyResolves /\ Route!TcpOnionStaysInTor
<1>1. Route!StreamIsWhole
  <2> SUFFICES ASSUME pc = "connected", egress \in Proxies
               PROVE  IF hung THEN Route!IsPrefix(inbox, Stream)
                      ELSE inbox \o coming = Stream
    BY DEF Route!StreamIsWhole, Route!Proxies, Proxies
  <2>1. Fits(Stream, inbox, coming, hung)
    BY DEF DialInv, Unbroken, Unread
  <2>2. inbox \in Seq(Nat) /\ coming \in Seq(Nat) /\ hung \in BOOLEAN
    BY DEF DialInv, DialTyped
  <2>3. Stream \in Seq(Nat) /\ Len(Stream) \in Nat /\ Len(inbox) \in Nat /\ Len(coming) \in Nat
    BY <2>2, RouteAssumption
  <2>4. Len(inbox) <= Len(Stream) /\ \A i \in 1..Len(inbox) : inbox[i] = Stream[i]
    BY <2>1 DEF Fits
  <2>5. CASE hung = TRUE
    <3> DEFINE f == SubSeq(Stream, 1, Len(inbox))
               g == SubSeq(inbox, 1, Len(inbox))
    <3>1. f \in Seq(Nat) /\ Len(f) = Len(inbox) /\ \A i \in 1..Len(inbox) : f[i] = Stream[i]
      BY <2>3, <2>4, Ahead
    <3>2. g \in Seq(Nat) /\ Len(g) = Len(inbox) /\ \A i \in 1..Len(inbox) : g[i] = inbox[i]
      BY <2>2, <2>3, Ahead
    <3> HIDE DEF f, g
    <3>3. Len(g) = Len(f) /\ \A i \in 1..Len(g) : g[i] = f[i]
      BY <2>4, <3>1, <3>2
    <3>4. g = f
      BY <3>1, <3>2, <3>3, Same
    <3>5. Route!IsPrefix(inbox, Stream)
      BY <2>4, <3>4 DEF Route!IsPrefix, f, g
    <3> QED
      BY <2>5, <3>5
  <2>6. CASE hung = FALSE
    <3>1. /\ Len(inbox) + Len(coming) = Len(Stream)
          /\ \A i \in 1..Len(coming) : coming[i] = Stream[Len(inbox) + i]
      BY <2>1, <2>6 DEF Fits
    <3> DEFINE j == inbox \o coming
    <3>2. /\ j \in Seq(Nat) /\ Len(j) = Len(inbox) + Len(coming)
          /\ \A i \in 1..Len(inbox) : j[i] = inbox[i]
          /\ \A i \in 1..Len(coming) : j[Len(inbox) + i] = coming[i]
      BY <2>2, Joined
    <3> HIDE DEF j
    <3>3. Len(j) = Len(Stream)
      BY <3>1, <3>2
    <3>4. ASSUME NEW i \in 1..Len(j) PROVE j[i] = Stream[i]
      <4>0. Len(j) = Len(inbox) + Len(coming)
        BY <3>2
      <4>1. CASE i <= Len(inbox)
        <5>1. i \in 1..Len(inbox)
          BY <2>3, <4>0, <4>1
        <5> QED
          BY <2>4, <3>2, <5>1
      <4>2. CASE i > Len(inbox)
        <5> DEFINE l == i - Len(inbox)
        <5>1. l \in 1..Len(coming) /\ i = Len(inbox) + l
          BY <2>3, <4>0, <4>2
        <5> HIDE DEF l
        <5>2. j[Len(inbox) + l] = coming[l] /\ coming[l] = Stream[Len(inbox) + l]
          BY <3>1, <3>2, <5>1
        <5> QED
          BY <5>1, <5>2
      <4> QED
        BY <2>3, <4>0, <4>1, <4>2
    <3>5. j = Stream
      BY <2>3, <3>2, <3>3, <3>4, Same
    <3> QED
      BY <2>6, <3>5 DEF j
  <2> QED
    BY <2>2, <2>5, <2>6
<1>2. Route!ProxyResolves
  BY DEF DialInv, Told, Asked, Proxies, Route!ProxyResolves, Route!Ready, Route!Proxies,
         Route!Request
<1>3. Route!TcpOnionStaysInTor
  BY DEF DialInv, OverTor, Route!TcpOnionStaysInTor
<1> QED
  BY <1>1, <1>2, <1>3

\* While another part moves, nothing of the dialling does.
DialHeld == part = "dial" => DialInv

LEMMA InitHeld == Init => DialHeld
BY InitDial DEF Init, DialHeld

LEMMA StepHeld == DialHeld /\ [Next]_all => DialHeld'
<1> SUFFICES ASSUME DialHeld, [Next]_all PROVE DialHeld'
  OBVIOUS
<1>1. CASE part = "dial" /\ Route!Next /\ UNCHANGED <<part, links, pages, keys, wasm>>
  BY <1>1, DialStep DEF DialHeld
<1>2. CASE UNCHANGED <<part, dial>>
  BY <1>2, DialStays DEF DialHeld
<1>3. CASE part' = part /\ part # "dial"
  BY <1>3 DEF DialHeld
<1> QED
  BY <1>1, <1>2, <1>3 DEF Next, all

\* However the proxy's bytes are cut into pieces, connect_via_socks reads its
\* whole reply and nothing of the destination's stream behind it; the proxy was
\* told the name, which the node did not look up; open_tcp takes .onion hosts
\* over Tor only.
THEOREM HandsOnWholeAlways == Spec => []HandsOnWhole
<1>1. Spec => Init /\ [][Next]_all
  BY PTL DEF Spec
<1>2. DialHeld => HandsOnWhole
  BY DialWhole DEF DialHeld, HandsOnWhole
<1> QED
  BY <1>1, <1>2, InitHeld, StepHeld, PTL

-----------------------------------------------------------------------------
\* Pages and their references (sw.js rewriteHtml, NAV_INTERCEPT, proxyFetch).

Steady == {"open", "load", "assign", "reload"}

\* An address on a site, meant or misread.
OnSite(a) ==
  /\ a.host # "shell" /\ a.path[1] \in {"plain", "misread"}
  /\ a = [host |-> a.host, path |-> a.path]

\* What the link l of a reference with this spelling reads, if the page that is
\* meant is m.
LinkReads(l, m, written) ==
  /\ l = Page!Proxied(l.path[2])
  /\ \/ l.path[2].host = "shell"
     \/ OnSite(l.path[2]) /\ (written # "misread" => l.path[2] = m)

\* How a frame may be sent to another host.
MayLeave(way, form, written) ==
  (form = "host" \/ written = "unseen") /\ way \in {"assign", "submit"}

Sure(way, form, written) == way \in Steady /\ form = "absolute" /\ written = "bare"

\* A request that is on its way.
OnItsWay(g) ==
  /\ DOMAIN g = {"way", "nav", "form", "written", "meant", "addr", "hops"}
  /\ OnSite(g.meant) /\ g.nav \in BOOLEAN
  /\ ~g.nav => doc.kind = "page"
  /\ g.addr.host = "shell" /\ g.addr.path[1] = "wisp" => LinkReads(g.addr, g.meant, g.written)
  /\ engine = "worker" /\ g.nav /\ g.addr.host # "shell" =>
       g.hops = 1 \/ MayLeave(g.way, g.form, g.written)
  /\ engine = "worker" /\ Sure(g.way, g.form, g.written) /\ g.hops = 0 =>
       g.addr = Page!Proxied(g.meant)

ShownIsKnown ==
  doc.kind = "page" => OnSite(doc.of) /\ frame = Page!Proxied(doc.of)

PageInv ==
  /\ engine \in {"worker", "rust"}
  /\ ShownIsKnown
  /\ going # Page!Idle => OnItsWay(going)
  /\ Page!AbsoluteComesBack /\ Page!NothingMistaken /\ Page!LeavesFewWays

LEMMA AddressIs ==
  ASSUME NEW a \in Page!Addresses
  PROVE  /\ a.host # "shell" /\ a.path[1] = "plain" /\ OnSite(a)
         /\ OnSite(Page!Misread(a))
<1>1. PICK h \in Sites, p \in Paths : a = Page!Plain(h, p)
  BY DEF Page!Addresses
<1>2. a = [host |-> h, path |-> <<"plain", p>>] /\ h # "shell"
  BY <1>1, SitesAssumption DEF Page!Plain
<1>3. a.host = h /\ a.path[1] = "plain" /\ a = [host |-> a.host, path |-> a.path]
  BY <1>2
<1>4. Page!Misread(a) = [host |-> h, path |-> <<"misread", a.path>>]
  BY <1>3 DEF Page!Misread
<1>5. OnSite(Page!Misread(a))
  BY <1>2, <1>4 DEF OnSite
<1> QED
  BY <1>2, <1>3, <1>5 DEF OnSite

LEMMA ProxiedIs ==
  ASSUME NEW a
  PROVE  /\ Page!Proxied(a).host = "shell" /\ Page!Proxied(a).path[1] = "wisp"
         /\ Page!Proxied(a).path[2] = a /\ Page!Proxied(a).path = <<"wisp", a>>
         /\ Page!Proxied(a) = [host |-> "shell", path |-> <<"wisp", a>>]
BY DEF Page!Proxied

LEMMA TailedIs ==
  ASSUME NEW a
  PROVE  /\ Page!Tailed(a).host = "shell" /\ Page!Tailed(a).path[1] = "tailed"
         /\ Page!Tailed(a).path = <<"tailed", a>>
BY DEF Page!Tailed

LEMMA RawIs ==
  ASSUME NEW a
  PROVE  /\ Page!Raw(a).host = "shell" /\ Page!Raw(a).path[1] = "raw"
         /\ Page!Raw(a).path = <<"raw", a>>
BY DEF Page!Raw

LEMMA RefIs ==
  ASSUME NEW a, NEW r \in Page!Refs(a)
  PROVE  /\ r.form \in {"absolute", "host", "root", "relative"}
         /\ r.to \in Page!Addresses
         /\ r.written \in {"bare", "misread", "cut", "unseen"}
         /\ r = [form |-> r.form, to |-> r.to, text |-> r.text, written |-> r.written]
BY DEF Page!Refs

\* The <base> tag of a page ends up as the link of the page itself.
LEMMA BaseIs == ASSUME NEW a PROVE Page!Base(a) = Page!Proxied(a)
<1> DEFINE f == [form |-> "absolute", to |-> a, text |-> "markup", written |-> "bare"]
           g == Page!WorkerText(f)
<1>1. g = [form |-> "root", to |-> Page!Proxied(a), text |-> "markup", written |-> "bare"]
  BY DEF Page!WorkerText, Page!Linked
<1>2. g.form = "root" /\ g.to = Page!Proxied(a)
  BY <1>1
<1> HIDE DEF g
<1>3. Page!Resolve(Page!Proxied(a), g) = [host |-> Page!Proxied(a).host, path |-> Page!Proxied(a).path]
  BY <1>2 DEF Page!Resolve
<1>4. Page!Base(a) = Page!Resolve(Page!Proxied(a), g)
  BY DEF Page!Base, g
<1> QED
  BY <1>3, <1>4, ProxiedIs

\* Where the browser goes from a link, by the form of the reference.
LEMMA ResolvedIs ==
  ASSUME NEW a, NEW r
  PROVE  /\ r.form \in {"absolute", "host"} => Page!Resolve(Page!Proxied(a), r) = r.to
         /\ r.form = "root" =>
              Page!Resolve(Page!Proxied(a), r) = [host |-> "shell", path |-> r.to.path]
         /\ r.form = "relative" =>
              Page!Resolve(Page!Proxied(a), r) = Page!Raw(r.to.path[2])
<1>1. ASSUME r.form \in {"absolute", "host"} PROVE Page!Resolve(Page!Proxied(a), r) = r.to
  BY <1>1 DEF Page!Resolve
<1>2. ASSUME r.form = "root"
      PROVE  Page!Resolve(Page!Proxied(a), r) = [host |-> "shell", path |-> r.to.path]
  BY <1>2, ProxiedIs DEF Page!Resolve
<1>3. ASSUME r.form = "relative"
      PROVE  Page!Resolve(Page!Proxied(a), r) = Page!Raw(r.to.path[2])
  BY <1>3, ProxiedIs DEF Page!Resolve
<1> QED
  BY <1>1, <1>2, <1>3

\* The text of a reference once it was rewritten.
LEMMA RewrittenIs ==
  ASSUME engine \in {"worker", "rust"}, NEW r \in Page!Refs(doc.of)
  PROVE  LET w == Page!Rewritten(r) IN
         \/ w = r /\ ~(engine = "worker" /\ r.form = "absolute" /\ r.written # "unseen")
         \/ engine = "worker" /\ w.form = "root" /\ w.to = Page!Linked(r) /\ r.written # "unseen"
         \/ engine = "rust" /\ w.form = "root" /\ w.to = Page!Raw(r.to.path[2])
<1> DEFINE w == Page!Rewritten(r)
<1>1. /\ r.form \in {"absolute", "host", "root", "relative"}
      /\ r = [form |-> r.form, to |-> r.to, text |-> r.text, written |-> r.written]
  BY RefIs
<1>2. CASE engine = "worker" /\ r.form = "absolute" /\ r.written # "unseen"
  <2>1. w = [form |-> "root", to |-> Page!Linked(r), text |-> r.text, written |-> r.written]
    BY <1>1, <1>2 DEF Page!Rewritten, Page!WorkerText
  <2> QED
    BY <1>2, <2>1
<1>3. CASE engine = "worker" /\ ~ (r.form = "absolute" /\ r.written # "unseen")
  BY <1>3 DEF Page!Rewritten, Page!WorkerText
<1>4. CASE engine = "rust"
  <2>1. w = Page!RustText(r)
    BY <1>4 DEF Page!Rewritten
  <2>2. w = r \/ w = [r EXCEPT !.form = "root", !.to = Page!Raw(r.to.path[2])]
    BY <2>1 DEF Page!RustText
  <2>3. /\ [r EXCEPT !.form = "root", !.to = Page!Raw(r.to.path[2])].form = "root"
        /\ [r EXCEPT !.form = "root", !.to = Page!Raw(r.to.path[2])].to
             = Page!Raw(r.to.path[2])
    <3>1. r \in [form : {"absolute", "host", "root", "relative"}, to : Page!Addresses,
                 text : {"markup", "script", "style"},
                 written : {"bare", "misread", "cut", "unseen"}]
      BY DEF Page!Refs
    <3> QED
      BY <3>1
  <2> QED
    BY <1>4, <2>2, <2>3
<1> QED
  BY <1>2, <1>3, <1>4

\* Where the link of an absolute address leads.
LEMMA LinkedIs ==
  ASSUME NEW m \in Page!Addresses, NEW r, r.to = m,
         NEW h, h = [host |-> "shell", path |-> Page!Linked(r).path]
  PROVE  /\ h.host = "shell" /\ (h.path[1] = "wisp" => LinkReads(h, m, r.written))
         /\ r.written = "bare" => h = Page!Proxied(m)
<1>1. OnSite(m) /\ OnSite(Page!Misread(m))
  BY AddressIs
<1>2. CASE r.written = "misread"
  <2>1. Page!Linked(r) = Page!Proxied(Page!Misread(m))
    BY <1>2 DEF Page!Linked
  <2>2. h = Page!Proxied(Page!Misread(m))
    BY <2>1, ProxiedIs
  <2>3. h.host = "shell" /\ h.path[2] = Page!Misread(m)
    BY <2>2, ProxiedIs
  <2> QED
    BY <1>1, <1>2, <2>2, <2>3 DEF LinkReads
<1>3. CASE r.written = "cut"
  <2>1. Page!Linked(r) = Page!Tailed(m)
    BY <1>3 DEF Page!Linked
  <2>2. h.host = "shell" /\ h.path[1] = "tailed"
    BY <2>1, TailedIs
  <2> QED
    BY <1>3, <2>2
<1>4. CASE r.written \notin {"misread", "cut"}
  <2>1. Page!Linked(r) = Page!Proxied(m)
    BY <1>4 DEF Page!Linked
  <2>2. h = Page!Proxied(m)
    BY <2>1, ProxiedIs
  <2>3. h.host = "shell" /\ h.path[2] = m
    BY <2>2, ProxiedIs
  <2> QED
    BY <1>1, <2>2, <2>3 DEF LinkReads
<1> QED
  BY <1>2, <1>3, <1>4

\* Where a reference of a page that is shown leads.
LEMMA HrefIs ==
  ASSUME engine \in {"worker", "rust"}, NEW r \in Page!Refs(doc.of)
  PROVE  LET h == Page!Href(r) IN
         /\ h.host = "shell" /\ h.path[1] = "wisp" => LinkReads(h, r.to, r.written)
         /\ h.host # "shell" => h = r.to
         /\ engine = "worker" /\ r.form = "absolute" /\ r.written = "bare" => h = Page!Proxied(r.to)
         /\ engine = "worker" /\ h.host # "shell" => r.form = "host" \/ r.written = "unseen"
<1> DEFINE w == Page!Rewritten(r)
           h == Page!Href(r)
<1>1. /\ r.form \in {"absolute", "host", "root", "relative"}
      /\ r.to \in Page!Addresses
  BY RefIs
<1>2. r.to.host # "shell" /\ r.to.path[1] = "plain"
  BY <1>1, AddressIs
<1>3. h = Page!Resolve(Page!Proxied(doc.of), w)
  BY BaseIs DEF Page!Href
<1>7. \/ w = r /\ ~(engine = "worker" /\ r.form = "absolute" /\ r.written # "unseen")
      \/ engine = "worker" /\ w.form = "root" /\ w.to = Page!Linked(r) /\ r.written # "unseen"
      \/ engine = "rust" /\ w.form = "root" /\ w.to = Page!Raw(r.to.path[2])
  BY RewrittenIs
<1> HIDE DEF w, h
<1>4. CASE w = r /\ ~(engine = "worker" /\ r.form = "absolute" /\ r.written # "unseen")
  <2>0. ~(engine = "worker" /\ r.form = "absolute" /\ r.written = "bare")
    BY <1>4
  <2>1. CASE r.form \in {"absolute", "host"}
    <3>1. h = r.to
      BY <1>3, <1>4, <2>1, ResolvedIs
    <3>2. engine = "worker" => r.form = "host" \/ r.written = "unseen"
      BY <1>4, <2>1
    <3> QED
      BY <1>2, <2>0, <3>1, <3>2 DEF h
  <2>2. CASE r.form = "root"
    <3>1. h = [host |-> "shell", path |-> r.to.path]
      BY <1>3, <1>4, <2>2, ResolvedIs
    <3>2. h.host = "shell" /\ h.path[1] = "plain"
      BY <1>2, <3>1
    <3> QED
      BY <2>2, <3>2 DEF h
  <2>3. CASE r.form = "relative"
    <3>1. h = Page!Raw(r.to.path[2])
      BY <1>3, <1>4, <2>3, ResolvedIs
    <3>2. h.host = "shell" /\ h.path[1] = "raw"
      BY <3>1, RawIs
    <3> QED
      BY <2>3, <3>2 DEF h
  <2> QED
    BY <1>1, <2>1, <2>2, <2>3
<1>5. CASE engine = "worker" /\ w.form = "root" /\ w.to = Page!Linked(r) /\ r.written # "unseen"
  <2>1. h = [host |-> "shell", path |-> Page!Linked(r).path]
    BY <1>3, <1>5, ResolvedIs
  <2>2. /\ h.host = "shell" /\ (h.path[1] = "wisp" => LinkReads(h, r.to, r.written))
        /\ r.written = "bare" => h = Page!Proxied(r.to)
    BY <1>1, <2>1, LinkedIs
  <2> QED
    BY <2>2 DEF h
<1>6. CASE engine = "rust" /\ w.form = "root" /\ w.to = Page!Raw(r.to.path[2])
  <2>1. h = [host |-> "shell", path |-> Page!Raw(r.to.path[2]).path]
    BY <1>3, <1>6, ResolvedIs
  <2>2. h.host = "shell" /\ h.path[1] = "raw"
    BY <2>1, RawIs
  <2> QED
    BY <1>6, <2>2 DEF h
<1> QED
  BY <1>4, <1>5, <1>6, <1>7 DEF h

LEMMA Kept ==
  ASSUME PageInv, UNCHANGED <<engine, frame, doc, last>>
  PROVE  /\ engine' \in {"worker", "rust"} /\ ShownIsKnown'
         /\ Page!AbsoluteComesBack' /\ Page!NothingMistaken' /\ Page!LeavesFewWays'
BY DEF PageInv, ShownIsKnown, Page!AbsoluteComesBack, Page!NothingMistaken,
       Page!LeavesFewWays, Page!Answered, Page!ComesBack

\* A request sets out.
LEMMA SetsOut ==
  ASSUME PageInv, UNCHANGED <<engine, frame, doc, last>>,
         NEW way, NEW nav \in BOOLEAN, NEW r, OnSite(r.to), NEW a,
         Page!Go(way, nav, r, a),
         ~nav => doc.kind = "page",
         a.host = "shell" /\ a.path[1] = "wisp" => LinkReads(a, r.to, r.written),
         engine = "worker" /\ nav /\ a.host # "shell" => MayLeave(way, r.form, r.written),
         engine = "worker" /\ Sure(way, r.form, r.written) => a = Page!Proxied(r.to)
  PROVE  PageInv'
<1>1. /\ going' = [way |-> way, nav |-> nav, form |-> r.form, written |-> r.written,
                   meant |-> r.to, addr |-> a, hops |-> 0]
      /\ going'.way = way /\ going'.nav = nav /\ going'.form = r.form
      /\ going'.written = r.written /\ going'.meant = r.to
      /\ going'.addr = a /\ going'.hops = 0
  BY DEF Page!Go
<1>2. engine' = engine /\ doc' = doc
  OBVIOUS
<1>3. DOMAIN going' = {"way", "nav", "form", "written", "meant", "addr", "hops"}
  BY <1>1
<1>4. OnItsWay(going)'
  <2> HIDE DEF Page!Go
  <2>1. OnSite(going'.meant) /\ going'.nav \in BOOLEAN /\ (~going'.nav => doc'.kind = "page")
    BY <1>1, <1>2
  <2>2. going'.addr.host = "shell" /\ going'.addr.path[1] = "wisp" =>
          LinkReads(going'.addr, going'.meant, going'.written)
    BY <1>1
  <2>3. engine' = "worker" /\ going'.nav /\ going'.addr.host # "shell" =>
          MayLeave(going'.way, going'.form, going'.written)
    BY <1>1, <1>2
  <2>4. engine' = "worker" /\ Sure(going'.way, going'.form, going'.written) =>
          going'.addr = Page!Proxied(going'.meant)
    BY <1>1, <1>2
  <2> QED
    BY <1>3, <2>1, <2>2, <2>3, <2>4
       DEF OnItsWay, OnSite, LinkReads, MayLeave, Sure, Page!Proxied
<1> QED
  BY <1>4, Kept DEF PageInv

LEMMA StepOpen ==
  ASSUME PageInv, NEW a \in Page!Addresses, Page!Open(a)
  PROVE  PageInv'
<1> DEFINE r == Page!Itself(a)
           h == Page!Proxied(a)
<1>1. Page!Go("open", TRUE, r, h) /\ UNCHANGED <<engine, frame, doc, last>>
  BY DEF Page!Open
<1>2. h.host = "shell" /\ h.path[2] = a
  BY ProxiedIs
<1>3. r.to = a /\ OnSite(a)
  BY AddressIs DEF Page!Itself
<1>4. LinkReads(h, r.to, r.written)
  BY <1>2, <1>3 DEF LinkReads
<1>5. h = Page!Proxied(r.to)
  BY <1>3
<1> HIDE DEF r, h
<1> QED
  BY <1>1, <1>2, <1>3, <1>4, <1>5, SetsOut

LEMMA StepReload == ASSUME PageInv, Page!Reload PROVE PageInv'
<1> DEFINE r == Page!Itself(doc.of)
<1>1. /\ doc.kind = "page" /\ Page!Go("reload", TRUE, r, frame)
      /\ UNCHANGED <<engine, frame, doc, last>>
  BY DEF Page!Reload, Page!OnPage
<1>2. OnSite(doc.of) /\ frame = Page!Proxied(doc.of)
  BY <1>1 DEF PageInv, ShownIsKnown
<1>3. frame.host = "shell" /\ frame.path[2] = doc.of
  BY <1>2, ProxiedIs
<1>4. r.to = doc.of
  BY DEF Page!Itself
<1>5. LinkReads(frame, r.to, r.written)
  BY <1>2, <1>3, <1>4 DEF LinkReads
<1> HIDE DEF r
<1> QED
  BY <1>1, <1>2, <1>3, <1>4, <1>5, SetsOut

\* What the actions of a page have in common.
LEMMA Follows ==
  ASSUME PageInv, Page!OnPage, NEW r \in Page!Refs(doc.of)
  PROVE  /\ doc.kind = "page" /\ OnSite(r.to) /\ r.to.path[1] = "plain"
         /\ Page!Href(r).host = "shell" /\ Page!Href(r).path[1] = "wisp" =>
              LinkReads(Page!Href(r), r.to, r.written)
         /\ Page!Href(r).host # "shell" => Page!Href(r) = r.to
         /\ engine = "worker" /\ r.form = "absolute" /\ r.written = "bare" =>
              Page!Href(r) = Page!Proxied(r.to)
         /\ engine = "worker" /\ Page!Href(r).host # "shell" =>
              r.form = "host" \/ r.written = "unseen"
<1>1. doc.kind = "page" /\ engine \in {"worker", "rust"}
  BY DEF Page!OnPage, PageInv
<1>2. OnSite(r.to) /\ r.to.path[1] = "plain"
  BY RefIs, AddressIs
<1> QED
  BY <1>1, <1>2, HrefIs

LEMMA StepLoad ==
  ASSUME PageInv, NEW r \in Page!Refs(doc.of), Page!Load(r)
  PROVE  PageInv'
<1> DEFINE h == Page!Href(r)
<1>1. /\ Page!OnPage /\ Page!Go("load", FALSE, r, h)
      /\ UNCHANGED <<engine, frame, doc, last>>
  BY DEF Page!Load
<1>2. /\ doc.kind = "page" /\ OnSite(r.to)
      /\ h.host = "shell" /\ h.path[1] = "wisp" => LinkReads(h, r.to, r.written)
      /\ engine = "worker" /\ r.form = "absolute" /\ r.written = "bare" => h = Page!Proxied(r.to)
  BY <1>1, Follows
<1> HIDE DEF h
<1> QED
  BY <1>1, <1>2, SetsOut DEF Sure

LEMMA StepAssign ==
  ASSUME PageInv, NEW r \in Page!Refs(doc.of), Page!Assign(r)
  PROVE  PageInv'
<1> DEFINE h == Page!Href(r)
<1>1. /\ Page!OnPage /\ Page!Go("assign", TRUE, r, h)
      /\ UNCHANGED <<engine, frame, doc, last>>
  BY DEF Page!Assign
<1>2. /\ OnSite(r.to)
      /\ h.host = "shell" /\ h.path[1] = "wisp" => LinkReads(h, r.to, r.written)
      /\ engine = "worker" /\ r.form = "absolute" /\ r.written = "bare" => h = Page!Proxied(r.to)
      /\ engine = "worker" /\ h.host # "shell" => r.form = "host" \/ r.written = "unseen"
  BY <1>1, Follows
<1> HIDE DEF h
<1> QED
  BY <1>1, <1>2, SetsOut DEF Sure, MayLeave

\* A click puts the link of what it leads to behind the prefix: that is the
\* page that was meant only where the reference was left alone.
LEMMA StepClick ==
  ASSUME PageInv, NEW r \in Page!Refs(doc.of), Page!Click(r)
  PROVE  PageInv'
<1> DEFINE h == Page!Href(r)
           c == Page!Proxied(h)
<1>1. /\ Page!OnPage /\ Page!Go("click", TRUE, r, c)
      /\ UNCHANGED <<engine, frame, doc, last>>
  BY DEF Page!Click, Page!Intercepted
<1>2. OnSite(r.to) /\ (h.host = "shell" \/ h = r.to)
  BY <1>1, Follows
<1>3. c.host = "shell" /\ c.path[2] = h /\ c = Page!Proxied(c.path[2])
  BY ProxiedIs
<1> HIDE DEF h, c
<1>4. LinkReads(c, r.to, r.written)
  BY <1>2, <1>3 DEF LinkReads
<1>5. ~ Sure("click", r.form, r.written)
  BY DEF Sure, Steady
<1> QED
  BY <1>1, <1>2, <1>3, <1>4, <1>5, SetsOut

LEMMA StepSubmit ==
  ASSUME PageInv, NEW r \in Page!Refs(doc.of), Page!Submit(r)
  PROVE  PageInv'
<1> DEFINE h == Page!Href(r)
           c == Page!Queried(h)
<1>1. /\ Page!OnPage /\ Page!Go("submit", TRUE, r, c)
      /\ UNCHANGED <<engine, frame, doc, last>>
  BY DEF Page!Submit
<1>2. /\ OnSite(r.to) /\ r.to.path[1] = "plain"
      /\ h.host # "shell" => h = r.to
      /\ engine = "worker" /\ h.host # "shell" => r.form = "host" \/ r.written = "unseen"
  BY <1>1, Follows
<1> HIDE DEF h
<1>3. ~ Sure("submit", r.form, r.written)
  BY DEF Sure, Steady
<1>4. CASE h.path[1] # "wisp"
  <2>1. c = h
    BY <1>4 DEF Page!Queried
  <2> HIDE DEF c
  <2> QED
    BY <1>1, <1>2, <1>3, <1>4, <2>1, SetsOut DEF MayLeave
<1>5. CASE h.path[1] = "wisp"
  <2>1. c = Page!Tailed(h.path[2])
    BY <1>5 DEF Page!Queried
  <2> HIDE DEF c
  <2>2. c.host = "shell" /\ c.path[1] = "tailed"
    BY <2>1, TailedIs
  <2> QED
    BY <1>1, <1>2, <1>3, <2>2, SetsOut
<1> QED
  BY <1>4, <1>5

\* An answer: it is the page that was meant, or none; no frame leaves the worker
\* but where the request did.
LEMMA Answers ==
  ASSUME PageInv, going # Page!Idle, NEW kind, NEW a, Page!Got(kind, a),
         kind = "page" => /\ going.addr = Page!Proxied(a) /\ OnSite(a)
                          /\ going.written # "misread" => a = going.meant,
         kind = "outside" => going.nav /\ going.addr.host # "shell",
         engine = "worker" /\ Sure(going.way, going.form, going.written) /\ going.hops = 0 =>
           kind \in {"failed", "page"}
  PROVE  PageInv'
<1>1. OnItsWay(going) /\ engine \in {"worker", "rust"} /\ engine' = engine
  BY DEF PageInv, Page!Got
<1>2. /\ last'.way = going.way /\ last'.form = going.form /\ last'.meant = going.meant
      /\ last'.written = going.written
      /\ last'.hops = going.hops /\ last'.got = [kind |-> kind, of |-> a]
      /\ last'.got.kind = kind /\ last'.got.of = a
      /\ going' = Page!Idle
  BY DEF Page!Got
<1>3. OnSite(going.meant) /\ going.nav \in BOOLEAN
  BY <1>1 DEF OnItsWay
<1>4. Page!AbsoluteComesBack'
  <2> SUFFICES ASSUME engine = "worker", going.way \in Steady, kind # "failed",
                      going.form = "absolute", going.written = "bare", going.hops = 0
               PROVE  [kind |-> kind, of |-> a] = [kind |-> "page", of |-> going.meant]
    BY <1>1, <1>2 DEF Page!AbsoluteComesBack, Page!Answered, Page!ComesBack, Steady
  <2>1. kind = "page"
    BY DEF Sure
  <2> QED
    BY <2>1
<1>5. Page!NothingMistaken'
  BY <1>2 DEF Page!NothingMistaken
<1>6. CASE going.nav = TRUE
  <2>1. /\ frame' = going.addr /\ doc' = [kind |-> kind, of |-> a]
        /\ doc'.kind = kind /\ doc'.of = a
    BY <1>6 DEF Page!Got
  <2>2. ShownIsKnown'
    BY <1>3, <2>1 DEF ShownIsKnown
  <2>3. Page!LeavesFewWays'
    <3> SUFFICES ASSUME engine = "worker", kind = "outside"
                 PROVE  going.hops = 1 \/ MayLeave(going.way, going.form, going.written)
      BY <1>1, <1>2, <2>1 DEF Page!LeavesFewWays, MayLeave
    <3> QED
      BY <1>1 DEF OnItsWay
  <2> QED
    BY <1>1, <1>2, <1>4, <1>5, <2>2, <2>3 DEF PageInv
<1>7. CASE going.nav = FALSE
  <2>1. frame' = frame /\ doc' = doc /\ doc.kind = "page"
    BY <1>1, <1>7 DEF Page!Got, OnItsWay
  <2>2. ShownIsKnown' /\ Page!LeavesFewWays'
    BY <2>1 DEF PageInv, ShownIsKnown, Page!LeavesFewWays
  <2> QED
    BY <1>1, <1>2, <1>4, <1>5, <2>2 DEF PageInv
<1> QED
  BY <1>3, <1>6, <1>7

\* What the worker reads out of the address of a request.
LEMMA TargetIs ==
  ASSUME PageInv, Page!ToWorker
  PROVE  /\ going # Page!Idle /\ going.addr.host = "shell" /\ OnItsWay(going)
         /\ Page!Target(going.addr) =
              IF going.addr.path[1] = "wisp" THEN {going.addr.path[2]} ELSE {}
BY DEF PageInv, Page!ToWorker, Page!Target

LEMMA SteadyTarget ==
  ASSUME PageInv, going # Page!Idle, engine = "worker",
         Sure(going.way, going.form, going.written), going.hops = 0
  PROVE  /\ going.addr.host = "shell" /\ going.addr.path[1] = "wisp"
         /\ going.addr.path[2] = going.meant /\ going.meant.host # "shell"
<1>1. going.addr = Page!Proxied(going.meant) /\ OnSite(going.meant)
  BY DEF PageInv, OnItsWay
<1> QED
  BY <1>1, ProxiedIs DEF OnSite

LEMMA StepMalformed == ASSUME PageInv, Page!Malformed PROVE PageInv'
<1>1. /\ Page!ToWorker /\ Page!Target(going.addr) = {}
      /\ Page!Got("malformed", going.addr)
  BY DEF Page!Malformed
<1>2. going # Page!Idle /\ going.addr.path[1] # "wisp"
  BY <1>1, TargetIs
<1>3. ~(engine = "worker" /\ Sure(going.way, going.form, going.written) /\ going.hops = 0)
  BY <1>2, SteadyTarget
<1> QED
  BY <1>1, <1>2, <1>3, Answers

LEMMA StepDeliver == ASSUME PageInv, Page!Deliver PROVE PageInv'
<1>1. PICK a \in Page!Target(going.addr) :
        Page!Got(IF a.host = "shell" THEN "server" ELSE "page", a)
  BY DEF Page!Deliver
<1>2. /\ going # Page!Idle /\ going.addr.host = "shell" /\ OnItsWay(going)
      /\ going.addr.path[1] = "wisp" /\ a = going.addr.path[2]
  BY <1>1, TargetIs DEF Page!Deliver
<1>3. /\ going.addr = Page!Proxied(a)
      /\ a.host = "shell" \/ (OnSite(a) /\ (going.written # "misread" => a = going.meant))
  BY <1>2 DEF OnItsWay, LinkReads
<1> DEFINE kind == IF a.host = "shell" THEN "server" ELSE "page"
<1>4. /\ Page!Got(kind, a)
      /\ kind = "page" => OnSite(a) /\ (going.written # "misread" => a = going.meant)
      /\ kind # "outside"
  BY <1>1, <1>3
<1>5. ASSUME engine = "worker" /\ Sure(going.way, going.form, going.written) /\ going.hops = 0
      PROVE  kind = "page"
  BY <1>2, <1>5, SteadyTarget
<1> HIDE DEF kind
<1> QED
  BY <1>2, <1>3, <1>4, <1>5, Answers

LEMMA StepFailed == ASSUME PageInv, Page!Failed PROVE PageInv'
<1>1. PICK a \in Page!Target(going.addr) : Page!Got("failed", a)
  BY DEF Page!Failed
<1>2. going # Page!Idle
  BY TargetIs DEF Page!Failed
<1> QED
  BY <1>1, <1>2, Answers

LEMMA StepMirrored == ASSUME PageInv, Page!Mirrored PROVE PageInv'
<1> DEFINE kind == IF going.addr.host = "shell" THEN "server"
                   ELSE IF going.nav THEN "outside" ELSE "direct"
<1>1. going # Page!Idle /\ ~Page!ToWorker /\ Page!Got(kind, going.addr)
  BY DEF Page!Mirrored
<1>2. /\ kind # "page"
      /\ kind = "outside" => going.nav /\ going.addr.host # "shell"
  OBVIOUS
<1>3. ~(engine = "worker" /\ Sure(going.way, going.form, going.written) /\ going.hops = 0)
  BY <1>1, SteadyTarget DEF Page!ToWorker
<1> HIDE DEF kind
<1> QED
  BY <1>1, <1>2, <1>3, Answers

\* A redirect is followed once; where it leads is no link of this proxy.
LEMMA StepRedirected == ASSUME PageInv, Page!Redirected PROVE PageInv'
<1>0. PICK a \in Page!Target(going.addr) : \E r \in Page!Refs(a) :
        /\ a.host # "shell"
        /\ \E next \in {Page!ThroughTunnel(going.addr, a, r), Page!Locally(a)} :
             going' = [going EXCEPT !.addr = next, !.meant = r.to, !.hops = 1]
  BY DEF Page!Redirected
<1>r. PICK r \in Page!Refs(a) :
        /\ a.host # "shell"
        /\ \E next \in {Page!ThroughTunnel(going.addr, a, r), Page!Locally(a)} :
             going' = [going EXCEPT !.addr = next, !.meant = r.to, !.hops = 1]
  BY <1>0
<1>1. PICK next \in {Page!ThroughTunnel(going.addr, a, r), Page!Locally(a)} :
        /\ a.host # "shell"
        /\ going' = [going EXCEPT !.addr = next, !.meant = r.to, !.hops = 1]
  BY <1>r
<1>2. Page!ToWorker /\ UNCHANGED <<engine, frame, doc, last>>
  BY DEF Page!Redirected
<1>3. /\ OnItsWay(going) /\ going.addr.host = "shell"
      /\ going.addr.path[1] = "wisp" /\ a = going.addr.path[2]
  BY <1>1, <1>2, TargetIs
<1>4. going.addr = Page!Proxied(a) /\ OnSite(a)
  BY <1>1, <1>3 DEF OnItsWay, LinkReads
<1>5. /\ OnSite(r.to) /\ r.form \in {"absolute", "host", "root", "relative"}
      /\ r.to.path[1] = "plain" /\ a.path[1] # "wisp"
  BY <1>4, RefIs, AddressIs DEF OnSite
<1>6. next.path[1] # "wisp"
  <2>1. CASE next = a
    BY <1>5, <2>1
  <2>2. CASE next = Page!Resolve(Page!Proxied(a), r)
    <3>1. CASE r.form \in {"absolute", "host"}
      <4>1. next = r.to
        BY <2>2, <3>1, ResolvedIs
      <4> QED
        BY <1>5, <4>1
    <3>2. CASE r.form = "root"
      <4>1. next = [host |-> "shell", path |-> r.to.path]
        BY <2>2, <3>2, ResolvedIs
      <4> QED
        BY <1>5, <4>1
    <3>3. CASE r.form = "relative"
      <4>1. next = Page!Raw(r.to.path[2])
        BY <2>2, <3>3, ResolvedIs
      <4> QED
        BY <4>1, RawIs
    <3> QED
      BY <1>5, <3>1, <3>2, <3>3
  <2> QED
    BY <1>1, <1>4, <2>1, <2>2 DEF Page!ThroughTunnel, Page!Locally
<1>7. DOMAIN going = {"way", "nav", "form", "written", "meant", "addr", "hops"}
  BY <1>3 DEF OnItsWay
<1>8. /\ DOMAIN going' = {"way", "nav", "form", "written", "meant", "addr", "hops"}
      /\ going'.meant = r.to /\ going'.nav = going.nav /\ going'.addr = next /\ going'.hops = 1
  BY <1>1, <1>7
<1>9. OnItsWay(going)'
  <2>1. engine' = engine /\ doc' = doc
    BY <1>2
  <2>2. going.nav \in BOOLEAN /\ (~going.nav => doc.kind = "page")
    BY <1>3 DEF OnItsWay
  <2> QED
    BY <1>5, <1>6, <1>7, <1>8, <2>1, <2>2 DEF OnItsWay, OnSite
<1> QED
  BY <1>2, <1>9, Kept DEF PageInv

LEMMA PagesStep == ASSUME PageInv, Page!Next PROVE PageInv'
BY StepOpen, StepReload, StepLoad, StepAssign, StepClick, StepSubmit, StepMalformed,
   StepDeliver, StepFailed, StepRedirected, StepMirrored DEF Page!Next

LEMMA PagesStay == ASSUME PageInv, UNCHANGED pages PROVE PageInv'
<1>1. UNCHANGED <<engine, frame, doc, last>> /\ going' = going
  BY DEF pages
<1>2. going' # Page!Idle => OnItsWay(going)'
  BY <1>1 DEF PageInv, OnItsWay
<1> QED
  BY <1>1, <1>2, Kept DEF PageInv

LEMMA InitPages == ASSUME Page!Init PROVE PageInv
BY DEF Page!Init, PageInv, ShownIsKnown, OnItsWay, Page!AbsoluteComesBack,
       Page!NothingMistaken, Page!LeavesFewWays, Page!Answered, Page!Nowhere,
       Page!Idle, Page!ComesBack

\* While another part moves, no page does.
PagesHeld == part = "pages" => PageInv

LEMMA InitPagesHeld == Init => PagesHeld
BY InitPages DEF Init, PagesHeld

LEMMA StepPagesHeld == PagesHeld /\ [Next]_all => PagesHeld'
<1> SUFFICES ASSUME PagesHeld, [Next]_all PROVE PagesHeld'
  OBVIOUS
<1>1. CASE part = "pages" /\ Page!Next /\ UNCHANGED <<part, links, dial, keys, wasm>>
  BY <1>1, PagesStep DEF PagesHeld
<1>2. CASE UNCHANGED <<part, pages>>
  BY <1>2, PagesStay DEF PagesHeld
<1>3. CASE part' = part /\ part # "pages"
  BY <1>3 DEF PagesHeld
<1> QED
  BY <1>1, <1>2, <1>3 DEF Next, all

\* Through the worker (rewriteHtml, NAV_INTERCEPT, proxyFetch) every absolute
\* reference that stands bare in the text and is loaded or navigated to by
\* anything but a click or a GET form gets the page it means; a page that is
\* shown is the one that was meant unless its address was misread (an entity or
\* a backslash in it); the frame leaves the worker only by a redirect, or by a
\* "//host" or an address the pattern did not see that is not clicked, for all
\* sites and paths.
THEOREM ReferencesAlwaysLead == Spec => []ReferencesLead
<1>1. Spec => Init /\ [][Next]_all
  BY PTL DEF Spec
<1>2. PagesHeld => ReferencesLead
  BY DEF PagesHeld, PageInv, ReferencesLead
<1> QED
  BY <1>1, <1>2, InitPagesHeld, StepPagesHeld, PTL

-----------------------------------------------------------------------------
\* Texts that are rewritten (sw.js rewriteText).

Piece == [link : BOOLEAN, units : Seq(Units)]

\* The operators that Links takes from the community modules are these.
LEMMA LinkMin == ASSUME NEW T PROVE Link!Min(T) = Min(T)
BY DEF Link!Min, Min

LEMMA LinkFlatten == ASSUME NEW q PROVE Link!FlattenSeq(q) = FlattenSeq(q)
BY DEF Link!FlattenSeq, FlattenSeq

LEMMA PieceType ==
  ASSUME NEW x \in Seq(Units)
  PROVE  Link!Link(x) \in Piece /\ Link!Left(x) \in Piece
BY DEF Link!Link, Link!Left, Piece

\* Where an address ends.
LEMMA UrlEndIs ==
  ASSUME NEW s, Len(s) \in Nat, NEW i \in 1..(Len(s) + 1), NEW stops
  PROVE  /\ Link!UrlEnd(s, i, stops) \in i..(Len(s) + 1)
         /\ \A j \in i..Len(s) : s[j] \in stops => Link!UrlEnd(s, i, stops) <= j
         /\ Link!UrlEnd(s, i, stops) <= Len(s) => s[Link!UrlEnd(s, i, stops)] \in stops
<1> DEFINE T == {j \in i..Len(s) : s[j] \in stops} \cup {Len(s) + 1}
<1>1. T \in SUBSET Nat /\ T # {}
  OBVIOUS
<1>2. PICK x \in T : \A y \in T : x <= y
  BY <1>1, Least
<1>3. Min(T) \in T /\ \A y \in T : Min(T) <= y
  BY <1>2 DEF Min
<1>4. Link!UrlEnd(s, i, stops) = Min(T)
  BY LinkMin DEF Link!UrlEnd
<1> DEFINE e == Min(T)
<1> HIDE DEF e
<1>5. e \in T /\ \A y \in T : e <= y
  BY <1>3 DEF e
<1>6. e \in i..(Len(s) + 1)
  BY <1>5
<1>7. \A j \in i..Len(s) : s[j] \in stops => e <= j
  BY <1>5
<1>8. e <= Len(s) => s[e] \in stops
  BY <1>5
<1> QED
  BY <1>4, <1>6, <1>7, <1>8 DEF e

\* What the JavaScript path does at position i.
JsStep(s, i, f) ==
  IF i > Len(s) THEN <<>>
  ELSE IF s[i] = "https" /\ Link!UrlEnd(s, i + 1, Link!UrlStops) > i + 1
  THEN <<Link!Link(SubSeq(s, i, Link!UrlEnd(s, i + 1, Link!UrlStops) - 1))>>
         \o f[Link!UrlEnd(s, i + 1, Link!UrlStops)]
  ELSE <<Link!Left(<<s[i]>>)>> \o f[i + 1]

IsJs(f, s) == \A i \in 1..(Len(s) + 1) : f[i] = JsStep(s, i, f)

\* Its value is made of pieces, and rests on values further on.
LEMMA JsStepType ==
  ASSUME NEW s \in Seq(Units), NEW f, NEW i \in 1..(Len(s) + 1),
         \A j \in 1..(Len(s) + 1) : j > i => f[j] \in Seq(Piece)
  PROVE  JsStep(s, i, f) \in Seq(Piece)
<1> DEFINE n == Len(s)
           e == Link!UrlEnd(s, i + 1, Link!UrlStops)
<1>0. n \in Nat
  OBVIOUS
<1>1. CASE i > n
  BY <1>1 DEF JsStep
<1>2. CASE ~ (i > n) /\ s[i] = "https" /\ e > i + 1
  <2>1. e \in (i + 1)..(n + 1)
    BY <1>0, <1>2, UrlEndIs
  <2> HIDE DEF e
  <2>2. e \in 1..(n + 1) /\ e > i /\ f[e] \in Seq(Piece)
    BY <1>0, <2>1
  <2>3. SubSeq(s, i, e - 1) \in Seq(Units)
    BY <1>0, <1>2, <2>1
  <2>4. Link!Link(SubSeq(s, i, e - 1)) \in Piece
    BY <2>3, PieceType
  <2>5. <<Link!Link(SubSeq(s, i, e - 1))>> \o f[e] \in Seq(Piece)
    BY <2>2, <2>4
  <2> QED
    BY <1>2, <2>5 DEF JsStep, e
<1>3. CASE ~ (i > n) /\ ~ (s[i] = "https" /\ e > i + 1)
  <2>1. i + 1 \in 1..(n + 1) /\ i + 1 > i /\ s[i] \in Units
    BY <1>0, <1>3
  <2>2. f[i + 1] \in Seq(Piece)
    BY <2>1
  <2>3. <<s[i]>> \in Seq(Units)
    BY <2>1
  <2>4. Link!Left(<<s[i]>>) \in Piece
    BY <2>3, PieceType
  <2>5. <<Link!Left(<<s[i]>>)>> \o f[i + 1] \in Seq(Piece)
    BY <2>2, <2>4
  <2> QED
    BY <1>3, <2>5 DEF JsStep
<1> QED
  BY <1>1, <1>2, <1>3

LEMMA JsStepLocal ==
  ASSUME NEW s \in Seq(Units), NEW f, NEW g, NEW i \in 1..(Len(s) + 1),
         \A j \in 1..(Len(s) + 1) : j > i => f[j] = g[j]
  PROVE  JsStep(s, i, f) = JsStep(s, i, g)
<1> DEFINE n == Len(s)
           e == Link!UrlEnd(s, i + 1, Link!UrlStops)
<1>0. n \in Nat
  OBVIOUS
<1>1. CASE i > n
  BY <1>1 DEF JsStep
<1>2. CASE ~ (i > n)
  <2>1. e \in (i + 1)..(n + 1)
    BY <1>0, <1>2, UrlEndIs
  <2>2. f[e] = g[e] /\ f[i + 1] = g[i + 1]
    <3> HIDE DEF e
    <3> QED
      BY <1>0, <1>2, <2>1
  <2> QED
    BY <2>2, Zenon DEF JsStep
<1> QED
  BY <1>1, <1>2

\* The equations of RewriteJs have a solution, and it is read off it.
LEMMA JsIs ==
  ASSUME NEW s \in Seq(Units)
  PROVE  \E f : /\ IsJs(f, s) /\ Link!RewriteJs(s) = f[1]
                /\ \A i \in 1..(Len(s) + 1) : f[i] \in Seq(Piece)
<1> DEFINE n == Len(s)
           V == Seq(Piece)
           W == [0..(n + 1) -> V]
           step == [p \in (0..(n + 1)) \X W |->
                      IF p[1] = 0 THEN <<>> ELSE JsStep(s, p[1], p[2])]
           Body(f, i) ==
             LET e == Link!UrlEnd(s, i + 1, Link!UrlStops) IN
             CASE i > Len(s) -> <<>>
               [] i <= Len(s) /\ s[i] = "https" /\ e > i + 1 ->
                    <<Link!Link(SubSeq(s, i, e - 1))>> \o f[e]
               [] OTHER -> <<Link!Left(<<s[i]>>)>> \o f[i + 1]
           Unfold(f) == [i \in 1..(Len(s) + 1) |-> Body(f, i)]
           table == CHOOSE f : f = Unfold(f)
<1>0. n \in Nat /\ n + 1 \in Nat /\ <<>> \in V
  OBVIOUS
<1>1. \A i \in 1..(n + 1) : i \in 0..(n + 1) /\ i # 0
  BY <1>0
<1>2. step \in [(0..(n + 1)) \X W -> V]
  <2> SUFFICES ASSUME NEW i \in 0..(n + 1), NEW f \in W
               PROVE  (IF i = 0 THEN <<>> ELSE JsStep(s, i, f)) \in V
    OBVIOUS
  <2>1. CASE i = 0
    BY <1>0, <2>1
  <2>2. CASE i # 0
    <3>1. i \in 1..(n + 1) /\ \A j \in 1..(n + 1) : f[j] \in V
      BY <1>0, <1>1, <2>2
    <3> QED
      BY <2>2, <3>1, JsStepType
  <2> QED
    BY <2>1, <2>2
<1>3. LooksUp(n + 1, V, step)
  <2> SUFFICES ASSUME NEW i \in 0..(n + 1), NEW g \in W, NEW h \in W,
                      \A j \in 0..(n + 1) : j > i => g[j] = h[j]
               PROVE  step[<<i, g>>] = step[<<i, h>>]
    BY DEF LooksUp
  <2>1. CASE i = 0
    BY <2>1
  <2>2. CASE i # 0
    <3>1. i \in 1..(n + 1) /\ \A j \in 1..(n + 1) : j > i => g[j] = h[j]
      BY <1>0, <1>1, <2>2
    <3>2. JsStep(s, i, g) = JsStep(s, i, h)
      BY <3>1, JsStepLocal
    <3> QED
      BY <2>2, <3>2
  <2> QED
    BY <2>1, <2>2
<1> HIDE DEF V
<1>4. PICK f \in W : IsDown(f, n + 1, step)
  BY <1>0, <1>2, <1>3, DownExists
<1>5. \A i \in 1..(n + 1) : f[i] = JsStep(s, i, f)
  BY <1>1, <1>4 DEF IsDown
<1> DEFINE g == [i \in 1..(n + 1) |-> f[i]]
<1>6. ASSUME NEW i \in 1..(n + 1) PROVE g[i] = JsStep(s, i, g)
  <2>1. \A j \in 1..(n + 1) : j > i => f[j] = g[j]
    OBVIOUS
  <2>2. JsStep(s, i, f) = JsStep(s, i, g)
    BY <2>1, JsStepLocal
  <2> QED
    BY <1>5, <2>2
<1>7. ASSUME NEW i \in 1..(n + 1), NEW h PROVE Body(h, i) = JsStep(s, i, h)
  <2> DEFINE e == Link!UrlEnd(s, i + 1, Link!UrlStops)
             x == <<Link!Link(SubSeq(s, i, e - 1))>> \o h[e]
             y == <<Link!Left(<<s[i]>>)>> \o h[i + 1]
  <2>1. Body(h, i) = CASE i > Len(s) -> <<>> [] i <= Len(s) /\ s[i] = "https" /\ e > i + 1 -> x [] OTHER -> y
    OBVIOUS
  <2>2. JsStep(s, i, h) = IF i > Len(s) THEN <<>> ELSE IF s[i] = "https" /\ e > i + 1 THEN x ELSE y
    BY Zenon DEF JsStep
  <2>3. i <= Len(s) <=> ~ (i > Len(s))
    BY <1>0
  <2> HIDE DEF e, x, y, Body
  <2> QED
    BY <2>1, <2>2, <2>3
<1>8. g = Unfold(g)
  <2>1. \A i \in 1..(n + 1) : g[i] = Body(g, i)
    <3> HIDE DEF Body, g
    <3> QED
      BY <1>6, <1>7
  <2> HIDE DEF Body
  <2> QED
    BY <2>1
<1>9. Link!RewriteJs(s) = table[1]
  BY Zenon DEF Link!RewriteJs
<1>10. table = Unfold(table)
  <2> HIDE DEF Unfold
  <2> QED
    BY <1>8
<1>11. \A i \in 1..(n + 1) : table[i] = JsStep(s, i, table)
  <2> HIDE DEF Body, table
  <2>1. \A i \in 1..(n + 1) : table[i] = Body(table, i)
    BY <1>10
  <2> QED
    BY <1>7, <2>1
<1> HIDE DEF table
<1>12. IsJs(table, s)
  BY <1>11 DEF IsJs
<1> DEFINE T == {i \in 0..(n + 1) : i # 0 => table[i] \in V}
<1>13. \A i \in 0..(n + 1) : (\A j \in 0..(n + 1) : j > i => j \in T) => i \in T
  <2> SUFFICES ASSUME NEW i \in 0..(n + 1), \A j \in 0..(n + 1) : j > i => j \in T, i # 0
               PROVE  table[i] \in V
    OBVIOUS
  <2>1. i \in 1..(n + 1) /\ \A j \in 1..(n + 1) : j > i => table[j] \in V
    BY <1>0, <1>1
  <2>2. JsStep(s, i, table) \in V
    BY <2>1, JsStepType DEF V
  <2> QED
    BY <1>12, <2>1, <2>2 DEF IsJs
<1> HIDE DEF T
<1>14. \A i \in 0..(n + 1) : i \in T
  BY <1>0, <1>13, DownSet
<1>15. \A i \in 1..(n + 1) : table[i] \in Seq(Piece)
  BY <1>1, <1>14 DEF T, V
<1> QED
  BY <1>9, <1>12, <1>15

\* The WASM path scans the bytes c of a text s from offset i.
Hits(c, i) == {x \in i..(Len(c) - 1) : c[x + 1] = "https"}
Hit(c, i) == Min(Hits(c, i))
Behind(s, at) == IF at + 1 < Len(s) THEN Link!UrlEnd(s, at + 2, Link!Bound) - 1 ELSE at + 1

\* There are as many bytes as units, or more.
Covers(c, s) == c \in Seq(Units \cup {"byte"}) /\ Len(c) >= Len(s)

LEMMA EncodedIs ==
  ASSUME NEW s \in Seq(Units)
  PROVE  /\ Covers(Link!Encoded(s), s)
         /\ (\A i \in 1..Len(s) : s[i] # "wide") => Link!Encoded(s) = s
<1> DEFINE n == Len(s)
           S == Units \cup {"byte"}
           q == [i \in DOMAIN s |-> IF s[i] = "wide" THEN <<"byte", "byte">> ELSE <<s[i]>>]
           p == [i \in DOMAIN s |-> <<s[i]>>]
<1>1. DOMAIN s = 1..n /\ n \in Nat /\ \A i \in 1..n : s[i] \in Units
  OBVIOUS
<1>2. Link!Encoded(s) = FlattenSeq(q)
  BY LinkFlatten DEF Link!Encoded
<1>3. \A i \in 1..n : q[i] \in Seq(S) /\ Len(q[i]) >= 1
  <2> TAKE i \in 1..n
  <2>1. <<"byte", "byte">> \in Seq(S) /\ <<s[i]>> \in Seq(S)
    BY <1>1
  <2>2. Len(<<"byte", "byte">>) >= 1 /\ Len(<<s[i]>>) >= 1
    OBVIOUS
  <2>3. q[i] = IF s[i] = "wide" THEN <<"byte", "byte">> ELSE <<s[i]>>
    BY <1>1
  <2> HIDE DEF q, S
  <2>4. CASE s[i] = "wide"
    BY <2>1, <2>2, <2>3, <2>4
  <2>5. CASE s[i] # "wide"
    BY <2>1, <2>2, <2>3, <2>5
  <2> QED
    BY <2>4, <2>5
<1>4. DOMAIN q = 1..n
  BY <1>1
<1>5. (\A i \in 1..n : s[i] # "wide") => q = p
  BY <1>1
<1>6. FlattenSeq(p) = s
  BY FlattenSingles
<1>7. q \in Seq(Seq(S)) /\ Len(q) = n
  <2>1. q = [i \in 1..n |-> q[i]]
    BY <1>1
  <2> HIDE DEF q, S
  <2>2. q \in [1..n -> Seq(S)]
    BY <1>3, <2>1
  <2> QED
    BY <1>1, <2>2
<1> HIDE DEF q, p, S
<1>8. FlattenSeq(q) \in Seq(S) /\ Len(FlattenSeq(q)) >= n
  <2>1. \A i \in DOMAIN q : Len(q[i]) >= 1
    BY <1>3, <1>4
  <2>2. FlattenSeq(q) \in Seq(S)
    BY <1>7, FlattenType
  <2>3. Len(FlattenSeq(q)) >= Len(q)
    BY <1>7, <2>1, FlattenLonger
  <2> QED
    BY <1>7, <2>2, <2>3
<1>9. (\A i \in 1..n : s[i] # "wide") => Link!Encoded(s) = s
  BY <1>2, <1>5, <1>6, Zenon
<1>10. Covers(Link!Encoded(s), s)
  BY <1>2, <1>8 DEF Covers, S
<1> QED
  BY <1>9, <1>10

\* The next address begins at an offset of the bytes and ends behind it.
LEMMA HitIs ==
  ASSUME NEW c, Len(c) \in Nat, NEW i \in Nat, Hits(c, i) # {}
  PROVE  /\ Hit(c, i) \in i..(Len(c) - 1) /\ c[Hit(c, i) + 1] = "https"
         /\ \A x \in i..(Len(c) - 1) : c[x + 1] = "https" => Hit(c, i) <= x
<1>1. Hits(c, i) \in SUBSET Nat
  BY DEF Hits
<1>2. PICK x \in Hits(c, i) : \A y \in Hits(c, i) : x <= y
  BY <1>1, Least
<1>3. Hit(c, i) \in Hits(c, i) /\ \A y \in Hits(c, i) : Hit(c, i) <= y
  BY <1>2 DEF Min, Hit
<1> QED
  BY <1>3 DEF Hits

LEMMA BehindIs ==
  ASSUME NEW s, Len(s) \in Nat, NEW at \in Nat, NEW B \in Nat, Len(s) <= B, at < B
  PROVE  Behind(s, at) \in (at + 1)..B
<1>1. CASE at + 1 < Len(s)
  <2> DEFINE e == Link!UrlEnd(s, at + 2, Link!Bound)
  <2>1. at + 2 \in 1..(Len(s) + 1)
    BY <1>1
  <2>2. e \in (at + 2)..(Len(s) + 1)
    BY <2>1, UrlEndIs
  <2>3. Behind(s, at) = e - 1
    BY <1>1 DEF Behind
  <2> HIDE DEF e
  <2> QED
    BY <2>2, <2>3
<1>2. CASE ~ (at + 1 < Len(s))
  BY <1>2 DEF Behind
<1> QED
  BY <1>1, <1>2

\* Offsets beyond the text cut nothing.
Upto(s, x) == IF x <= Len(s) THEN x ELSE Len(s)

LEMMA SliceIs ==
  ASSUME NEW s \in Seq(Units), NEW x \in Nat, NEW y \in Nat
  PROVE  Link!Slice(s, x, y) = SubSeq(s, x + 1, Upto(s, y)) /\ Upto(s, y) \in 0..Len(s)
         /\ Link!Slice(s, x, y) \in Seq(Units)
<1> DEFINE n == Len(s)
           T == {y, n}
<1>0. n \in Nat
  OBVIOUS
<1>1. T \in SUBSET Nat /\ T # {}
  BY <1>0
<1>2. PICK z \in T : \A w \in T : z <= w
  BY <1>1, Least
<1>3. Min(T) \in T /\ \A w \in T : Min(T) <= w
  BY <1>2 DEF Min
<1> DEFINE m == Min(T)
<1>4. Link!Slice(s, x, y) = SubSeq(s, x + 1, m)
  BY LinkMin DEF Link!Slice
<1>5. m = Upto(s, y)
  <2> HIDE DEF m
  <2>1. m \in {y, n} /\ m <= y /\ m <= n
    BY <1>3 DEF m
  <2> QED
    BY <1>0, <2>1 DEF Upto
<1> HIDE DEF m
<1>6. Upto(s, y) \in 0..n
  BY <1>0 DEF Upto
<1>7. SubSeq(s, x + 1, Upto(s, y)) \in Seq(Units)
  <2> DEFINE e == Upto(s, y)
  <2>1. e \in 0..n
    BY <1>6
  <2> HIDE DEF e
  <2>2. \A w \in (x + 1)..e : s[w] \in Units
    BY <1>0, <2>1
  <2>3. SubSeq(s, x + 1, e) \in Seq(Units)
    BY <2>1, <2>2, SubSeqProperties
  <2> QED
    BY <2>3 DEF e
<1> QED
  BY <1>4, <1>5, <1>6, <1>7

WasmStep(s, c, i, f) ==
  IF Hits(c, i) = {} THEN <<Link!Left(Link!Slice(s, i, Len(s)))>>
  ELSE <<Link!Left(Link!Slice(s, i, Hit(c, i))),
         Link!Link(Link!Slice(s, Hit(c, i), Behind(s, Hit(c, i))))>>
       \o f[Behind(s, Hit(c, i))]

IsWasm(f, s, c) == \A i \in 0..Len(c) : f[i] = WasmStep(s, c, i, f)

LEMMA WasmStepType ==
  ASSUME NEW s \in Seq(Units), NEW c, Covers(c, s), NEW f, NEW i \in 0..Len(c),
         \A j \in 0..Len(c) : j > i => f[j] \in Seq(Piece)
  PROVE  WasmStep(s, c, i, f) \in Seq(Piece)
<1> DEFINE n == Len(s)
           B == Len(c)
           at == Hit(c, i)
           j == Behind(s, at)
<1>1. n \in Nat /\ B \in Nat /\ n <= B /\ i \in Nat
  BY DEF Covers
<1>2. CASE Hits(c, i) = {}
  <2>1. Link!Left(Link!Slice(s, i, n)) \in Piece
    BY <1>1, SliceIs, PieceType
  <2>2. <<Link!Left(Link!Slice(s, i, n))>> \in Seq(Piece)
    BY <2>1
  <2> QED
    BY <1>2, <2>2 DEF WasmStep
<1>3. CASE Hits(c, i) # {}
  <2>1. at \in i..(B - 1) /\ at \in Nat /\ at < B
    <3>1. at \in i..(B - 1)
      BY <1>1, <1>3, HitIs
    <3> QED
      BY <1>1, <3>1
  <2>2. j \in (at + 1)..B
    BY <1>1, <2>1, BehindIs
  <2> HIDE DEF at
  <2>3. j \in 0..B /\ j > i /\ j \in Nat
    <3> HIDE DEF j
    <3> QED
      BY <1>1, <2>1, <2>2
  <2>4. f[j] \in Seq(Piece)
    BY <2>3
  <2> HIDE DEF j
  <2>5. Link!Left(Link!Slice(s, i, at)) \in Piece /\ Link!Link(Link!Slice(s, at, j)) \in Piece
    BY <1>1, <2>1, <2>3, SliceIs, PieceType
  <2>6. <<Link!Left(Link!Slice(s, i, at)), Link!Link(Link!Slice(s, at, j))>> \o f[j] \in Seq(Piece)
    <3> DEFINE x == Link!Left(Link!Slice(s, i, at))
               y == Link!Link(Link!Slice(s, at, j))
    <3> HIDE DEF x, y
    <3>1. x \in Piece /\ y \in Piece
      BY <2>5 DEF x, y
    <3>2. <<x, y>> \o f[j] \in Seq(Piece)
      BY <2>4, <3>1
    <3> QED
      BY <3>2 DEF x, y
  <2> QED
    BY <1>3, <2>6, Zenon DEF WasmStep, at, j
<1> QED
  BY <1>2, <1>3

LEMMA WasmStepLocal ==
  ASSUME NEW s \in Seq(Units), NEW c, Covers(c, s), NEW f, NEW g, NEW i \in 0..Len(c),
         \A j \in 0..Len(c) : j > i => f[j] = g[j]
  PROVE  WasmStep(s, c, i, f) = WasmStep(s, c, i, g)
<1> DEFINE n == Len(s)
           B == Len(c)
           at == Hit(c, i)
           j == Behind(s, at)
<1>1. n \in Nat /\ B \in Nat /\ n <= B /\ i \in Nat
  BY DEF Covers
<1>2. CASE Hits(c, i) = {}
  BY <1>2, Zenon DEF WasmStep
<1>3. CASE Hits(c, i) # {}
  <2>1. at \in i..(B - 1)
    BY <1>1, <1>3, HitIs
  <2> HIDE DEF at
  <2>2. at \in Nat /\ at < B
    BY <1>1, <2>1
  <2>3. j \in (at + 1)..B
    BY <1>1, <2>2, BehindIs
  <2> HIDE DEF j
  <2>4. j \in 0..B /\ j > i
    BY <1>1, <2>1, <2>3
  <2>5. f[j] = g[j]
    BY <2>4
  <2> QED
    BY <2>5, Zenon DEF WasmStep, at, j
<1> QED
  BY <1>2, <1>3

\* The equations of RewriteWasm have a solution, and it is read off it.
LEMMA WasmIs ==
  ASSUME NEW s \in Seq(Units)
  PROVE  \E f : /\ IsWasm(f, s, Link!Encoded(s)) /\ Link!RewriteWasm(s) = f[0]
                /\ \A i \in 0..Len(Link!Encoded(s)) : f[i] \in Seq(Piece)
<1> DEFINE c == Link!Encoded(s)
           B == Len(c)
           V == Seq(Piece)
           W == [0..B -> V]
           step == [p \in (0..B) \X W |-> WasmStep(s, c, p[1], p[2])]
           Body(f, i) ==
             LET hits == {x \in i..Len(c) - 1 : c[x + 1] = "https"}
                 at == Link!Min(hits)
                 j == IF at + 1 < Len(s) THEN Link!UrlEnd(s, at + 2, Link!Bound) - 1 ELSE at + 1
             IN  IF hits = {} THEN <<Link!Left(Link!Slice(s, i, Len(s)))>>
                 ELSE <<Link!Left(Link!Slice(s, i, at)), Link!Link(Link!Slice(s, at, j))>>
                        \o f[Link!Resume(at, j)]
           Unfold(f) == [i \in 0..Len(c) |-> Body(f, i)]
           table == CHOOSE f : f = Unfold(f)
<1>0. Link!RewriteWasm(s) = table[0]
  BY Zenon DEF Link!RewriteWasm
<1>1. Covers(c, s)
  BY EncodedIs
<1>2. ASSUME NEW i, NEW f PROVE Body(f, i) = WasmStep(s, c, i, f)
  <2>1. Link!Min({x \in i..Len(c) - 1 : c[x + 1] = "https"}) = Hit(c, i)
    BY LinkMin DEF Hit, Hits
  <2> QED
    BY <2>1, Zenon DEF WasmStep, Hits, Behind, Link!Resume
<1> HIDE DEF c, Body
<1>3. B \in Nat /\ <<>> \in V
  BY <1>1 DEF Covers
<1>4. step \in [(0..B) \X W -> V]
  <2> SUFFICES ASSUME NEW i \in 0..B, NEW f \in W PROVE WasmStep(s, c, i, f) \in V
    OBVIOUS
  <2>1. \A j \in 0..B : f[j] \in V
    OBVIOUS
  <2> QED
    BY <1>1, <2>1, WasmStepType
<1>5. LooksUp(B, V, step)
  <2> SUFFICES ASSUME NEW i \in 0..B, NEW g \in W, NEW h \in W,
                      \A j \in 0..B : j > i => g[j] = h[j]
               PROVE  step[<<i, g>>] = step[<<i, h>>]
    BY DEF LooksUp
  <2>1. WasmStep(s, c, i, g) = WasmStep(s, c, i, h)
    BY <1>1, WasmStepLocal
  <2> QED
    BY <2>1
<1> HIDE DEF V
<1>6. PICK f \in W : IsDown(f, B, step)
  BY <1>3, <1>4, <1>5, DownExists
<1>7. \A i \in 0..B : f[i] = WasmStep(s, c, i, f)
  BY <1>6 DEF IsDown
<1>8. f = Unfold(f)
  <2>1. \A i \in 0..B : f[i] = Body(f, i)
    BY <1>2, <1>7
  <2> QED
    BY <2>1
<1>9. table = Unfold(table)
  <2> HIDE DEF Unfold
  <2> QED
    BY <1>8
<1>10. \A i \in 0..B : table[i] = WasmStep(s, c, i, table)
  <2> HIDE DEF table
  <2>1. \A i \in 0..B : table[i] = Body(table, i)
    BY <1>9
  <2> QED
    BY <1>2, <2>1
<1> HIDE DEF table
<1>11. IsWasm(table, s, c)
  BY <1>10 DEF IsWasm
<1> DEFINE T == {i \in 0..B : table[i] \in V}
<1>12. \A i \in 0..B : (\A j \in 0..B : j > i => j \in T) => i \in T
  <2> SUFFICES ASSUME NEW i \in 0..B, \A j \in 0..B : j > i => j \in T PROVE table[i] \in V
    OBVIOUS
  <2>1. \A j \in 0..B : j > i => table[j] \in V
    OBVIOUS
  <2>2. WasmStep(s, c, i, table) \in V
    BY <1>1, <2>1, WasmStepType DEF V
  <2> QED
    BY <1>10, <2>2
<1> HIDE DEF T
<1>13. \A i \in 0..B : i \in T
  BY <1>3, <1>12, DownSet
<1>14. \A i \in 0..B : table[i] \in Seq(Piece)
  BY <1>13 DEF T, V
<1> QED
  BY <1>0, <1>11, <1>14 DEF c

-----------------------------------------------------------------------------
\* Neither path drops or doubles a part of a text.

UnitsOf == [p \in Piece |-> p.units]

LEMMA UnitsTyped ==
  /\ UnitsOf \in [Piece -> Seq(Units)]
  /\ \A x \in Seq(Units) : UnitsOf[Link!Link(x)] = x /\ UnitsOf[Link!Left(x)] = x
<1>1. UnitsOf \in [Piece -> Seq(Units)]
  BY DEF UnitsOf, Piece
<1>2. ASSUME NEW x \in Seq(Units) PROVE UnitsOf[Link!Link(x)] = x /\ UnitsOf[Link!Left(x)] = x
  <2>1. Link!Link(x) \in Piece /\ Link!Left(x) \in Piece
    BY PieceType
  <2>2. UnitsOf[Link!Link(x)] = Link!Link(x).units /\ UnitsOf[Link!Left(x)] = Link!Left(x).units
    BY <2>1 DEF UnitsOf
  <2> QED
    BY <2>2 DEF Link!Link, Link!Left
<1> QED
  BY <1>1, <1>2

LEMMA FlatIs ==
  ASSUME NEW out \in Seq(Piece)
  PROVE  Link!Flat(out) = Joint(UnitsOf, out)
<1>1. \A i \in DOMAIN out : out[i] \in Piece
  OBVIOUS
<1>2. [i \in DOMAIN out |-> out[i].units] = [i \in DOMAIN out |-> UnitsOf[out[i]]]
  BY <1>1 DEF UnitsOf
<1> QED
  BY <1>2, LinkFlatten, Zenon DEF Link!Flat, Joint

\* One piece in front, two in front, one alone.
LEMMA AloneIs ==
  ASSUME NEW S, NEW X, NEW m \in [S -> Seq(X)], NEW p \in S
  PROVE  Joint(m, <<p>>) = m[p]
<1> DEFINE none == <<>>
<1>1. none \in Seq(S) /\ <<p>> \o none = <<p>>
  <2> DEFINE x == <<p>>
  <2>1. x \in Seq(S)
    OBVIOUS
  <2> HIDE DEF x
  <2>2. x \o <<>> = x
    BY <2>1
  <2> QED
    BY <2>2 DEF x
<1> HIDE DEF none
<1>2. IsJoined(Joint(m, <<p>> \o none), m[p], Joint(m, none))
  BY <1>1, JointHead
<1>3. Joint(m, none) = <<>>
  BY JointEmpty DEF none
<1>4. Joint(m, <<p>>) = m[p] \o <<>>
  BY <1>1, <1>2, <1>3, Zenon DEF IsJoined
<1>5. m[p] \in Seq(X)
  OBVIOUS
<1> DEFINE x == m[p]
<1> HIDE DEF x
<1>6. x \in Seq(X) => x \o <<>> = x
  OBVIOUS
<1> QED
  BY <1>4, <1>5, <1>6, Zenon DEF x

LEMMA PairIs ==
  ASSUME NEW S, NEW p \in S, NEW q \in S, NEW r \in Seq(S)
  PROVE  <<p, q>> \o r = <<p>> \o (<<q>> \o r)
<1>1. Regroups(<<p>>, <<q>>, r)
  <2>1. <<p>> \in Seq(S) /\ <<q>> \in Seq(S)
    OBVIOUS
  <2> QED
    BY <2>1, Associative
<1>2. <<p, q>> = <<p>> \o <<q>>
  <2> DEFINE a == <<p>>
             c == <<q>>
             l == <<p, q>>
             x == a \o c
  <2>1. a \in Seq(S) /\ c \in Seq(S) /\ Len(a) = 1 /\ Len(c) = 1 /\ a[1] = p /\ c[1] = q
    OBVIOUS
  <2>2. l \in Seq(S) /\ Len(l) = 2 /\ l[1] = p /\ l[2] = q
    OBVIOUS
  <2> HIDE DEF a, c, l
  <2>3. x \in Seq(S) /\ Len(x) = 2 /\ x[1] = p /\ x[2] = q
    <3>1. a \in Seq(S) /\ c \in Seq(S)
      BY <2>1
    <3>2. /\ x \in Seq(S) /\ Len(x) = Len(a) + Len(c)
          /\ \A j \in 1..Len(x) : x[j] = IF j <= Len(a) THEN a[j] ELSE c[j - Len(a)]
      BY <3>1
    <3> HIDE DEF x
    <3> QED
      BY <2>1, <3>2
  <2> HIDE DEF x
  <2>4. \A i \in 1..Len(l) : l[i] = x[i]
    BY <2>2, <2>3
  <2>5. l = x
    BY <2>2, <2>3, <2>4, SeqEqual
  <2> QED
    BY <2>5 DEF a, c, l, x
<1> QED
  BY <1>1, <1>2, Zenon DEF Regroups

LEMMA SingleIs ==
  ASSUME NEW S, NEW s \in Seq(S), NEW i \in 1..Len(s)
  PROVE  SubSeq(s, i, i) = <<s[i]>>
<1> DEFINE l == SubSeq(s, i, i)
           x == <<s[i]>>
<1>1. l \in Seq(S) /\ Len(l) = 1 /\ l[1] = s[i]
  OBVIOUS
<1>2. x \in Seq(S) /\ Len(x) = 1 /\ x[1] = s[i]
  OBVIOUS
<1> HIDE DEF l, x
<1>3. l = x
  BY <1>1, <1>2, SeqEqual
<1> QED
  BY <1>3 DEF l, x

LEMMA JsLosesNothing ==
  ASSUME NEW s \in Seq(Units)
  PROVE  Link!Flat(Link!RewriteJs(s)) = s
<1> DEFINE n == Len(s)
<1>0. n \in Nat /\ n + 1 \in Nat /\ n \in 0..Len(s)
  OBVIOUS
<1>1. PICK f : /\ IsJs(f, s) /\ Link!RewriteJs(s) = f[1]
               /\ \A i \in 1..(n + 1) : f[i] \in Seq(Piece)
  BY JsIs
<1> DEFINE Rest(i) == Joint(UnitsOf, f[i])
           T == {i \in 0..(n + 1) : i # 0 => Rest(i) = SubSeq(s, i, n)}
<1>2. \A i \in 0..(n + 1) : (\A j \in 0..(n + 1) : j > i => j \in T) => i \in T
  <2> SUFFICES ASSUME NEW i \in 0..(n + 1), \A j \in 0..(n + 1) : j > i => j \in T, i # 0
               PROVE  Rest(i) = SubSeq(s, i, n)
    OBVIOUS
  <2>1. i \in 1..(n + 1) /\ \A j \in 1..(n + 1) : j > i => Rest(j) = SubSeq(s, j, n)
    BY <1>0
  <2> HIDE DEF T, Rest
  <2>2. f[i] = JsStep(s, i, f)
    BY <1>1, <2>1 DEF IsJs
  <2>3. ASSUME NEW p \in Piece, NEW e \in (i + 1)..(n + 1),
               f[i] = <<p>> \o f[e], UnitsOf[p] = SubSeq(s, i, e - 1)
        PROVE  Rest(i) = SubSeq(s, i, n)
    <3>1. e \in 1..(n + 1) /\ e > i /\ e \in i..(n + 1)
      BY <1>0, <2>1
    <3>2. f[e] \in Seq(Piece) /\ Rest(e) = SubSeq(s, e, n)
      BY <1>1, <2>1, <3>1
    <3>3. IsJoined(Joint(UnitsOf, <<p>> \o f[e]), UnitsOf[p], Rest(e))
      BY <3>2, UnitsTyped, JointHead DEF Rest
    <3>4. IsJoined(SubSeq(s, i, n), SubSeq(s, i, e - 1), SubSeq(s, e, n))
      BY <1>0, <2>1, <3>1, Cut
    <3> QED
      BY <2>3, <3>2, <3>3, <3>4, Zenon DEF IsJoined, Rest
  <2>4. CASE i > n
    <3>1. f[i] = <<>>
      BY <2>2, <2>4 DEF JsStep
    <3>2. Rest(i) = <<>>
      BY <3>1, JointEmpty DEF Rest
    <3>3. SubSeq(s, i, n) = <<>>
      BY <1>0, <2>1, <2>4
    <3> QED
      BY <3>2, <3>3
  <2> DEFINE e == Link!UrlEnd(s, i + 1, Link!UrlStops)
  <2>5. CASE ~ (i > n) /\ s[i] = "https" /\ e > i + 1
    <3>1. e \in (i + 1)..(n + 1)
      BY <1>0, <2>1, <2>5, UrlEndIs
    <3> DEFINE x == SubSeq(s, i, e - 1)
    <3>2. f[i] = <<Link!Link(x)>> \o f[e]
      BY <2>2, <2>5, Zenon DEF JsStep
    <3> HIDE DEF e
    <3>3. x \in Seq(Units)
      BY <1>0, <2>1, <2>5, <3>1
    <3> HIDE DEF x
    <3>4. Link!Link(x) \in Piece /\ UnitsOf[Link!Link(x)] = x
      BY <3>3, PieceType, UnitsTyped
    <3> QED
      BY <2>3, <3>1, <3>2, <3>4 DEF x
  <2>6. CASE ~ (i > n) /\ ~ (s[i] = "https" /\ e > i + 1)
    <3> DEFINE x == <<s[i]>>
               d == i + 1
    <3>1. f[i] = <<Link!Left(x)>> \o f[d]
      BY <2>2, <2>6, Zenon DEF JsStep
    <3>2. x \in Seq(Units) /\ x = SubSeq(s, i, d - 1) /\ d \in (i + 1)..(n + 1)
      <4>1. i \in 1..n /\ d - 1 = i /\ d \in (i + 1)..(n + 1)
        BY <1>0, <2>1, <2>6
      <4>2. s[i] \in Units
        BY <4>1
      <4>3. SubSeq(s, i, i) = <<s[i]>>
        BY <4>1, SingleIs
      <4> QED
        BY <4>1, <4>2, <4>3
    <3> HIDE DEF x, d
    <3>3. Link!Left(x) \in Piece /\ UnitsOf[Link!Left(x)] = x
      BY <3>2, PieceType, UnitsTyped
    <3> QED
      BY <2>3, <3>1, <3>2, <3>3
  <2> QED
    BY <2>4, <2>5, <2>6
<1> HIDE DEF T, Rest
<1>3. \A i \in 0..(n + 1) : i \in T
  BY <1>0, <1>2, DownSet
<1>4. Rest(1) = SubSeq(s, 1, n)
  <2>1. 1 \in 0..(n + 1)
    BY <1>0
  <2>2. 1 \in T
    BY <1>3, <2>1
  <2> QED
    BY <2>2 DEF T
<1>5. 1 \in 1..(n + 1)
  BY <1>0
<1>6. Link!Flat(Link!RewriteJs(s)) = Rest(1)
  BY <1>1, <1>5, FlatIs DEF Rest
<1>7. SubSeq(s, 1, n) = s
  OBVIOUS
<1> QED
  BY <1>4, <1>6, <1>7

\* Two slices that meet.
LEMMA SliceCut ==
  ASSUME NEW s \in Seq(Units), NEW i \in Nat, NEW at \in Nat, i <= at
  PROVE  IsJoined(SubSeq(s, i + 1, Len(s)), Link!Slice(s, i, at), SubSeq(s, at + 1, Len(s)))
<1> DEFINE n == Len(s)
<1>0. n \in Nat /\ n \in 0..Len(s)
  OBVIOUS
<1>1. CASE at <= n
  <2>1. Link!Slice(s, i, at) = SubSeq(s, i + 1, at)
    BY <1>1, SliceIs DEF Upto
  <2> DEFINE c == i + 1
             d == at + 1
  <2>2. c \in 1..(n + 1) /\ d \in c..(n + 1) /\ d - 1 = at
    BY <1>0, <1>1
  <2> HIDE DEF c, d
  <2>3. IsJoined(SubSeq(s, c, n), SubSeq(s, c, d - 1), SubSeq(s, d, n))
    BY <1>0, <2>2, Cut
  <2> QED
    BY <2>1, <2>2, <2>3, Zenon DEF c, d
<1>2. CASE ~ (at <= n)
  <2> DEFINE x == Link!Slice(s, i, at)
  <2>1. x = SubSeq(s, i + 1, n) /\ x \in Seq(Units)
    BY <1>2, SliceIs, Zenon DEF Upto
  <2>2. SubSeq(s, at + 1, n) = <<>>
    BY <1>0, <1>2
  <2> HIDE DEF x
  <2>3. x = x \o <<>>
    BY <2>1
  <2> QED
    BY <2>1, <2>2, <2>3, Zenon DEF IsJoined, x
<1> QED
  BY <1>1, <1>2

LEMMA WasmLosesNothing ==
  ASSUME NEW s \in Seq(Units)
  PROVE  Link!Flat(Link!RewriteWasm(s)) = s
<1> DEFINE n == Len(s)
           c == Link!Encoded(s)
           B == Len(c)
<1>1. Covers(c, s)
  BY EncodedIs
<1>2. PICK f : /\ IsWasm(f, s, c) /\ Link!RewriteWasm(s) = f[0]
               /\ \A i \in 0..B : f[i] \in Seq(Piece)
  BY WasmIs
<1> HIDE DEF c
<1>3. n \in Nat /\ B \in Nat /\ n <= B
  BY <1>1 DEF Covers
<1> DEFINE Rest(i) == Joint(UnitsOf, f[i])
           T == {i \in 0..B : Rest(i) = SubSeq(s, i + 1, n)}
<1>4. \A i \in 0..B : (\A j \in 0..B : j > i => j \in T) => i \in T
  <2> SUFFICES ASSUME NEW i \in 0..B, \A j \in 0..B : j > i => j \in T
               PROVE  Rest(i) = SubSeq(s, i + 1, n)
    OBVIOUS
  <2>1. i \in Nat /\ \A j \in 0..B : j > i => Rest(j) = SubSeq(s, j + 1, n)
    OBVIOUS
  <2> HIDE DEF T, Rest
  <2>2. f[i] = WasmStep(s, c, i, f)
    BY <1>2 DEF IsWasm
  <2>3. CASE Hits(c, i) = {}
    <3> DEFINE x == Link!Slice(s, i, n)
    <3>1. x \in Seq(Units) /\ x = SubSeq(s, i + 1, n)
      BY <1>3, <2>1, SliceIs DEF Upto
    <3>2. f[i] = <<Link!Left(x)>>
      BY <2>2, <2>3, Zenon DEF WasmStep
    <3> HIDE DEF x
    <3>3. Link!Left(x) \in Piece /\ UnitsOf[Link!Left(x)] = x
      BY <3>1, PieceType, UnitsTyped
    <3>4. Rest(i) = x
      BY <3>2, <3>3, UnitsTyped, AloneIs DEF Rest
    <3> QED
      BY <3>1, <3>4
  <2>4. CASE Hits(c, i) # {}
    <3> DEFINE at == Hit(c, i)
               j == Behind(s, at)
               x == Link!Slice(s, i, at)
               y == Link!Slice(s, at, j)
               p == Link!Left(x)
               q == Link!Link(y)
    <3>1. f[i] = <<p, q>> \o f[j]
      BY <2>2, <2>4, Zenon DEF WasmStep
    <3>2. at \in i..(B - 1)
      BY <1>3, <2>1, <2>4, HitIs
    <3> HIDE DEF at
    <3>3. at \in Nat /\ at < B /\ i <= at
      BY <1>3, <3>2
    <3>4. j \in (at + 1)..B
      BY <1>3, <3>3, BehindIs
    <3> HIDE DEF j
    <3>5. j \in 0..B /\ j \in Nat /\ j > i /\ at <= j
      BY <1>3, <3>3, <3>4
    <3>6. x \in Seq(Units) /\ y \in Seq(Units)
      BY <2>1, <3>3, <3>5, SliceIs
    <3>7. p \in Piece /\ q \in Piece /\ UnitsOf[p] = x /\ UnitsOf[q] = y
      <4> HIDE DEF x, y
      <4> QED
        BY <3>6, PieceType, UnitsTyped
    <3>8. IsJoined(SubSeq(s, i + 1, n), x, SubSeq(s, at + 1, n))
      BY <2>1, <3>3, SliceCut
    <3>9. IsJoined(SubSeq(s, at + 1, n), y, SubSeq(s, j + 1, n))
      BY <3>3, <3>5, SliceCut
    <3> HIDE DEF x, y, p, q
    <3> DEFINE r == f[j]
               z == <<q>> \o r
    <3>10. r \in Seq(Piece) /\ Joint(UnitsOf, r) = SubSeq(s, j + 1, n)
      BY <1>2, <2>1, <3>5 DEF Rest
    <3> HIDE DEF r
    <3>11. z \in Seq(Piece)
      BY <3>7, <3>10
    <3>12. IsJoined(Joint(UnitsOf, z), UnitsOf[q], Joint(UnitsOf, r))
      BY <3>7, <3>10, UnitsTyped, JointHead
    <3>13. f[i] = <<p>> \o z
      <4>1. <<p, q>> \o r = <<p>> \o (<<q>> \o r)
        BY <3>7, <3>10, PairIs
      <4> QED
        BY <3>1, <4>1, Zenon DEF r, z
    <3> HIDE DEF z
    <3>14. IsJoined(Joint(UnitsOf, <<p>> \o z), UnitsOf[p], Joint(UnitsOf, z))
      BY <3>7, <3>11, UnitsTyped, JointHead
    <3>15. Joint(UnitsOf, z) = SubSeq(s, at + 1, n)
      BY <3>7, <3>9, <3>10, <3>12, Zenon DEF IsJoined
    <3> QED
      BY <3>7, <3>8, <3>13, <3>14, <3>15, Zenon DEF IsJoined, Rest
  <2> QED
    BY <2>3, <2>4
<1> HIDE DEF T, Rest
<1>5. \A i \in 0..B : i \in T
  BY <1>3, <1>4, DownSet
<1>6. Rest(0) = SubSeq(s, 0 + 1, n)
  <2>1. 0 \in T
    BY <1>3, <1>5
  <2> QED
    BY <2>1, Zenon DEF T
<1>7. Link!Flat(Link!RewriteWasm(s)) = Rest(0)
  <2>1. 0 \in 0..B
    BY <1>3
  <2> QED
    BY <1>2, <2>1, FlatIs DEF Rest
<1>8. SubSeq(s, 0 + 1, n) = s
  OBVIOUS
<1> QED
  BY <1>6, <1>7, <1>8

-----------------------------------------------------------------------------
\* In plain texts both paths find the same addresses.

Shades == Units \X {0, 1, 2}
Shade(p, j) == <<p.units[j], IF ~p.link THEN 0 ELSE IF j = 1 THEN 2 ELSE 1>>
MarksOf == [p \in Piece |-> [j \in DOMAIN p.units |-> Shade(p, j)]]

LEMMA MarksTyped ==
  /\ MarksOf \in [Piece -> Seq(Shades)]
  /\ \A x \in Seq(Units) :
       /\ Len(MarksOf[Link!Left(x)]) = Len(x)
       /\ \A j \in 1..Len(x) : MarksOf[Link!Left(x)][j] = <<x[j], 0>>
<1>1. ASSUME NEW p \in Piece PROVE [j \in DOMAIN p.units |-> Shade(p, j)] \in Seq(Shades)
  <2> DEFINE x == p.units
  <2>1. x \in Seq(Units)
    BY DEF Piece
  <2> HIDE DEF x
  <2>2. DOMAIN x = 1..Len(x) /\ Len(x) \in Nat /\ \A j \in 1..Len(x) : x[j] \in Units
    BY <2>1
  <2>3. \A j \in 1..Len(x) : Shade(p, j) \in Shades
    BY <2>2 DEF Shade, Shades, x
  <2>4. [j \in DOMAIN x |-> Shade(p, j)] \in Seq(Shades)
    BY <2>2, <2>3
  <2> QED
    BY <2>4 DEF x
<1>2. ASSUME NEW x \in Seq(Units)
      PROVE  /\ Len(MarksOf[Link!Left(x)]) = Len(x)
             /\ \A j \in 1..Len(x) : MarksOf[Link!Left(x)][j] = <<x[j], 0>>
  <2> DEFINE p == Link!Left(x)
  <2>1. p \in Piece /\ p.units = x /\ p.link = FALSE
    BY PieceType DEF Link!Left
  <2> HIDE DEF p
  <2>2. MarksOf[p] = [j \in DOMAIN x |-> Shade(p, j)]
    BY <2>1 DEF MarksOf
  <2>3. DOMAIN x = 1..Len(x) /\ Len(x) \in Nat
    OBVIOUS
  <2>4. MarksOf[p] = [j \in 1..Len(x) |-> Shade(p, j)]
    BY <2>2, <2>3
  <2>5. MarksOf[p] \in Seq(Shades)
    BY <1>1, <2>1, <2>2
  <2>6. Len(MarksOf[p]) = Len(x)
    BY <2>3, <2>4, <2>5
  <2>7. \A j \in 1..Len(x) : MarksOf[p][j] = <<x[j], 0>>
    BY <2>1, <2>4 DEF Shade
  <2> QED
    BY <2>6, <2>7 DEF p
<1>3. MarksOf \in [Piece -> Seq(Shades)]
  BY <1>1 DEF MarksOf
<1> QED
  BY <1>2, <1>3

LEMMA MarkedIs ==
  ASSUME NEW out \in Seq(Piece)
  PROVE  Link!Marked(out) = Joint(MarksOf, out)
<1> DEFINE q == [i \in DOMAIN out |-> [j \in DOMAIN out[i].units |->
                   <<out[i].units[j], IF ~out[i].link THEN 0 ELSE IF j = 1 THEN 2 ELSE 1>>]]
<1>1. \A i \in DOMAIN out : out[i] \in Piece
  OBVIOUS
<1>2. \A i \in DOMAIN out : MarksOf[out[i]] = q[i]
  BY <1>1, Zenon DEF MarksOf, Shade
<1>3. q = [i \in DOMAIN out |-> MarksOf[out[i]]]
  BY <1>2
<1>4. Link!Marked(out) = FlattenSeq(q)
  BY LinkFlatten, Zenon DEF Link!Marked
<1> QED
  BY <1>3, <1>4 DEF Joint

\* Text that is left has its marks, however it is cut up.
LEMMA LeftCut ==
  ASSUME NEW x \in Seq(Units), NEW a \in Seq(Units), NEW c \in Seq(Units), IsJoined(x, a, c)
  PROVE  IsJoined(MarksOf[Link!Left(x)], MarksOf[Link!Left(a)], MarksOf[Link!Left(c)])
<1> DEFINE mx == MarksOf[Link!Left(x)]
           ma == MarksOf[Link!Left(a)]
           mc == MarksOf[Link!Left(c)]
           m == ma \o mc
           y == a \o c
<1>0. x = y
  BY DEF IsJoined
<1>1. /\ y \in Seq(Units) /\ Len(y) = Len(a) + Len(c)
      /\ \A j \in 1..Len(y) : y[j] = IF j <= Len(a) THEN a[j] ELSE c[j - Len(a)]
  OBVIOUS
<1>2. /\ mx \in Seq(Shades) /\ Len(mx) = Len(x) /\ \A j \in 1..Len(x) : mx[j] = <<x[j], 0>>
      /\ ma \in Seq(Shades) /\ Len(ma) = Len(a) /\ \A j \in 1..Len(a) : ma[j] = <<a[j], 0>>
      /\ mc \in Seq(Shades) /\ Len(mc) = Len(c) /\ \A j \in 1..Len(c) : mc[j] = <<c[j], 0>>
  <2>1. Link!Left(x) \in Piece /\ Link!Left(a) \in Piece /\ Link!Left(c) \in Piece
    BY PieceType
  <2>2. mx \in Seq(Shades) /\ ma \in Seq(Shades) /\ mc \in Seq(Shades)
    BY <2>1, MarksTyped
  <2> QED
    BY <2>2, MarksTyped
<1> HIDE DEF mx, ma, mc, y
<1>3. /\ m \in Seq(Shades) /\ Len(m) = Len(ma) + Len(mc)
      /\ \A j \in 1..Len(m) : m[j] = IF j <= Len(ma) THEN ma[j] ELSE mc[j - Len(ma)]
  <2>1. ma \in Seq(Shades) /\ mc \in Seq(Shades)
    BY <1>2
  <2> QED
    BY <2>1
<1> HIDE DEF m
<1>4. Len(a) \in Nat /\ Len(c) \in Nat /\ Len(m) = Len(a) + Len(c) /\ Len(mx) = Len(a) + Len(c)
      /\ Len(x) = Len(a) + Len(c)
  BY <1>0, <1>1, <1>2, <1>3
<1>5. ASSUME NEW j \in 1..Len(mx) PROVE mx[j] = m[j]
  <2>1. j \in 1..Len(m) /\ j \in 1..Len(y) /\ j \in 1..Len(x) /\ mx[j] = <<y[j], 0>>
    BY <1>0, <1>1, <1>2, <1>4
  <2>2. CASE j <= Len(a)
    <3>1. j \in 1..Len(a)
      BY <1>4, <2>2
    <3>2. m[j] = ma[j] /\ y[j] = a[j]
      BY <1>1, <1>2, <1>3, <2>1, <2>2
    <3> QED
      BY <1>2, <2>1, <3>1, <3>2
  <2>3. CASE ~ (j <= Len(a))
    <3>1. j - Len(a) \in 1..Len(c)
      BY <1>4, <2>1, <2>3
    <3>2. m[j] = mc[j - Len(a)] /\ y[j] = c[j - Len(a)]
      BY <1>1, <1>2, <1>3, <2>1, <2>3
    <3> QED
      BY <1>2, <2>1, <3>1, <3>2
  <2> QED
    BY <2>2, <2>3
<1>6. mx = m
  BY <1>2, <1>3, <1>4, <1>5, SeqEqual
<1> QED
  BY <1>6, Zenon DEF mx, ma, mc, m, IsJoined

\* A text whose addresses both paths see alike (Plain).
IsPlain(s) ==
  \A i \in 1..Len(s) :
    /\ s[i] \notin {"wide", "vt"}
    /\ s[i] = "https" => i < Len(s) /\ s[i + 1] \notin Link!Bound

LEMMA SameEnd ==
  ASSUME NEW s \in Seq(Units), IsPlain(s), NEW i \in 1..Len(s)
  PROVE  Link!UrlEnd(s, i, Link!Bound) = Link!UrlEnd(s, i, Link!UrlStops)
<1>1. \A j \in i..Len(s) : s[j] \in Link!Bound <=> s[j] \in Link!UrlStops
  <2>1. \A j \in i..Len(s) : j \in 1..Len(s)
    OBVIOUS
  <2> QED
    BY <2>1 DEF IsPlain, Link!Bound, Link!UrlStops
<1>2. {j \in i..Len(s) : s[j] \in Link!Bound} = {j \in i..Len(s) : s[j] \in Link!UrlStops}
  BY <1>1
<1> QED
  BY <1>2, Zenon DEF Link!UrlEnd

\* What the paths give where an address begins that ends before e.
IsAddress(s, i, e, f, g) ==
  /\ JsStep(s, i, f) = <<Link!Link(SubSeq(s, i, e - 1))>> \o f[e]
  /\ WasmStep(s, s, i - 1, g) =
       <<Link!Left(<<>>), Link!Link(SubSeq(s, i, e - 1))>> \o g[e - 1]

LEMMA PlainAddress ==
  ASSUME NEW s \in Seq(Units), IsPlain(s), NEW i \in 1..Len(s), s[i] = "https",
         NEW f, NEW g
  PROVE  \E e \in (i + 1)..(Len(s) + 1) : IsAddress(s, i, e, f, g)
<1> DEFINE n == Len(s)
           e == Link!UrlEnd(s, i + 1, Link!UrlStops)
           at == Hit(s, i - 1)
           d == Behind(s, at)
<1>0. n \in Nat /\ i \in Nat /\ i <= n /\ i >= 1
  OBVIOUS
<1>1. i < n /\ s[i + 1] \notin Link!Bound /\ i + 1 \in 1..n
  BY <1>0 DEF IsPlain
<1>2. e \in (i + 1)..(n + 1) /\ (e <= n => s[e] \in Link!UrlStops)
  BY <1>0, <1>1, UrlEndIs
<1>3. e = Link!UrlEnd(s, i + 1, Link!Bound)
  BY <1>1, SameEnd
<1>4. e <= n => s[e] \in Link!Bound
  BY <1>0, <1>1, <1>3, UrlEndIs
<1>5. Link!UrlEnd(s, i + 1, Link!UrlStops) > i + 1
  <2>1. e # i + 1
    <3> HIDE DEF e
    <3> QED
      BY <1>1, <1>4
  <2> HIDE DEF e
  <2>2. e > i + 1
    BY <1>0, <1>2, <2>1
  <2> QED
    BY <2>2 DEF e
<1>6. JsStep(s, i, f) = <<Link!Link(SubSeq(s, i, e - 1))>> \o f[e]
  <2>1. ~ (i > Len(s))
    BY <1>0
  <2> QED
    BY <1>5, <2>1, Zenon DEF JsStep
<1>7. Hits(s, i - 1) # {} /\ at = i - 1
  <2>1. i - 1 \in (i - 1)..(n - 1) /\ s[(i - 1) + 1] = "https" /\ i - 1 \in Nat
    BY <1>0
  <2>2. Hits(s, i - 1) # {}
    BY <2>1 DEF Hits
  <2>3. at \in (i - 1)..(n - 1) /\ at <= i - 1
    BY <1>0, <2>1, <2>2, HitIs
  <2> HIDE DEF at
  <2>4. at = i - 1
    BY <1>0, <2>3
  <2> QED
    BY <2>2, <2>4
<1>8. d = e - 1
  <2>1. at + 1 < n /\ at + 2 = i + 1
    <3> HIDE DEF at
    <3> QED
      BY <1>0, <1>1, <1>7
  <2> QED
    BY <1>3, <2>1, Zenon DEF Behind
<1>9. Link!Slice(s, i - 1, at) = <<>>
  <2>1. Link!Slice(s, i - 1, i - 1) = SubSeq(s, (i - 1) + 1, i - 1)
    <3>1. i - 1 \in Nat /\ i - 1 <= n
      BY <1>0
    <3> QED
      BY <3>1, SliceIs DEF Upto
  <2>2. SubSeq(s, (i - 1) + 1, i - 1) = <<>>
    BY <1>0
  <2> QED
    BY <1>7, <2>1, <2>2
<1>10. Link!Slice(s, at, d) = SubSeq(s, i, e - 1)
  <2> HIDE DEF e, at, d
  <2>1. e - 1 \in Nat /\ e - 1 <= n /\ i - 1 \in Nat /\ (i - 1) + 1 = i
    BY <1>0, <1>2
  <2>2. Link!Slice(s, i - 1, e - 1) = SubSeq(s, (i - 1) + 1, e - 1)
    BY <2>1, SliceIs DEF Upto
  <2> QED
    BY <1>7, <1>8, <2>1, <2>2
<1>11. WasmStep(s, s, i - 1, g) = <<Link!Left(Link!Slice(s, i - 1, at)), Link!Link(Link!Slice(s, at, d))>> \o g[d]
  BY <1>7, Zenon DEF WasmStep
<1>12. WasmStep(s, s, i - 1, g) = <<Link!Left(<<>>), Link!Link(SubSeq(s, i, e - 1))>> \o g[e - 1]
  BY <1>8, <1>9, <1>10, <1>11, Zenon
<1> QED
  BY <1>2, <1>6, <1>12, Zenon DEF IsAddress

\* A character that begins no address: the WASM path takes it along with the
\* text that it leaves.
LEMMA PlainOther ==
  ASSUME NEW s \in Seq(Units), IsPlain(s), NEW i \in 1..Len(s), s[i] # "https"
  PROVE  /\ Hits(s, i - 1) = Hits(s, i)
         /\ \A m \in i..Len(s) :
              IsJoined(Link!Slice(s, i - 1, m), <<s[i]>>, Link!Slice(s, i, m))
<1> DEFINE n == Len(s)
<1>0. n \in Nat /\ i \in Nat /\ i <= n /\ i >= 1
  OBVIOUS
<1>1. Hits(s, i - 1) = Hits(s, i)
  <2>1. ASSUME NEW x PROVE x \in Hits(s, i - 1) <=> x \in Hits(s, i)
    <3>1. CASE x \in Hits(s, i - 1)
      <4>1. x \in (i - 1)..(n - 1) /\ s[x + 1] = "https"
        BY <3>1 DEF Hits
      <4>2. x # i - 1
        <5> SUFFICES ASSUME x = i - 1 PROVE FALSE
          OBVIOUS
        <5>1. x + 1 = i
          BY <1>0
        <5> QED
          BY <4>1, <5>1
      <4>3. x \in i..(n - 1)
        BY <1>0, <4>1, <4>2
      <4> QED
        BY <3>1, <4>1, <4>3 DEF Hits
    <3>2. CASE x \in Hits(s, i)
      <4>1. x \in i..(n - 1) /\ s[x + 1] = "https"
        BY <3>2 DEF Hits
      <4>2. x \in (i - 1)..(n - 1)
        BY <1>0, <4>1
      <4> QED
        BY <3>2, <4>1, <4>2 DEF Hits
    <3> QED
      BY <3>1, <3>2
  <2> QED
    BY <2>1
<1>2. ASSUME NEW m \in i..n
      PROVE  IsJoined(Link!Slice(s, i - 1, m), <<s[i]>>, Link!Slice(s, i, m))
  <2>1. m \in Nat /\ m <= n /\ i - 1 \in Nat /\ (i - 1) + 1 = i
    BY <1>0
  <2>2. Link!Slice(s, i - 1, m) = SubSeq(s, (i - 1) + 1, m)
    BY <2>1, SliceIs DEF Upto
  <2>3. Link!Slice(s, i, m) = SubSeq(s, i + 1, m)
    BY <1>0, <2>1, SliceIs DEF Upto
  <2>4. SubSeq(s, i, i) = <<s[i]>>
    BY SingleIs
  <2> DEFINE d == i + 1
  <2>5. m \in 0..n /\ i \in 1..(m + 1) /\ d \in i..(m + 1) /\ d - 1 = i
    BY <1>0, <2>1
  <2> HIDE DEF d
  <2>6. IsJoined(SubSeq(s, i, m), SubSeq(s, i, d - 1), SubSeq(s, d, m))
    BY <2>5, Cut
  <2> QED
    BY <2>1, <2>2, <2>3, <2>4, <2>5, <2>6, Zenon DEF d
<1> QED
  BY <1>1, <1>2

LEMMA PlainSame ==
  ASSUME NEW s \in Seq(Units), IsPlain(s)
  PROVE  Link!Marked(Link!RewriteJs(s)) = Link!Marked(Link!RewriteWasm(s))
<1> DEFINE n == Len(s)
<1>0. n \in Nat /\ n <= n
  OBVIOUS
<1>1. Link!Encoded(s) = s /\ Covers(s, s)
  <2>1. \A i \in 1..n : s[i] # "wide"
    BY DEF IsPlain
  <2> QED
    BY <2>1, EncodedIs
<1>2. PICK f : /\ IsJs(f, s) /\ Link!RewriteJs(s) = f[1]
               /\ \A i \in 1..(n + 1) : f[i] \in Seq(Piece)
  BY JsIs
<1>3. PICK g : /\ IsWasm(g, s, s) /\ Link!RewriteWasm(s) = g[0]
               /\ \A i \in 0..n : g[i] \in Seq(Piece)
  BY <1>1, WasmIs, Zenon
<1> DEFINE Js(i) == Joint(MarksOf, f[i])
           Wa(i) == Joint(MarksOf, g[i])
           T == {i \in 0..n : Js(i + 1) = Wa(i)}
           M(p) == MarksOf[p]
\* The values put together of one piece, and of two, in front of a rest.
<1>4. ASSUME NEW p \in Piece, NEW r \in Seq(Piece)
      PROVE  Joint(MarksOf, <<p>> \o r) = M(p) \o Joint(MarksOf, r)
  <2>1. IsJoined(Joint(MarksOf, <<p>> \o r), MarksOf[p], Joint(MarksOf, r))
    BY MarksTyped, JointHead
  <2> QED
    BY <2>1, Zenon DEF IsJoined
<1>5. ASSUME NEW p \in Piece, NEW q \in Piece, NEW r \in Seq(Piece)
      PROVE  Joint(MarksOf, <<p, q>> \o r) = M(p) \o (M(q) \o Joint(MarksOf, r))
  <2>1. <<q>> \o r \in Seq(Piece)
    OBVIOUS
  <2>2. <<p, q>> \o r = <<p>> \o (<<q>> \o r)
    BY PairIs
  <2>3. Joint(MarksOf, <<p>> \o (<<q>> \o r)) = M(p) \o Joint(MarksOf, <<q>> \o r)
    BY <1>4, <2>1
  <2>4. Joint(MarksOf, <<q>> \o r) = M(q) \o Joint(MarksOf, r)
    BY <1>4
  <2> QED
    BY <2>2, <2>3, <2>4, Zenon
<1>6. MarksOf[Link!Left(<<>>)] = <<>>
  <2> DEFINE none == <<>>
             m == MarksOf[Link!Left(none)]
  <2>1. none \in Seq(Units) /\ Len(none) = 0
    OBVIOUS
  <2> HIDE DEF none
  <2>2. m \in Seq(Shades) /\ Len(m) = 0
    BY <2>1, MarksTyped, PieceType
  <2> HIDE DEF m
  <2>3. m = <<>>
    BY <2>2
  <2> QED
    BY <2>3 DEF m, none
<1>7. \A i \in 0..n : (\A j \in 0..n : j > i => j \in T) => i \in T
  <2> SUFFICES ASSUME NEW a \in 0..n, \A j \in 0..n : j > a => j \in T
               PROVE  Js(a + 1) = Wa(a)
    OBVIOUS
  <2> DEFINE i == a + 1
  <2>1. a \in Nat /\ a <= n /\ i \in 1..(n + 1) /\ i \in Nat /\ a = i - 1
        /\ \A j \in 0..n : j > a => Js(j + 1) = Wa(j)
    BY <1>0
  <2> HIDE DEF T, Js, Wa, M, i
  <2>2. f[i] = JsStep(s, i, f)
    BY <1>2, <2>1 DEF IsJs
  <2>3. g[a] = WasmStep(s, s, a, g)
    BY <1>3, <2>1 DEF IsWasm
  <2>4. CASE a = n
    <3>1. i > n
      BY <1>0, <2>1, <2>4
    <3>2. f[i] = <<>>
      BY <2>2, <3>1 DEF JsStep
    <3>3. Js(i) = <<>>
      BY <3>2, JointEmpty DEF Js
    <3>4. Hits(s, a) = {}
      BY <1>0, <2>4 DEF Hits
    <3>5. Link!Slice(s, a, n) = <<>>
      <4>1. Link!Slice(s, n, n) = SubSeq(s, n + 1, n)
        BY <1>0, SliceIs DEF Upto
      <4> QED
        BY <1>0, <2>4, <4>1
    <3>6. g[a] = <<Link!Left(<<>>)>>
      BY <2>3, <3>4, <3>5, Zenon DEF WasmStep
    <3>7. <<>> \in Seq(Units)
      OBVIOUS
    <3>8. Wa(a) = MarksOf[Link!Left(<<>>)]
      <4> DEFINE p == Link!Left(<<>>)
      <4>1. p \in Piece
        BY <3>7, PieceType
      <4> HIDE DEF p
      <4>2. Joint(MarksOf, <<p>>) = MarksOf[p]
        BY <4>1, MarksTyped, AloneIs
      <4> QED
        BY <3>6, <4>2, Zenon DEF Wa, p
    <3> QED
      BY <1>6, <3>3, <3>8 DEF i
  <2>5. CASE a # n /\ s[i] = "https"
    <3>1. i \in 1..n
      BY <1>0, <2>1, <2>5
    <3>2. PICK e \in (i + 1)..(n + 1) : IsAddress(s, i, e, f, g)
      BY <2>5, <3>1, PlainAddress
    <3> DEFINE d == e - 1
               x == SubSeq(s, i, d)
               q == Link!Link(x)
               p == Link!Left(<<>>)
    <3>3. e \in 1..(n + 1) /\ d \in 0..n /\ d > a /\ d + 1 = e
      BY <1>0, <2>1, <3>1
    <3>4. x \in Seq(Units)
      BY <1>0, <2>1, <3>1, <3>3
    <3>5. q \in Piece /\ p \in Piece
      <4>1. <<>> \in Seq(Units)
        OBVIOUS
      <4> QED
        BY <3>4, <4>1, PieceType
    <3>6. f[i] = <<q>> \o f[e] /\ g[a] = <<p, q>> \o g[d]
      BY <2>1, <2>2, <2>3, <3>2, Zenon DEF IsAddress
    <3> HIDE DEF d, q, p
    <3>7. Js(i) = M(q) \o Js(e)
      BY <1>2, <1>4, <3>3, <3>5, <3>6 DEF Js
    <3>8. Wa(a) = M(p) \o (M(q) \o Wa(d))
      BY <1>3, <1>5, <3>3, <3>5, <3>6 DEF Wa
    <3>9. Js(e) = Wa(d)
      BY <2>1, <3>3
    <3>10. M(q) \o Wa(d) \in Seq(Shades)
      <4>1. M(q) \in Seq(Shades)
        BY <3>5, MarksTyped DEF M
      <4>2. Wa(d) \in Seq(Shades)
        BY <1>3, <3>3, MarksTyped, JointType DEF Wa
      <4> QED
        BY <4>1, <4>2
    <3>11. M(p) = <<>>
      BY <1>6 DEF M, p
    <3> DEFINE y == M(q) \o Wa(d)
    <3> HIDE DEF y
    <3>12. <<>> \o y = y
      BY <3>10 DEF y
    <3>13. Js(i) = y /\ Wa(a) = <<>> \o y
      BY <3>7, <3>8, <3>9, <3>11, Zenon DEF y
    <3> QED
      BY <3>12, <3>13 DEF i
  <2>6. CASE a # n /\ s[i] # "https"
    <3>1. i \in 1..n /\ i \in 0..n /\ i > a /\ s[i] \in Units
      BY <1>0, <2>1, <2>6
    <3> DEFINE x == <<s[i]>>
               p == Link!Left(x)
               d == i + 1
    <3>2. ~ (i > n) /\ d \in 1..(n + 1)
      BY <1>0, <3>1
    <3>3. f[i] = <<p>> \o f[d]
      BY <2>2, <2>6, <3>2, Zenon DEF JsStep
    <3>4. x \in Seq(Units)
      BY <3>1
    <3>5. p \in Piece
      BY <3>4, PieceType
    <3> HIDE DEF d, x
    <3>6. Js(i) = M(p) \o Wa(i)
      <4>1. Js(i) = M(p) \o Js(d)
        <5> HIDE DEF p
        <5> QED
          BY <1>2, <1>4, <3>2, <3>3, <3>5 DEF Js
      <4>2. Js(d) = Wa(i)
        BY <2>1, <3>1 DEF d
      <4> QED
        BY <4>1, <4>2, Zenon
    <3>7. g[i] = WasmStep(s, s, i, g)
      BY <1>3, <3>1 DEF IsWasm
    <3>8. Hits(s, a) = Hits(s, i)
          /\ \A m \in i..n : IsJoined(Link!Slice(s, a, m), x, Link!Slice(s, i, m))
      BY <2>1, <2>6, <3>1, PlainOther DEF x
    <3>9. ASSUME NEW m \in i..n
          PROVE  /\ Link!Slice(s, a, m) \in Seq(Units) /\ Link!Slice(s, i, m) \in Seq(Units)
                 /\ IsJoined(M(Link!Left(Link!Slice(s, a, m))), M(p), M(Link!Left(Link!Slice(s, i, m))))
      <4>1. Link!Slice(s, a, m) \in Seq(Units) /\ Link!Slice(s, i, m) \in Seq(Units)
        <5>1. m \in Nat
          BY <1>0, <2>1
        <5> QED
          BY <2>1, <5>1, SliceIs
      <4> QED
        BY <3>4, <3>8, <4>1, LeftCut DEF M
    <3>10. CASE Hits(s, i) = {}
      <4> DEFINE y == Link!Slice(s, a, n)
                 z == Link!Slice(s, i, n)
      <4>1. g[a] = <<Link!Left(y)>> /\ g[i] = <<Link!Left(z)>>
        BY <2>3, <3>7, <3>8, <3>10, Zenon DEF WasmStep
      <4>2. n \in i..n
        BY <1>0, <3>1
      <4>3. y \in Seq(Units) /\ z \in Seq(Units) /\ IsJoined(M(Link!Left(y)), M(p), M(Link!Left(z)))
        BY <3>9, <4>2
      <4> HIDE DEF y, z
      <4>4. Link!Left(y) \in Piece /\ Link!Left(z) \in Piece
        BY <4>3, PieceType
      <4>5. Wa(a) = M(Link!Left(y)) /\ Wa(i) = M(Link!Left(z))
        BY <4>1, <4>4, MarksTyped, AloneIs DEF Wa, M
      <4> QED
        BY <3>6, <4>3, <4>5, Zenon DEF IsJoined, i
    <3>11. CASE Hits(s, i) # {}
      <4> DEFINE at == Hit(s, i)
                 b2 == Behind(s, at)
                 y == Link!Slice(s, a, at)
                 z == Link!Slice(s, i, at)
                 w == Link!Slice(s, at, b2)
                 q == Link!Link(w)
      <4>1. at = Hit(s, a)
        BY <3>8 DEF Hit
      <4>2. g[a] = <<Link!Left(y), q>> \o g[b2] /\ g[i] = <<Link!Left(z), q>> \o g[b2]
        BY <2>3, <3>7, <3>8, <3>11, <4>1, Zenon DEF WasmStep
      <4>3. at \in i..(n - 1)
        BY <1>0, <2>1, <3>11, HitIs
      <4> HIDE DEF at
      <4>4. at \in Nat /\ at < n /\ at \in i..n
        BY <1>0, <2>1, <4>3
      <4>5. b2 \in (at + 1)..n
        BY <1>0, <4>4, BehindIs
      <4> HIDE DEF b2
      <4>6. b2 \in 0..n /\ b2 \in Nat
        BY <1>0, <4>4, <4>5
      <4>7. w \in Seq(Units)
        BY <4>4, <4>6, SliceIs
      <4>8. y \in Seq(Units) /\ z \in Seq(Units) /\ IsJoined(M(Link!Left(y)), M(p), M(Link!Left(z)))
        BY <3>9, <4>4
      <4> HIDE DEF w, y, z
      <4>9. Link!Left(y) \in Piece /\ Link!Left(z) \in Piece /\ q \in Piece
        BY <4>7, <4>8, PieceType
      <4> HIDE DEF q
      <4> DEFINE R == M(q) \o Wa(b2)
      <4>10. Wa(a) = M(Link!Left(y)) \o R /\ Wa(i) = M(Link!Left(z)) \o R
        <5>1. g[b2] \in Seq(Piece)
          BY <1>3, <4>6
        <5>2. ASSUME NEW h \in Piece
              PROVE  Joint(MarksOf, <<h, q>> \o g[b2]) = M(h) \o R
          BY <1>5, <4>9, <5>1 DEF Wa
        <5>3. Joint(MarksOf, <<Link!Left(y), q>> \o g[b2]) = M(Link!Left(y)) \o R
          BY <4>9, <5>2
        <5>4. Joint(MarksOf, <<Link!Left(z), q>> \o g[b2]) = M(Link!Left(z)) \o R
          BY <4>9, <5>2
        <5> QED
          BY <4>2, <5>3, <5>4, Zenon DEF Wa
      <4>11. M(p) \in Seq(Shades) /\ M(Link!Left(z)) \in Seq(Shades) /\ R \in Seq(Shades)
        <5>1. M(p) \in Seq(Shades) /\ M(Link!Left(z)) \in Seq(Shades) /\ M(q) \in Seq(Shades)
          BY <3>5, <4>9, MarksTyped DEF M
        <5>2. Wa(b2) \in Seq(Shades)
          BY <1>3, <4>6, MarksTyped, JointType DEF Wa
        <5> QED
          BY <5>1, <5>2
      <4> HIDE DEF R
      <4>12. Regroups(M(p), M(Link!Left(z)), R)
        BY <4>11, Associative
      <4> QED
        BY <3>6, <4>8, <4>10, <4>12, Zenon DEF IsJoined, Regroups, i
    <3> QED
      BY <3>10, <3>11
  <2> QED
    BY <2>4, <2>5, <2>6
<1> HIDE DEF T, Js, Wa
<1>8. \A i \in 0..n : i \in T
  BY <1>0, <1>7, DownSet
<1>9. Js(0 + 1) = Wa(0)
  <2>1. 0 \in T
    BY <1>0, <1>8
  <2> QED
    BY <2>1, Zenon DEF T
<1>10. Link!Marked(Link!RewriteJs(s)) = Js(1)
  <2>1. 1 \in 1..(n + 1)
    BY <1>0
  <2> QED
    BY <1>2, <2>1, MarkedIs DEF Js
<1>11. Link!Marked(Link!RewriteWasm(s)) = Wa(0)
  <2>1. 0 \in 0..n
    BY <1>0
  <2> QED
    BY <1>3, <2>1, MarkedIs DEF Wa
<1>12. 0 + 1 = 1
  OBVIOUS
<1> QED
  BY <1>9, <1>10, <1>11, <1>12

\* Texts that grow by a unit at a time are sequences of units.
TextHeld == part = "links" => text \in Seq(Units)

LEMMA InitText == Init => TextHeld
BY DEF Init, TextHeld, Link!Init

LEMMA StepText == TextHeld /\ [Next]_all => TextHeld'
<1> SUFFICES ASSUME TextHeld, [Next]_all PROVE TextHeld'
  OBVIOUS
<1>1. CASE part = "links" /\ Link!Next /\ UNCHANGED part
  BY <1>1 DEF TextHeld, Link!Next
<1>2. CASE part' = part /\ part # "links"
  BY <1>2 DEF TextHeld
<1>3. CASE UNCHANGED all
  BY <1>3 DEF TextHeld, all, links
<1> QED
  BY <1>1, <1>2, <1>3 DEF Next

\* What is left of a text and what became a link is that text again, on both
\* paths and for texts of any length (rewriteText), and the paths find the same
\* addresses in every text of which their offsets and ends are the same.
LEMMA RewritesText ==
  ASSUME text \in Seq(Units)
  PROVE  Link!LosesNothing /\ Link!PlainTextsAgree
<1>1. Link!LosesNothing
  BY JsLosesNothing, WasmLosesNothing DEF Link!LosesNothing
<1>2. ASSUME Link!Plain PROVE Link!SameOutput
  <2> DEFINE s == text
  <2>1. DOMAIN s = 1..Len(s)
    OBVIOUS
  <2>2. ASSUME NEW i \in 1..Len(s) PROVE s[i] \notin {"wide", "vt"}
    <3>1. s[i] \in Link!ToSet(s)
      BY <2>1 DEF Link!ToSet
    <3> QED
      BY <1>2, <3>1 DEF Link!Plain
  <2>3. IsPlain(s)
    BY <1>2, <2>1, <2>2 DEF IsPlain, Link!Plain
  <2> QED
    BY <2>3, PlainSame DEF Link!SameOutput
<1> QED
  BY <1>1, <1>2 DEF Link!PlainTextsAgree

THEOREM RewritesSoundlyAlways == Spec => []RewritesSoundly
<1>1. TextHeld => RewritesSoundly
  BY RewritesText DEF TextHeld, RewritesSoundly
<1>2. Spec => Init /\ [][Next]_all
  BY PTL DEF Spec
<1> QED
  BY <1>1, <1>2, InitText, StepText, PTL

-----------------------------------------------------------------------------
\* Links are read back (b64url, fromB64url): base64.

Octets == 0..255

LEMMA LinkSelect == ASSUME NEW q, NEW keep PROVE Link!Select(q, keep) = Select(q, keep)
BY DEF Link!Select, Select

LEMMA LinkMax == ASSUME NEW T PROVE Link!Max(T) = Max(T)
BY DEF Link!Max, Max

LEMMA PowersAre ==
  /\ Link!Pow2(0) = 1 /\ Link!Pow2(2) = 4 /\ Link!Pow2(4) = 16 /\ Link!Pow2(6) = 64
  /\ Link!Pow2(8) = 256 /\ Link!Pow2(10) = 1024
BY DEF Link!Pow2

LEMMA AtIs ==
  ASSUME NEW S, 0 \in S, NEW q \in Seq(S), NEW i \in Nat
  PROVE  /\ Link!At(q, i) \in S
         /\ i \in 1..Len(q) => Link!At(q, i) = q[i]
         /\ i > Len(q) => Link!At(q, i) = 0
<1>1. DOMAIN q = 1..Len(q) /\ Len(q) \in Nat
  OBVIOUS
<1>2. CASE i \in 1..Len(q)
  BY <1>1, <1>2 DEF Link!At
<1>3. CASE i \notin 1..Len(q)
  BY <1>1, <1>3 DEF Link!At
<1> QED
  BY <1>1, <1>2, <1>3

\* The n-th digit, from 0, of the bytes c, and the m-th byte of the digits d;
\* i bytes (digits) are passed, and off bits of the next.
DigitOf(c, i, off) ==
  ((Link!At(c, i + 1) * 256 + Link!At(c, i + 2)) \div Link!Pow2(10 - off)) % 64
ByteOf(d, i, off) ==
  ((Link!At(d, i + 1) * 64 + Link!At(d, i + 2)) \div Link!Pow2(4 - off)) % 256

DigitAt(c, n) == DigitOf(c, (6 * n) \div 8, (6 * n) % 8)
ByteAt(d, m) == ByteOf(d, (8 * m) \div 6, (8 * m) % 6)

Digits(c) == [n \in 1..((4 * Len(c) + 2) \div 3) |-> DigitAt(c, n - 1)]

\* Three bytes make four digits ...
LEMMA DigitsAre ==
  ASSUME NEW c \in Seq(Octets), NEW q \in Nat
  PROVE  LET x == Link!At(c, 3 * q + 1)
             y == Link!At(c, 3 * q + 2)
             z == Link!At(c, 3 * q + 3)
         IN  /\ x \in Octets /\ y \in Octets /\ z \in Octets
             /\ DigitAt(c, 4 * q) = x \div 4
             /\ DigitAt(c, 4 * q + 1) = (x % 4) * 16 + y \div 16
             /\ DigitAt(c, 4 * q + 2) = (y % 16) * 4 + z \div 64
             /\ DigitAt(c, 4 * q + 3) = z % 64
<1> DEFINE x == Link!At(c, 3 * q + 1)
           y == Link!At(c, 3 * q + 2)
           z == Link!At(c, 3 * q + 3)
           w == Link!At(c, 3 * q + 4)
<1>1. x \in Octets /\ y \in Octets /\ z \in Octets /\ w \in Octets
  <2>1. 0 \in Octets /\ 3 * q + 1 \in Nat /\ 3 * q + 2 \in Nat /\ 3 * q + 3 \in Nat /\ 3 * q + 4 \in Nat
    BY DEF Octets
  <2> QED
    BY <2>1, AtIs
<1>2. /\ (6 * (4 * q)) \div 8 = 3 * q /\ (6 * (4 * q)) % 8 = 0
      /\ (6 * (4 * q + 1)) \div 8 = 3 * q /\ (6 * (4 * q + 1)) % 8 = 6
      /\ (6 * (4 * q + 2)) \div 8 = 3 * q + 1 /\ (6 * (4 * q + 2)) % 8 = 4
      /\ (6 * (4 * q + 3)) \div 8 = 3 * q + 2 /\ (6 * (4 * q + 3)) % 8 = 2
  OBVIOUS
<1>3. /\ 3 * q + 1 + 1 = 3 * q + 2 /\ 3 * q + 1 + 2 = 3 * q + 3
      /\ 3 * q + 2 + 1 = 3 * q + 3 /\ 3 * q + 2 + 2 = 3 * q + 4
      /\ 10 - 0 = 10 /\ 10 - 6 = 4 /\ 10 - 4 = 6 /\ 10 - 2 = 8
  OBVIOUS
<1>4. /\ DigitAt(c, 4 * q) = ((x * 256 + y) \div 1024) % 64
      /\ DigitAt(c, 4 * q + 1) = ((x * 256 + y) \div 16) % 64
      /\ DigitAt(c, 4 * q + 2) = ((y * 256 + z) \div 64) % 64
      /\ DigitAt(c, 4 * q + 3) = ((z * 256 + w) \div 256) % 64
  <2>1. /\ DigitAt(c, 4 * q) = DigitOf(c, 3 * q, 0)
        /\ DigitAt(c, 4 * q + 1) = DigitOf(c, 3 * q, 6)
        /\ DigitAt(c, 4 * q + 2) = DigitOf(c, 3 * q + 1, 4)
        /\ DigitAt(c, 4 * q + 3) = DigitOf(c, 3 * q + 2, 2)
    BY <1>2 DEF DigitAt
  <2>2. DigitOf(c, 3 * q, 0) = ((x * 256 + y) \div 1024) % 64
    BY PowersAre DEF DigitOf
  <2>3. DigitOf(c, 3 * q, 6) = ((x * 256 + y) \div 16) % 64
    BY PowersAre DEF DigitOf
  <2>4. DigitOf(c, 3 * q + 1, 4) = ((y * 256 + z) \div 64) % 64
    BY <1>3, PowersAre DEF DigitOf
  <2>5. DigitOf(c, 3 * q + 2, 2) = ((z * 256 + w) \div 256) % 64
    BY <1>3, PowersAre DEF DigitOf
  <2> QED
    BY <2>1, <2>2, <2>3, <2>4, <2>5
<1> HIDE DEF x, y, z, w
<1>5. /\ ((x * 256 + y) \div 1024) % 64 = x \div 4
      /\ ((x * 256 + y) \div 16) % 64 = (x % 4) * 16 + y \div 16
  BY <1>1 DEF Octets
<1>6. /\ ((y * 256 + z) \div 64) % 64 = (y % 16) * 4 + z \div 64
      /\ ((z * 256 + w) \div 256) % 64 = z % 64
  BY <1>1 DEF Octets
<1> QED
  BY <1>1, <1>4, <1>5, <1>6 DEF x, y, z

\* ... and four digits three bytes.
LEMMA BytesAre ==
  ASSUME NEW d \in Seq(0..63), NEW q \in Nat
  PROVE  LET x == Link!At(d, 4 * q + 1)
             y == Link!At(d, 4 * q + 2)
             z == Link!At(d, 4 * q + 3)
             w == Link!At(d, 4 * q + 4)
         IN  /\ x \in 0..63 /\ y \in 0..63 /\ z \in 0..63 /\ w \in 0..63
             /\ ByteAt(d, 3 * q) = x * 4 + y \div 16
             /\ ByteAt(d, 3 * q + 1) = (y % 16) * 16 + z \div 4
             /\ ByteAt(d, 3 * q + 2) = (z % 4) * 64 + w
<1> DEFINE x == Link!At(d, 4 * q + 1)
           y == Link!At(d, 4 * q + 2)
           z == Link!At(d, 4 * q + 3)
           w == Link!At(d, 4 * q + 4)
           six == 0..63
<1>1. x \in six /\ y \in six /\ z \in six /\ w \in six
  <2>1. 0 \in six /\ 4 * q + 1 \in Nat /\ 4 * q + 2 \in Nat /\ 4 * q + 3 \in Nat /\ 4 * q + 4 \in Nat
    OBVIOUS
  <2> QED
    BY <2>1, AtIs
<1>2. /\ (8 * (3 * q)) \div 6 = 4 * q /\ (8 * (3 * q)) % 6 = 0
      /\ (8 * (3 * q + 1)) \div 6 = 4 * q + 1 /\ (8 * (3 * q + 1)) % 6 = 2
      /\ (8 * (3 * q + 2)) \div 6 = 4 * q + 2 /\ (8 * (3 * q + 2)) % 6 = 4
  OBVIOUS
<1>3. /\ 4 * q + 1 + 1 = 4 * q + 2 /\ 4 * q + 1 + 2 = 4 * q + 3
      /\ 4 * q + 2 + 1 = 4 * q + 3 /\ 4 * q + 2 + 2 = 4 * q + 4
      /\ 4 - 0 = 4 /\ 4 - 2 = 2 /\ 4 - 4 = 0
  OBVIOUS
<1>4. /\ ByteAt(d, 3 * q) = ((x * 64 + y) \div 16) % 256
      /\ ByteAt(d, 3 * q + 1) = ((y * 64 + z) \div 4) % 256
      /\ ByteAt(d, 3 * q + 2) = ((z * 64 + w) \div 1) % 256
  <2>1. /\ ByteAt(d, 3 * q) = ByteOf(d, 4 * q, 0)
        /\ ByteAt(d, 3 * q + 1) = ByteOf(d, 4 * q + 1, 2)
        /\ ByteAt(d, 3 * q + 2) = ByteOf(d, 4 * q + 2, 4)
    BY <1>2 DEF ByteAt
  <2>2. ByteOf(d, 4 * q, 0) = ((x * 64 + y) \div 16) % 256
    BY PowersAre DEF ByteOf
  <2>3. ByteOf(d, 4 * q + 1, 2) = ((y * 64 + z) \div 4) % 256
    BY <1>3, PowersAre DEF ByteOf
  <2>4. ByteOf(d, 4 * q + 2, 4) = ((z * 64 + w) \div 1) % 256
    BY <1>3, PowersAre DEF ByteOf
  <2> QED
    BY <2>1, <2>2, <2>3, <2>4
<1> HIDE DEF x, y, z, w
<1>5. /\ ((x * 64 + y) \div 16) % 256 = x * 4 + y \div 16
      /\ ((y * 64 + z) \div 4) % 256 = (y % 16) * 16 + z \div 4
      /\ ((z * 64 + w) \div 1) % 256 = (z % 4) * 64 + w
  BY <1>1
<1> QED
  BY <1>1, <1>4, <1>5 DEF x, y, z, w

LEMMA DigitsTyped ==
  ASSUME NEW c \in Seq(Octets)
  PROVE  /\ Digits(c) \in Seq(0..63)
         /\ Len(Digits(c)) = (4 * Len(c) + 2) \div 3
         /\ \A n \in Nat : DigitAt(c, n) \in 0..63
<1> DEFINE L == Len(c)
           N == (4 * L + 2) \div 3
<1>1. \A n \in Nat : DigitAt(c, n) \in 0..63
  <2> TAKE n \in Nat
  <2> DEFINE q == n \div 4
             r == n % 4
             x == Link!At(c, 3 * q + 1)
             y == Link!At(c, 3 * q + 2)
             z == Link!At(c, 3 * q + 3)
  <2>1. q \in Nat /\ r \in 0..3 /\ n = 4 * q + r
    OBVIOUS
  <2> HIDE DEF q, r
  <2>2. /\ x \in Octets /\ y \in Octets /\ z \in Octets
        /\ DigitAt(c, 4 * q) = x \div 4
        /\ DigitAt(c, 4 * q + 1) = (x % 4) * 16 + y \div 16
        /\ DigitAt(c, 4 * q + 2) = (y % 16) * 4 + z \div 64
        /\ DigitAt(c, 4 * q + 3) = z % 64
    BY <2>1, DigitsAre
  <2> HIDE DEF x, y, z
  <2>3. /\ x \div 4 \in 0..63 /\ (x % 4) * 16 + y \div 16 \in 0..63
        /\ (y % 16) * 4 + z \div 64 \in 0..63 /\ z % 64 \in 0..63
    BY <2>2 DEF Octets
  <2>4. n = 4 * q \/ n = 4 * q + 1 \/ n = 4 * q + 2 \/ n = 4 * q + 3
    BY <2>1
  <2> QED
    BY <2>2, <2>3, <2>4, Zenon
<1>2. L \in Nat /\ N \in Nat
  OBVIOUS
<1>3. \A n \in 1..N : DigitAt(c, n - 1) \in 0..63
  BY <1>1, <1>2
<1>4. Digits(c) = [n \in 1..N |-> DigitAt(c, n - 1)]
  BY DEF Digits
<1> HIDE DEF N
<1>5. Digits(c) \in Seq(0..63) /\ Len(Digits(c)) = N
  BY <1>2, <1>3, <1>4
<1> QED
  BY <1>1, <1>5 DEF N

\* Two numbers put side by side in one are read out again.
LEMMA WholeAgain ==
  ASSUME NEW n \in Octets
  PROVE  /\ (n \div 16) * 16 + (n % 16) = n
         /\ (n \div 64) * 64 + (n % 64) = n
BY DEF Octets

LEMMA SplitIs ==
  ASSUME NEW h \in Nat
  PROVE  /\ \A r \in 0..3 : (h * 4 + r) \div 4 = h /\ (h * 4 + r) % 4 = r
         /\ \A r \in 0..15 : (h * 16 + r) \div 16 = h /\ (h * 16 + r) % 16 = r
OBVIOUS

\* The bytes of the digits are the bytes they were made of.
LEMMA BytesComeBack ==
  ASSUME NEW c \in Seq(Octets), NEW m \in 0..(Len(c) - 1)
  PROVE  ByteAt(Digits(c), m) = c[m + 1]
<1> DEFINE L == Len(c)
           d == Digits(c)
           N == (4 * L + 2) \div 3
           q == m \div 3
           r == m % 3
           x == Link!At(c, 3 * q + 1)
           y == Link!At(c, 3 * q + 2)
           z == Link!At(c, 3 * q + 3)
<1>1. /\ L \in Nat /\ m \in Nat /\ m < L /\ q \in Nat /\ r \in 0..2 /\ m = 3 * q + r
  OBVIOUS
<1>2. N \in Nat /\ (r = 0 => 4 * q + 2 <= N) /\ (r = 1 => 4 * q + 3 <= N) /\ (r = 2 => 4 * q + 4 <= N)
  <2> HIDE DEF q, r, L
  <2> QED
    BY <1>1
<1>3. d \in Seq(0..63) /\ Len(d) = N /\ \A n \in 1..N : d[n] = DigitAt(c, n - 1)
  BY DigitsTyped DEF Digits
<1>4. \A n \in 0..(N - 1) : Link!At(d, n + 1) = DigitAt(c, n)
  <2> HIDE DEF d, N
  <2>0. 0 \in 0..63
    OBVIOUS
  <2> TAKE n \in 0..(N - 1)
  <2>1. n + 1 \in 1..N /\ n + 1 \in Nat /\ n + 1 - 1 = n
    BY <1>2
  <2>2. Link!At(d, n + 1) = d[n + 1]
    BY <1>3, <2>0, <2>1, AtIs
  <2> QED
    BY <1>3, <2>1, <2>2
<1>5. /\ x \in Octets /\ y \in Octets /\ z \in Octets
      /\ DigitAt(c, 4 * q) = x \div 4
      /\ DigitAt(c, 4 * q + 1) = (x % 4) * 16 + y \div 16
      /\ DigitAt(c, 4 * q + 2) = (y % 16) * 4 + z \div 64
      /\ DigitAt(c, 4 * q + 3) = z % 64
  <2> HIDE DEF q
  <2> QED
    BY <1>1, DigitsAre
<1> HIDE DEF d, N, q, r
<1>6. /\ ByteAt(d, 3 * q) = Link!At(d, 4 * q + 1) * 4 + Link!At(d, 4 * q + 2) \div 16
      /\ ByteAt(d, 3 * q + 1) = (Link!At(d, 4 * q + 2) % 16) * 16 + Link!At(d, 4 * q + 3) \div 4
      /\ ByteAt(d, 3 * q + 2) = (Link!At(d, 4 * q + 3) % 4) * 64 + Link!At(d, 4 * q + 4)
  BY <1>1, <1>3, BytesAre
<1>7. 0 \in Octets
  BY DEF Octets
<1>8. CASE r = 0
  <2>1. 4 * q \in 0..(N - 1) /\ 4 * q + 1 \in 0..(N - 1) /\ 4 * q + 1 + 1 = 4 * q + 2
    BY <1>1, <1>2, <1>8
  <2>2. Link!At(d, 4 * q + 1) = x \div 4 /\ Link!At(d, 4 * q + 2) = (x % 4) * 16 + y \div 16
    BY <1>4, <1>5, <2>1
  <2>3. x = c[m + 1] /\ m = 3 * q
    <3>1. 3 * q + 1 \in 1..L /\ 3 * q + 1 \in Nat /\ m = 3 * q
      BY <1>1, <1>8
    <3> QED
      BY <1>7, <3>1, AtIs
  <2> HIDE DEF x, y
  <2>4. (x \div 4) * 4 + ((x % 4) * 16 + y \div 16) \div 16 = x
    BY <1>5 DEF Octets
  <2>5. ByteAt(d, m) = (x \div 4) * 4 + ((x % 4) * 16 + y \div 16) \div 16
    <3>1. ByteAt(d, m) = ByteAt(d, 3 * q)
      BY <2>3, Zenon
    <3> QED
      BY <1>6, <2>2, <3>1
  <2> QED
    BY <2>3, <2>4, <2>5 DEF d
<1>9. CASE r = 1
  <2>1. 4 * q + 1 \in 0..(N - 1) /\ 4 * q + 2 \in 0..(N - 1)
        /\ 4 * q + 1 + 1 = 4 * q + 2 /\ 4 * q + 2 + 1 = 4 * q + 3
    BY <1>1, <1>2, <1>9
  <2>2. /\ Link!At(d, 4 * q + 2) = (x % 4) * 16 + y \div 16
        /\ Link!At(d, 4 * q + 3) = (y % 16) * 4 + z \div 64
    BY <1>4, <1>5, <2>1
  <2>3. y = c[m + 1] /\ m = 3 * q + 1
    <3>1. 3 * q + 2 \in 1..L /\ 3 * q + 2 \in Nat /\ m = 3 * q + 1 /\ m + 1 = 3 * q + 2
      BY <1>1, <1>9
    <3> QED
      BY <1>7, <3>1, AtIs
  <2> HIDE DEF x, y, z
  <2>4. (((x % 4) * 16 + y \div 16) % 16) * 16 + ((y % 16) * 4 + z \div 64) \div 4 = y
    <3>1. ((x % 4) * 16 + y \div 16) % 16 = y \div 16
      <4>1. x % 4 \in Nat /\ y \div 16 \in 0..15
        BY <1>5 DEF Octets
      <4> QED
        BY <4>1, SplitIs
    <3>2. ((y % 16) * 4 + z \div 64) \div 4 = y % 16
      <4>1. y % 16 \in Nat /\ z \div 64 \in 0..3
        BY <1>5 DEF Octets
      <4> QED
        BY <4>1, SplitIs
    <3>3. (y \div 16) * 16 + (y % 16) = y
      BY <1>5, WholeAgain
    <3> QED
      BY <3>1, <3>2, <3>3
  <2>5. ByteAt(d, m) = (((x % 4) * 16 + y \div 16) % 16) * 16 + ((y % 16) * 4 + z \div 64) \div 4
    <3>1. ByteAt(d, m) = ByteAt(d, 3 * q + 1)
      BY <2>3, Zenon
    <3> QED
      BY <1>6, <2>2, <3>1
  <2> QED
    BY <2>3, <2>4, <2>5 DEF d
<1>10. CASE r = 2
  <2>1. 4 * q + 2 \in 0..(N - 1) /\ 4 * q + 3 \in 0..(N - 1)
        /\ 4 * q + 2 + 1 = 4 * q + 3 /\ 4 * q + 3 + 1 = 4 * q + 4
    BY <1>1, <1>2, <1>10
  <2>2. /\ Link!At(d, 4 * q + 3) = (y % 16) * 4 + z \div 64
        /\ Link!At(d, 4 * q + 4) = z % 64
    BY <1>4, <1>5, <2>1
  <2>3. z = c[m + 1] /\ m = 3 * q + 2
    <3>1. 3 * q + 3 \in 1..L /\ 3 * q + 3 \in Nat /\ m = 3 * q + 2 /\ m + 1 = 3 * q + 3
      BY <1>1, <1>10
    <3> QED
      BY <1>7, <3>1, AtIs
  <2> HIDE DEF y, z
  <2>4. (((y % 16) * 4 + z \div 64) % 4) * 64 + (z % 64) = z
    <3>1. ((y % 16) * 4 + z \div 64) % 4 = z \div 64
      <4>1. y % 16 \in Nat /\ z \div 64 \in 0..3
        BY <1>5 DEF Octets
      <4> QED
        BY <4>1, SplitIs
    <3>2. (z \div 64) * 64 + (z % 64) = z
      BY <1>5, WholeAgain
    <3> QED
      BY <3>1, <3>2
  <2>5. ByteAt(d, m) = (((y % 16) * 4 + z \div 64) % 4) * 64 + (z % 64)
    <3>1. ByteAt(d, m) = ByteAt(d, 3 * q + 2)
      BY <2>3, Zenon
    <3> QED
      BY <1>6, <2>2, <3>1
  <2> QED
    BY <2>3, <2>4, <2>5 DEF d
<1> QED
  BY <1>1, <1>8, <1>9, <1>10, DigitsTyped DEF d

LEMMA ElementIn ==
  ASSUME NEW S, NEW q \in Seq(S)
  PROVE  \A j \in 1..Len(q) : q[j] \in S
OBVIOUS

\* All of a sequence is selected, or nothing.
LEMMA SelectAll ==
  ASSUME NEW S, NEW q \in Seq(S), NEW keep, S \subseteq keep
  PROVE  Select(q, keep) = q
<1> DEFINE n == Len(q)
           g == [i \in 0..n |-> SubSeq(q, 1, i)]
<1>1. n \in Nat /\ g[0] = <<>> /\ g[n] = q
  OBVIOUS
<1>2. ASSUME NEW i \in 1..n PROVE g[i] = Append(g[i - 1], q[i])
  <2> DEFINE l == SubSeq(q, 1, i)
             a == SubSeq(q, 1, i - 1)
             r == Append(a, q[i])
  <2>1. /\ l \in Seq(S) /\ Len(l) = i /\ \A j \in 1..i : l[j] = q[j]
        /\ a \in Seq(S) /\ Len(a) = i - 1 /\ \A j \in 1..(i - 1) : a[j] = q[j]
        /\ q[i] \in S
    BY <1>1
  <2>2. g[i] = l /\ g[i - 1] = a
    BY <1>1
  <2> HIDE DEF l, a, g
  <2>3. r \in Seq(S) /\ Len(r) = i /\ \A j \in 1..i : r[j] = q[j]
    BY <2>1
  <2> HIDE DEF r
  <2>4. l = r
    BY <2>1, <2>3, SeqEqual
  <2> QED
    BY <2>2, <2>4 DEF r
<1>3. \A i \in 1..n : q[i] \in keep
  OBVIOUS
<1> HIDE DEF g
<1>4. IsKept(g, q, keep)
  BY <1>1, <1>2, <1>3 DEF IsKept
<1> QED
  BY <1>1, <1>4, SelectOnly

LEMMA SelectNone ==
  ASSUME NEW S, NEW q \in Seq(S), NEW keep, S \cap keep = {}
  PROVE  Select(q, keep) = <<>>
<1> DEFINE n == Len(q)
           g == [i \in 0..n |-> <<>>]
<1>1. n \in Nat /\ g[0] = <<>> /\ g[n] = <<>> /\ \A i \in 1..n : q[i] \notin keep
  OBVIOUS
<1>2. \A i \in 1..n : g[i] = g[i - 1]
  BY <1>1
<1> HIDE DEF g
<1>3. IsKept(g, q, keep)
  BY <1>1, <1>2 DEF IsKept
<1> QED
  BY <1>1, <1>3, SelectOnly

\* A last group of two or three digits, and what fills it up.
LEMMA PadsAre ==
  ASSUME NEW L \in Nat, NEW N, N = (4 * L + 2) \div 3
  PROVE  /\ N \in Nat /\ Link!Padding(N) \in 0..2 /\ (N + Link!Padding(N)) % 4 = 0 /\ N % 4 # 1
         /\ (6 * N) \div 8 = L
         /\ Link!Pads(N) \in Seq({66}) /\ Len(Link!Pads(N)) = Link!Padding(N)
<1>1. N \in Nat /\ N % 4 \in {0, 2, 3} /\ (6 * N) \div 8 = L
  <2> DEFINE a == L \div 3
             c == L % 3
  <2>1. a \in Nat /\ c \in 0..2 /\ L = 3 * a + c
    OBVIOUS
  <2> HIDE DEF a, c
  <2>2. CASE c = 0
    <3>1. N = 4 * a
      BY <2>1, <2>2
    <3> QED
      BY <2>1, <2>2, <3>1
  <2>3. CASE c = 1
    <3>1. N = 4 * a + 2
      BY <2>1, <2>3
    <3> QED
      BY <2>1, <2>3, <3>1
  <2>4. CASE c = 2
    <3>1. N = 4 * a + 3
      BY <2>1, <2>4
    <3> QED
      BY <2>1, <2>4, <3>1
  <2> QED
    BY <2>1, <2>2, <2>3, <2>4
<1>2. Link!Padding(N) \in 0..2 /\ (N + Link!Padding(N)) % 4 = 0 /\ N % 4 # 1
  BY <1>1 DEF Link!Padding
<1>3. Link!Pads(N) = [i \in 1..Link!Padding(N) |-> 66]
  BY DEF Link!Pads, Link!Pad
<1> DEFINE m == Link!Padding(N)
<1>4. m \in Nat
  BY <1>2
<1> HIDE DEF m
<1>5. [i \in 1..m |-> 66] \in Seq({66}) /\ Len([i \in 1..m |-> 66]) = m
  BY <1>4
<1> QED
  BY <1>1, <1>2, <1>3, <1>5 DEF m

LEMMA BtoaIs ==
  ASSUME NEW c \in Seq(Octets)
  PROVE  /\ Link!Btoa(c) = Digits(c) \o Link!Pads(Len(Digits(c)))
         /\ Link!Select(Link!Btoa(c), 0..63) = Digits(c)
<1> DEFINE d == Digits(c)
           N == (4 * Len(c) + 2) \div 3
           p == Link!Pads(N)
           six == 0..63
           S == six \cup {66}
<1>1. d \in Seq(six) /\ Len(d) = N
  BY DigitsTyped
<1>2. Link!Btoa(c) = d \o Link!Pads(N)
  BY DEF Link!Btoa, Digits, DigitAt, DigitOf
<1>3. p \in Seq({66})
  <2>1. Len(c) \in Nat
    OBVIOUS
  <2> QED
    BY <2>1, PadsAre
<1> HIDE DEF d, p, N
<1>4. d \in Seq(S) /\ p \in Seq(S)
  <2>1. six \subseteq S /\ {66} \subseteq S
    OBVIOUS
  <2> HIDE DEF six, S
  <2> QED
    BY <1>1, <1>3, <2>1, SeqMonotonic
<1>5. Select(d, six) = d
  BY <1>1, SelectAll
<1>6. Select(p, six) = <<>>
  <2>1. {66} \cap six = {}
    OBVIOUS
  <2> HIDE DEF six
  <2> QED
    BY <1>3, <2>1, SelectNone
<1>7. Select(d \o p, six) = d \o <<>>
  <2> HIDE DEF six, S
  <2>1. Select(d \o p, six) = Select(d, six) \o Select(p, six)
    BY <1>4, SelectConcat
  <2> QED
    BY <1>5, <1>6, <2>1, Zenon
<1>8. d \o <<>> = d
  BY <1>1, ConcatEmptySeq
<1>9. Link!Select(Link!Btoa(c), 0..63) = d
  BY <1>2, <1>7, <1>8, LinkSelect, Zenon DEF p
<1> QED
  BY <1>1, <1>2, <1>9, Zenon DEF d, N

LEMMA AtobIs ==
  ASSUME NEW c \in Seq(Octets)
  PROVE  Link!Atob(Digits(c) \o Link!Pads(Len(Digits(c)))) = c
<1> DEFINE d == Digits(c)
           L == Len(c)
           N == Len(d)
           m == Link!Padding(N)
           p == Link!Pads(N)
           t0 == d \o p
           six == 0..63
           S == six \cup {66}
           Q == {n \in 0..2 : Len(t0) >= n /\ \A j \in 0..n - 1 : t0[Len(t0) - j] = 66}
<1>1. /\ d \in Seq(six) /\ L \in Nat /\ N = (4 * L + 2) \div 3
  BY DigitsTyped
<1>2. /\ N \in Nat /\ m \in 0..2 /\ (N + m) % 4 = 0 /\ N % 4 # 1 /\ (6 * N) \div 8 = L
      /\ p \in Seq({66}) /\ Len(p) = m
  <2> HIDE DEF L, N
  <2> QED
    BY <1>1, PadsAre
<1>3. \A n \in 0..(L - 1) : ByteAt(d, n) = c[n + 1]
  BY BytesComeBack
<1> HIDE DEF d, p, m
<1>4. d \in Seq(S) /\ p \in Seq(S)
  <2>1. six \subseteq S /\ {66} \subseteq S
    OBVIOUS
  <2> HIDE DEF six, S
  <2> QED
    BY <1>1, <1>2, <2>1, SeqMonotonic
<1>5. /\ t0 \in Seq(S) /\ Len(t0) = N + m
      /\ \A j \in 1..(N + m) : t0[j] = IF j <= N THEN d[j] ELSE p[j - N]
  BY <1>2, <1>4
<1>6. /\ \A j \in 1..N : t0[j] = d[j] /\ d[j] \in six
      /\ \A j \in (N + 1)..(N + m) : t0[j] = 66
  <2>1. \A j \in 1..m : p[j] = 66
    BY <1>2
  <2>2. \A j \in 1..N : d[j] \in six
    BY <1>1, ElementIn
  <2>3. \A j \in (N + 1)..(N + m) : j - N \in 1..m /\ ~ (j <= N) /\ j \in 1..(N + m)
    BY <1>2
  <2>4. \A j \in 1..N : j \in 1..(N + m) /\ j <= N
    BY <1>2
  <2> HIDE DEF t0, six, N
  <2> QED
    BY <1>5, <2>1, <2>2, <2>3, <2>4
<1>7. SubSeq(t0, 1, N) = d
  <2> DEFINE l == SubSeq(t0, 1, N)
  <2>1. l \in Seq(S) /\ Len(l) = N /\ \A j \in 1..N : l[j] = t0[j]
    <3> HIDE DEF t0, S, N, m
    <3>1. N <= Len(t0) /\ \A j \in 1..N : t0[j] \in S
      BY <1>2, <1>5, ElementIn
    <3> QED
      BY <1>2, <1>5, <3>1, SubSeqProperties
  <2> HIDE DEF l, t0
  <2>2. \A j \in 1..Len(l) : l[j] = d[j]
    BY <1>6, <2>1
  <2> QED
    BY <1>4, <2>1, <2>2, SeqEqual DEF l
<1> HIDE DEF t0, N
<1>8. Max(Q) = m
  <2>1. m \in Q
    <3>1. Len(t0) >= m
      BY <1>2, <1>5
    <3>2. ASSUME NEW j \in 0..m - 1 PROVE t0[Len(t0) - j] = 66
      <4>1. Len(t0) - j \in (N + 1)..(N + m)
        BY <1>2, <1>5
      <4> QED
        BY <1>6, <4>1
    <3> QED
      BY <1>2, <3>1, <3>2
  <2>2. ASSUME NEW n \in Q PROVE n \in 0..2 /\ m >= n
    <3> SUFFICES ASSUME n > m PROVE FALSE
      BY <1>2
    <3>1. n \in 0..2 /\ N + m >= n /\ m \in 0..(n - 1)
      BY <1>2, <1>5
    <3>2. t0[(N + m) - m] = 66 /\ (N + m) - m = N
      BY <1>2, <1>5, <3>1
    <3>3. N \in 1..N
      BY <1>2, <3>1
    <3>4. t0[N] \in six
      BY <1>6, <3>3
    <3>5. t0[N] = 66
      BY <3>2
    <3> QED
      BY <3>4, <3>5
  <2> HIDE DEF Q
  <2>3. \A x \in Q : (\A y \in Q : x >= y) <=> x = m
    <3> TAKE x \in Q
    <3>1. x \in 0..2 /\ m >= x
      BY <2>2
    <3>2. (\A y \in Q : x >= y) => x = m
      BY <1>2, <2>1, <3>1
    <3>3. x = m => \A y \in Q : x >= y
      BY <2>2
    <3> QED
      BY <3>2, <3>3
  <2> QED
    BY <2>1, <2>3 DEF Max
<1> DEFINE pads == IF Len(t0) % 4 # 0 THEN 0
                   ELSE Link!Max({n \in 0..2 : Len(t0) >= n /\ \A j \in 0..n - 1 : t0[Len(t0) - j] = Link!Pad})
           e == SubSeq(t0, 1, Len(t0) - pads)
           Bytes == [n \in 1..(6 * Len(e)) \div 8 |-> ByteAt(e, n - 1)]
<1>9. Link!Atob(t0) = IF Len(e) % 4 = 1 \/ \E i \in DOMAIN e : e[i] > 63 THEN Link!Malformed ELSE Bytes
  BY DEF Link!Atob, ByteAt, ByteOf
<1>10. pads = m
  <2>1. Link!Max({n \in 0..2 : Len(t0) >= n /\ \A j \in 0..n - 1 : t0[Len(t0) - j] = Link!Pad}) = Max(Q)
    BY LinkMax, Zenon DEF Link!Pad
  <2> HIDE DEF Q
  <2>2. Len(t0) % 4 = 0
    BY <1>2, <1>5
  <2> QED
    BY <1>8, <2>1, <2>2
<1>11. e = d
  <2> HIDE DEF pads
  <2>1. Len(t0) - pads = N
    BY <1>2, <1>5, <1>10
  <2> QED
    BY <1>7, <2>1
<1> HIDE DEF pads, e
<1>12. ~ (Len(e) % 4 = 1 \/ \E i \in DOMAIN e : e[i] > 63)
  <2>1. Len(e) = N /\ DOMAIN e = 1..N
    BY <1>1, <1>11 DEF N
  <2>2. \A i \in 1..N : e[i] \in six
    BY <1>6, <1>11
  <2>3. ASSUME NEW i \in 1..N PROVE ~ (e[i] > 63)
    <3>1. \A x \in six : ~ (x > 63)
      OBVIOUS
    <3> HIDE DEF six
    <3>2. e[i] \in six
      BY <2>2
    <3> QED
      BY <3>1, <3>2
  <2> QED
    BY <1>2, <2>1, <2>3
<1>13. Bytes = [n \in 1..L |-> ByteAt(d, n - 1)]
  <2>1. (6 * Len(e)) \div 8 = L
    BY <1>2, <1>11 DEF N
  <2> QED
    BY <1>11, <2>1, Zenon
<1>14. Bytes = c
  <2> DEFINE l == [n \in 1..L |-> ByteAt(d, n - 1)]
  <2>1. \A n \in 1..L : l[n] = c[n]
    <3> TAKE n \in 1..L
    <3>1. n - 1 \in 0..(L - 1) /\ (n - 1) + 1 = n
      BY <1>1
    <3>2. ByteAt(d, n - 1) = c[(n - 1) + 1]
      BY <1>3, <3>1
    <3> QED
      BY <3>1, <3>2
  <2>2. \A n \in 1..L : c[n] \in Octets
    OBVIOUS
  <2>3. l \in Seq(Octets) /\ Len(l) = L
    <3>1. \A n \in 1..L : ByteAt(d, n - 1) \in Octets
      BY <2>1, <2>2
    <3> HIDE DEF L
    <3> QED
      BY <1>1, <3>1
  <2> HIDE DEF l
  <2>4. l = c
    BY <2>1, <2>3, SeqEqual
  <2> QED
    BY <1>13, <2>4 DEF l
<1>15. Link!Atob(t0) = c
  BY <1>9, <1>12, <1>14
<1> QED
  BY <1>15, Zenon DEF t0, p, N, d

\* The link has the digits with two of them exchanged; they are exchanged back.
LEMMA LinkOf ==
  ASSUME NEW s, Link!Bytes(s) \in Seq(Octets)
  PROVE  /\ Link!FromB64url(Link!B64url(s)) = Link!FromUtf8(Link!Bytes(s))
         /\ Link!ToSet(Link!B64url(s)) \subseteq (0..61) \cup {Link!Minus, Link!Underscore}
<1> DEFINE c == Link!Bytes(s)
           d == Digits(c)
           N == Len(d)
           six == 0..63
           Safe(x) == CASE x = 62 -> Link!Minus [] x = 63 -> Link!Underscore [] OTHER -> x
           Digit(x) == CASE x = Link!Minus -> 62 [] x = Link!Underscore -> 63 [] OTHER -> x
           l == [j \in DOMAIN d |-> Safe(d[j])]
           e == [j \in DOMAIN l |-> Digit(l[j])]
<1> HIDE DEF c
<1>1. c \in Seq(Octets)
  BY DEF c
<1>2. d \in Seq(six) /\ Link!Select(Link!Btoa(c), 0..63) = d
  BY <1>1, DigitsTyped, BtoaIs
<1> HIDE DEF d
<1>3. N \in Nat /\ DOMAIN d = 1..N /\ \A j \in 1..N : d[j] \in six
  <2> HIDE DEF six
  <2> QED
    BY <1>2, ElementIn
<1>4. Link!B64url(s) = l
  <2> DEFINE q == Link!Select(Link!Btoa(Link!Bytes(s)), 0..63)
  <2>1. Link!B64url(s) = [j \in DOMAIN q |-> Safe(q[j])]
    BY DEF Link!B64url
  <2>2. q = d
    BY <1>2 DEF c
  <2> HIDE DEF q, Safe
  <2> QED
    BY <2>1, <2>2
<1>5. \A x \in six : Digit(Safe(x)) = x /\ Safe(x) \in (0..61) \cup {64, 65}
  <2> TAKE x \in six
  <2>1. CASE x = 62
    BY <2>1 DEF Link!Minus, Link!Underscore
  <2>2. CASE x = 63
    BY <2>2 DEF Link!Minus, Link!Underscore
  <2>3. CASE x # 62 /\ x # 63
    <3>1. Safe(x) = x
      BY <2>3
    <3>2. x # 64 /\ x # 65 /\ x \in (0..61) \cup {64, 65}
      BY <2>3
    <3> HIDE DEF Safe
    <3> QED
      BY <3>1, <3>2 DEF Link!Minus, Link!Underscore
  <2> QED
    BY <2>1, <2>2, <2>3
<1>6. DOMAIN l = 1..N /\ \A j \in 1..N : l[j] = Safe(d[j])
  BY <1>3
<1>7. e = d
  <2> HIDE DEF l, Safe, Digit
  <2>1. \A j \in 1..N : Digit(l[j]) = d[j]
    BY <1>3, <1>5, <1>6
  <2>2. e = [j \in 1..N |-> d[j]]
    BY <1>6, <2>1
  <2>3. d = [j \in 1..N |-> d[j]]
    BY <1>2, <1>3
  <2> QED
    BY <2>2, <2>3
<1>8. Link!FromB64url(l) = Link!FromUtf8(Link!Atob(e \o Link!Pads(Len(e))))
  BY Zenon DEF Link!FromB64url
<1>9. Link!Atob(d \o Link!Pads(Len(d))) = c
  BY <1>1, AtobIs DEF d
<1>10. Link!FromB64url(l) = Link!FromUtf8(c)
  <2> HIDE DEF e, l
  <2> QED
    BY <1>7, <1>8, <1>9, Zenon
<1>11. Link!ToSet(l) \subseteq (0..61) \cup {64, 65}
  <2> HIDE DEF Safe
  <2>1. \A j \in 1..N : l[j] \in (0..61) \cup {64, 65}
    BY <1>3, <1>5, <1>6
  <2> DEFINE G == (0..61) \cup {64, 65}
  <2> HIDE DEF l, G
  <2>2. \A j \in DOMAIN l : l[j] \in G
    BY <1>6, <2>1 DEF G
  <2>3. Link!ToSet(l) \subseteq G
    BY <2>2 DEF Link!ToSet
  <2> QED
    BY <2>3 DEF G
<1> QED
  BY <1>4, <1>10, <1>11 DEF c, Link!Minus, Link!Underscore

-----------------------------------------------------------------------------
\* Links are read back: UTF-8.

LEMMA MarksAre ==
  /\ Link!LeadMark[1] = 0 /\ Link!LeadMark[2] = 192 /\ Link!LeadMark[3] = 224
  /\ Link!LeadMark[4] = 240
  /\ Link!Pow64[1] = 1 /\ Link!Pow64[2] = 64 /\ Link!Pow64[3] = 4096
  /\ Link!Pow64[4] = 262144
BY SMT DEF Link!LeadMark, Link!Pow64

IsValue(v, lead, tail) ==
  /\ v[0] = lead
  /\ \A j \in 1..Len(tail) : v[j] = 64 * v[j - 1] + (tail[j] % 64)

LEMMA ValueIs ==
  ASSUME NEW lead \in Int, NEW tail \in Seq(Octets)
  PROVE  \E v \in [0..Len(tail) -> Int] :
           IsValue(v, lead, tail) /\ Link!Value(lead, tail) = v[Len(tail)]
<1> DEFINE N == Len(tail)
           turn == [p \in Int \X (1..N) |-> 64 * p[1] + (tail[p[2]] % 64)]
           Unfold(v) == [j \in 0..N |-> IF j = 0 THEN lead ELSE 64 * v[j - 1] + (tail[j] % 64)]
           table == CHOOSE v : v = Unfold(v)
<1>1. N \in Nat /\ \A j \in 1..N : tail[j] \in Octets
  OBVIOUS
<1>2. turn \in [Int \X (1..N) -> Int]
  <2> SUFFICES ASSUME NEW p \in Int \X (1..N) PROVE 64 * p[1] + (tail[p[2]] % 64) \in Int
    OBVIOUS
  <2>1. p[1] \in Int /\ tail[p[2]] \in Octets
    BY <1>1
  <2> DEFINE x == tail[p[2]]
             y == p[1]
  <2> HIDE DEF x, y
  <2>2. y \in Int /\ x \in Octets
    BY <2>1 DEF x, y
  <2>3. 64 * y + (x % 64) \in Int
    BY <2>2 DEF Octets
  <2> QED
    BY <2>3 DEF x, y
<1>3. PICK g \in [0..N -> Int] : IsLoop(g, N, lead, turn)
  <2> HIDE DEF turn
  <2> QED
    BY <1>1, <1>2, LoopExists
<1>4. g[0] = lead /\ \A j \in 1..N : g[j] = 64 * g[j - 1] + (tail[j] % 64)
  <2>1. ASSUME NEW j \in 1..N PROVE g[j] = 64 * g[j - 1] + (tail[j] % 64)
    <3>1. g[j] = turn[<<g[j - 1], j>>]
      BY <1>3 DEF IsLoop
    <3>2. j - 1 \in 0..N
      BY <1>1
    <3>3. g[j - 1] \in Int
      BY <1>3, <3>2
    <3> QED
      BY <3>1, <3>3
  <2> QED
    BY <1>3, <2>1 DEF IsLoop
<1>5. g = Unfold(g)
  <2>1. \A j \in 0..N : g[j] = IF j = 0 THEN lead ELSE 64 * g[j - 1] + (tail[j] % 64)
    <3> TAKE j \in 0..N
    <3>1. CASE j = 0
      BY <1>4, <3>1
    <3>2. CASE j # 0
      <4>1. j \in 1..N
        BY <1>1, <3>2
      <4> QED
        BY <1>4, <3>2, <4>1
    <3> QED
      BY <3>1, <3>2
  <2> QED
    BY <2>1
<1>6. table = Unfold(table)
  <2> HIDE DEF Unfold
  <2> QED
    BY <1>5
<1>7. Link!Value(lead, tail) = table[N]
  BY Zenon DEF Link!Value
<1> HIDE DEF table
<1>8. table[0] = lead /\ \A j \in 1..N : table[j] = 64 * table[j - 1] + (tail[j] % 64)
  <2>1. \A j \in 0..N : table[j] = IF j = 0 THEN lead ELSE 64 * table[j - 1] + (tail[j] % 64)
    BY <1>6
  <2>2. 0 \in 0..N /\ \A j \in 1..N : j \in 0..N /\ j # 0
    BY <1>1
  <2> QED
    BY <2>1, <2>2
<1> DEFINE good == {p \in Nat \X Int : TRUE}
<1>9. \A i \in 0..N : <<i, table[i]>> \in good
  <2>1. <<0, table[0]>> \in good
    BY <1>8
  <2>2. ASSUME NEW i \in 1..N, <<i - 1, table[i - 1]>> \in good PROVE <<i, table[i]>> \in good
    <3>1. table[i - 1] \in Int /\ tail[i] \in Octets /\ i \in Nat
      BY <1>1, <2>2
    <3> DEFINE x == tail[i]
               y == table[i - 1]
    <3> HIDE DEF x, y
    <3>2. y \in Int /\ x \in Octets
      BY <3>1 DEF x, y
    <3>3. 64 * y + (x % 64) \in Int
      BY <3>2 DEF Octets
    <3>4. table[i] \in Int
      BY <1>8, <3>3 DEF x, y
    <3> QED
      BY <3>1, <3>4
  <2> HIDE DEF good
  <2> QED
    BY <1>1, <2>1, <2>2, LoopInvariant
<1>10. \A i \in 0..N : table[i] \in Int
  BY <1>9
<1>11. DOMAIN table = 0..N
  BY <1>6
<1>12. table = [i \in 0..N |-> table[i]]
  BY <1>6
<1>13. table \in [0..N -> Int] /\ IsValue(table, lead, tail)
  BY <1>8, <1>10, <1>12 DEF IsValue
<1> QED
  BY <1>7, <1>13

\* The characters are the numbers up to here.
Chars == {n \in Nat : n <= 1114111}

\* What a character becomes, and that its number is made of it again.
IsCoded(u8, c) ==
  /\ u8 \in Seq(Octets) /\ Len(u8) \in 1..4
  /\ Link!Length(u8[1]) = Len(u8)
  /\ \A j \in 2..Len(u8) : u8[j] \in 128..191
  /\ \A tail \in Seq(Octets) :
       Len(tail) = Len(u8) - 1 /\ (\A j \in 1..Len(tail) : tail[j] = u8[j + 1])
         => Link!Value(u8[1] - Link!LeadMark[Len(u8)], tail) = c

LEMMA CodedIs ==
  ASSUME NEW c \in Chars
  PROVE  IsCoded(Link!Utf8(c), c)
<1> DEFINE z == Link!Size(c)
           h == Link!LeadMark[z] + (c \div Link!Pow64[z])
           r == [j \in 1..z - 1 |-> 128 + ((c \div Link!Pow64[z - j]) % 64)]
           o == <<h>>
           w == o \o r
<1>0. c \in Nat /\ c <= 1114111
  BY SMT DEF Chars
<1>1. /\ z \in 1..4
      /\ z = 1 => c < 128
      /\ z = 2 => c >= 128 /\ c < 2048
      /\ z = 3 => c >= 2048 /\ c < 65536
      /\ z = 4 => c >= 65536
  BY SMT, <1>0 DEF Link!Size
<1>2. Link!Utf8(c) = w
  BY Zenon DEF Link!Utf8
<1> HIDE DEF z
<1>3. /\ z = 1 => h = c
      /\ z = 2 => h = 192 + c \div 64
      /\ z = 3 => h = 224 + c \div 4096
      /\ z = 4 => h = 240 + c \div 262144
  <2>1. c \div 1 = c
    BY SMT, <1>0
  <2>2. ASSUME z = 1 PROVE h = c
    BY SMT, <1>0, <2>1, <2>2, MarksAre
  <2>3. ASSUME z = 2 PROVE h = 192 + c \div 64
    BY SMT, <1>0, <2>3, MarksAre
  <2>4. ASSUME z = 3 PROVE h = 224 + c \div 4096
    BY SMT, <1>0, <2>4, MarksAre
  <2>5. ASSUME z = 4 PROVE h = 240 + c \div 262144
    BY SMT, <1>0, <2>5, MarksAre
  <2> QED
    BY SMT, <2>2, <2>3, <2>4, <2>5
<1>4. /\ z = 1 => h < 128
      /\ z = 2 => h \in 194..223
      /\ z = 3 => h \in 224..239
      /\ z = 4 => h \in 240..244
  <2> HIDE DEF h
  <2>1. z = 2 => h \in 194..223
    BY SMT, <1>0, <1>1, <1>3
  <2>2. z = 3 => h \in 224..239
    BY SMT, <1>0, <1>1, <1>3
  <2>3. z = 4 => h \in 240..244
    BY SMT, <1>0, <1>1, <1>3
  <2> QED
    BY SMT, <1>1, <1>3, <2>1, <2>2, <2>3
<1>5. h \in Octets /\ Link!Length(h) = z
  <2> HIDE DEF h
  <2>1. h \in Octets
    BY SMT, <1>0, <1>1, <1>3, <1>4 DEF Octets
  <2> QED
    BY SMT, <1>1, <1>4, <2>1 DEF Link!Length, Octets
<1>6. ASSUME NEW j \in 1..(z - 1) PROVE 128 + ((c \div Link!Pow64[z - j]) % 64) \in 128..191
  <2> DEFINE x == Link!Pow64[z - j]
  <2>1. z - j \in 1..3
    BY SMT, <1>1
  <2>2. x \in {1, 64, 4096}
    BY SMT, <2>1, MarksAre
  <2> HIDE DEF x
  <2>3. c \div x \in Nat
    BY SMT, <1>0, <2>2
  <2> DEFINE y == c \div x
  <2> HIDE DEF y
  <2>4. y % 64 \in 0..63
    BY SMT, <2>3 DEF y
  <2> QED
    BY SMT, <2>4 DEF x, y
<1> HIDE DEF h
<1>7. r \in Seq(Octets) /\ Len(r) = z - 1 /\ \A j \in 1..(z - 1) : r[j] \in 128..191
  <2>1. \A j \in 1..(z - 1) : r[j] \in 128..191
    BY SMT, <1>6
  <2>2. \A j \in 1..(z - 1) : r[j] \in Octets
    BY SMT, <2>1 DEF Octets
  <2>3. r \in [1..(z - 1) -> Octets]
    BY SMT, <2>2
  <2>4. z - 1 \in Nat
    BY SMT, <1>1
  <2> HIDE DEF r
  <2>5. r \in Seq(Octets) /\ Len(r) = z - 1
    BY SMT, <2>3, <2>4, LenProperties, SeqDef
  <2> QED
    BY SMT, <2>1, <2>5
<1>8. /\ z = 2 => r[1] = 128 + (c % 64)
      /\ z = 3 => r[1] = 128 + ((c \div 64) % 64) /\ r[2] = 128 + (c % 64)
      /\ z = 4 => r[1] = 128 + ((c \div 4096) % 64) /\ r[2] = 128 + ((c \div 64) % 64)
                  /\ r[3] = 128 + (c % 64)
  <2>1. c \div 1 = c
    BY SMT, <1>0
  <2>2. ASSUME z = 2 PROVE r[1] = 128 + (c % 64)
    BY SMT, <2>1, <2>2, MarksAre
  <2>3. ASSUME z = 3 PROVE r[1] = 128 + ((c \div 64) % 64) /\ r[2] = 128 + (c % 64)
    BY SMT, <2>1, <2>3, MarksAre
  <2>4. ASSUME z = 4 PROVE r[1] = 128 + ((c \div 4096) % 64) /\ r[2] = 128 + ((c \div 64) % 64)
                           /\ r[3] = 128 + (c % 64)
    BY SMT, <2>1, <2>4, MarksAre
  <2> QED
    BY SMT, <2>2, <2>3, <2>4
<1> HIDE DEF r
<1>9. o \in Seq(Octets) /\ Len(o) = 1 /\ o[1] = h
  BY SMT, <1>5
<1> HIDE DEF o
<1>10. /\ w \in Seq(Octets) /\ Len(w) = z /\ w[1] = h
       /\ \A j \in 2..z : w[j] = r[j - 1]
  <2>1. /\ w \in Seq(Octets) /\ Len(w) = Len(o) + Len(r)
        /\ \A j \in 1..Len(w) : w[j] = IF j <= Len(o) THEN o[j] ELSE r[j - Len(o)]
    <3>1. o \in Seq(Octets) /\ r \in Seq(Octets)
      BY SMT, <1>7, <1>9
    <3> QED
      BY SMT, <3>1
  <2> HIDE DEF w
  <2>2. Len(w) = z
    BY SMT, <1>1, <1>7, <1>9, <2>1
  <2>3. w[1] = h
    <3>1. 1 \in 1..Len(w) /\ 1 <= Len(o)
      BY SMT, <1>1, <1>9, <2>2
    <3> QED
      BY SMT, <1>9, <2>1, <3>1
  <2>4. ASSUME NEW j \in 2..z PROVE w[j] = r[j - 1]
    <3>1. j \in 1..Len(w) /\ ~ (j <= Len(o)) /\ j - Len(o) = j - 1
      BY SMT, <1>1, <1>9, <2>2
    <3>2. w[j] = r[j - Len(o)]
      BY SMT, <2>1, <3>1
    <3> QED
      BY <3>1, <3>2
  <2> QED
    BY SMT, <2>1, <2>2, <2>3, <2>4
<1> HIDE DEF w
<1>11. ASSUME NEW tail \in Seq(Octets), Len(tail) = z - 1,
              \A j \in 1..Len(tail) : tail[j] = w[j + 1]
       PROVE  Link!Value(h - Link!LeadMark[z], tail) = c
  <2> DEFINE m == Link!LeadMark[z]
             lead == h - m
  <2>1. m \in Nat
    BY SMT, <1>1, MarksAre
  <2> HIDE DEF m
  <2>2. lead \in Int
    BY SMT, <1>5, <2>1 DEF Octets
  <2> HIDE DEF lead
  <2>3. PICK v \in [0..Len(tail) -> Int] : IsValue(v, lead, tail) /\ Link!Value(lead, tail) = v[Len(tail)]
    BY <1>11, <2>2, ValueIs
  <2>4. v[0] = lead /\ \A j \in 1..(z - 1) : v[j] = 64 * v[j - 1] + (r[j] % 64)
    <3>1. \A j \in 1..(z - 1) : tail[j] = r[j]
      <4> TAKE j \in 1..(z - 1)
      <4>1. j + 1 \in 2..z /\ (j + 1) - 1 = j
        BY SMT, <1>1
      <4> QED
        BY SMT, <1>10, <1>11, <4>1
    <3> QED
      BY SMT, <1>11, <2>3, <3>1 DEF IsValue
  <2>5. Link!Value(lead, tail) = v[z - 1]
    BY SMT, <1>11, <2>3
  <2>6. CASE z = 1
    <3>1. lead = c
      BY SMT, <1>3, <2>6, MarksAre DEF lead, m
    <3> QED
      BY SMT, <2>4, <2>5, <2>6, <3>1 DEF lead, m
  <2>7. CASE z = 2
    <3>1. lead = c \div 64
      BY SMT, <1>0, <1>3, <1>5, <2>7, MarksAre DEF lead, m
    <3>2. v[1] = 64 * v[0] + (r[1] % 64)
      BY SMT, <2>4, <2>7
    <3>3. v[1] = 64 * (c \div 64) + ((128 + (c % 64)) % 64)
      BY SMT, <1>8, <2>4, <2>7, <3>1, <3>2
    <3>4. v[1] = c
      BY SMT, <1>0, <3>3
    <3> QED
      BY SMT, <2>5, <2>7, <3>4 DEF lead, m
  <2>8. CASE z = 3
    <3>1. lead = c \div 4096
      BY SMT, <1>0, <1>3, <1>5, <2>8, MarksAre DEF lead, m
    <3>2. v[1] = 64 * v[0] + (r[1] % 64) /\ v[2] = 64 * v[1] + (r[2] % 64)
      BY SMT, <2>4, <2>8
    <3>3. v[1] = 64 * (c \div 4096) + ((128 + ((c \div 64) % 64)) % 64)
      BY SMT, <1>8, <2>4, <2>8, <3>1, <3>2
    <3>4. v[1] = c \div 64
      BY SMT, <1>0, <3>3
    <3>5. v[2] = 64 * (c \div 64) + ((128 + (c % 64)) % 64)
      BY SMT, <1>8, <2>8, <3>2, <3>4
    <3>6. v[2] = c
      BY SMT, <1>0, <3>5
    <3> QED
      BY SMT, <2>5, <2>8, <3>6 DEF lead, m
  <2>9. CASE z = 4
    <3>1. lead = c \div 262144
      BY SMT, <1>0, <1>3, <1>5, <2>9, MarksAre DEF lead, m
    <3>2. v[1] = 64 * v[0] + (r[1] % 64) /\ v[2] = 64 * v[1] + (r[2] % 64)
          /\ v[3] = 64 * v[2] + (r[3] % 64)
      BY SMT, <2>4, <2>9
    <3>3. v[1] = 64 * (c \div 262144) + ((128 + ((c \div 4096) % 64)) % 64)
      BY SMT, <1>8, <2>4, <2>9, <3>1, <3>2
    <3>4. v[1] = c \div 4096
      BY SMT, <1>0, <3>3
    <3>5. v[2] = 64 * (c \div 4096) + ((128 + ((c \div 64) % 64)) % 64)
      BY SMT, <1>8, <2>9, <3>2, <3>4
    <3>6. v[2] = c \div 64
      BY SMT, <1>0, <3>5
    <3>7. v[3] = 64 * (c \div 64) + ((128 + (c % 64)) % 64)
      BY SMT, <1>8, <2>9, <3>2, <3>6
    <3>8. v[3] = c
      BY SMT, <1>0, <3>7
    <3> QED
      BY SMT, <2>5, <2>9, <3>8 DEF lead, m
  <2> QED
    BY SMT, <1>1, <2>6, <2>7, <2>8, <2>9
<1>12. \A j \in 2..z : w[j] \in 128..191
  <2> TAKE j \in 2..z
  <2>1. j - 1 \in 1..(z - 1)
    BY SMT, <1>1
  <2> QED
    BY SMT, <1>7, <1>10, <2>1
<1>13. IsCoded(w, c)
  <2>1. Len(w) = z /\ w[1] = h /\ Link!Length(w[1]) = Len(w)
    BY SMT, <1>5, <1>10
  <2>2. w \in Seq(Octets) /\ Len(w) \in 1..4 /\ \A j \in 2..Len(w) : w[j] \in 128..191
    BY <1>1, <1>10, <1>12
  <2>3. ASSUME NEW tail \in Seq(Octets), Len(tail) = Len(w) - 1,
               \A j \in 1..Len(tail) : tail[j] = w[j + 1]
        PROVE  Link!Value(w[1] - Link!LeadMark[Len(w)], tail) = c
    <3>1. Link!Value(h - Link!LeadMark[z], tail) = c
      BY <1>11, <2>1, <2>3
    <3> QED
      BY <2>1, <3>1
  <2> QED
    BY <2>1, <2>2, <2>3 DEF IsCoded
<1> QED
  BY SMT, <1>2, <1>13

\* What the decoder does at byte i.
Follow(b0, i) == SubSeq(b0, i + 1, i + Link!Length(b0[i]) - 1)

Whole(b0, i) ==
  /\ Link!Length(b0[i]) > 0 /\ i + Link!Length(b0[i]) - 1 <= Len(b0)
  /\ Link!ToSet(Follow(b0, i)) \subseteq 128..191

Utf8Step(b0, i, f) ==
  IF i > Len(b0) THEN <<>>
  ELSE IF Whole(b0, i) /\ f[i + Link!Length(b0[i])] # Link!Malformed
  THEN <<Link!Value(b0[i] - Link!LeadMark[Link!Length(b0[i])], Follow(b0, i))>>
         \o f[i + Link!Length(b0[i])]
  ELSE Link!Malformed

LEMMA WholeIs ==
  ASSUME NEW b0 \in Seq(Octets), NEW i \in 1..Len(b0), Whole(b0, i)
  PROVE  /\ Link!Length(b0[i]) \in 1..4
         /\ i + Link!Length(b0[i]) \in (i + 1)..(Len(b0) + 1)
         /\ Follow(b0, i) \in Seq(Octets)
         /\ Link!Value(b0[i] - Link!LeadMark[Link!Length(b0[i])], Follow(b0, i)) \in Int
<1> DEFINE z == Link!Length(b0[i])
           m == Link!LeadMark[z]
           x == b0[i]
           q == Follow(b0, i)
<1>1. x \in Octets /\ Len(b0) \in Nat
  OBVIOUS
<1>2. z \in 0..4
  <2>1. Link!Length(x) \in 0..4
    BY <1>1 DEF Link!Length, Octets
  <2> QED
    BY <2>1
<1> HIDE DEF z
<1>3. z \in 1..4 /\ i + z \in (i + 1)..(Len(b0) + 1)
  <2>1. z > 0 /\ i + z - 1 <= Len(b0)
    BY DEF Whole, z
  <2> QED
    BY <1>1, <1>2, <2>1
<1>4. q \in Seq(Octets)
  <2> DEFINE e == i + z - 1
  <2>1. e \in Nat /\ e <= Len(b0)
    BY <1>1, <1>3
  <2> HIDE DEF e
  <2>2. \A j \in (i + 1)..e : b0[j] \in Octets
    BY <1>1, <2>1
  <2>3. SubSeq(b0, i + 1, e) \in Seq(Octets)
    BY <2>1, <2>2, SubSeqProperties
  <2> QED
    BY <2>3 DEF Follow, e, z
<1>5. m \in Nat
  BY <1>3, MarksAre
<1> HIDE DEF m, x, q
<1>6. x - m \in Int
  BY <1>1, <1>5 DEF Octets
<1>7. Link!Value(x - m, q) \in Int
  <2>1. PICK v \in [0..Len(q) -> Int] : IsValue(v, x - m, q) /\ Link!Value(x - m, q) = v[Len(q)]
    BY <1>4, <1>6, ValueIs
  <2>2. Len(q) \in 0..Len(q)
    BY <1>4
  <2> QED
    BY <2>1, <2>2
<1> QED
  BY <1>3, <1>4, <1>7 DEF z, m, x, q

LEMMA Utf8StepType ==
  ASSUME NEW b0 \in Seq(Octets), NEW f, NEW i \in 1..(Len(b0) + 1),
         \A j \in 1..(Len(b0) + 1) : j > i => f[j] \in Seq(Int)
  PROVE  Utf8Step(b0, i, f) \in Seq(Int)
<1> DEFINE z == Link!Length(b0[i])
           v == Link!Value(b0[i] - Link!LeadMark[z], Follow(b0, i))
<1>0. Len(b0) \in Nat /\ Link!Malformed \in Seq(Int) /\ <<>> \in Seq(Int)
  BY DEF Link!Malformed
<1>1. CASE i > Len(b0)
  BY <1>0, <1>1 DEF Utf8Step
<1>2. CASE ~ (i > Len(b0)) /\ Whole(b0, i)
  <2>1. i \in 1..Len(b0)
    BY <1>0, <1>2
  <2>2. z \in 1..4 /\ i + z \in (i + 1)..(Len(b0) + 1) /\ v \in Int
    BY <1>2, <2>1, WholeIs
  <2>3. Utf8Step(b0, i, f) = IF f[i + z] # Link!Malformed THEN <<v>> \o f[i + z] ELSE Link!Malformed
    BY <1>2, Zenon DEF Utf8Step
  <2> HIDE DEF z, v
  <2>4. f[i + z] \in Seq(Int)
    <3>1. i + z \in 1..(Len(b0) + 1) /\ i + z > i
      BY <1>0, <2>1, <2>2
    <3> QED
      BY <3>1
  <2>5. <<v>> \o f[i + z] \in Seq(Int)
    BY <2>2, <2>4
  <2> QED
    BY <1>0, <2>3, <2>5
<1>3. CASE ~ (i > Len(b0)) /\ ~ Whole(b0, i)
  <2>1. Utf8Step(b0, i, f) = Link!Malformed
    BY <1>3, Zenon DEF Utf8Step
  <2> QED
    BY <1>0, <2>1
<1> QED
  BY <1>1, <1>2, <1>3

LEMMA Utf8StepLocal ==
  ASSUME NEW b0 \in Seq(Octets), NEW f, NEW g, NEW i \in 1..(Len(b0) + 1),
         \A j \in 1..(Len(b0) + 1) : j > i => f[j] = g[j]
  PROVE  Utf8Step(b0, i, f) = Utf8Step(b0, i, g)
<1> DEFINE z == Link!Length(b0[i])
<1>0. Len(b0) \in Nat
  OBVIOUS
<1>1. CASE i > Len(b0)
  BY <1>1 DEF Utf8Step
<1>2. CASE ~ (i > Len(b0)) /\ Whole(b0, i)
  <2>1. i \in 1..Len(b0)
    BY <1>0, <1>2
  <2>2. i + z \in (i + 1)..(Len(b0) + 1)
    BY <1>2, <2>1, WholeIs
  <2>3. f[i + z] = g[i + z]
    <3> DEFINE e == i + z
    <3> HIDE DEF e
    <3>1. e \in 1..(Len(b0) + 1) /\ e > i
      BY <1>0, <2>1, <2>2 DEF e
    <3>2. f[e] = g[e]
      BY <3>1
    <3> QED
      BY <3>2 DEF e
  <2> QED
    BY <2>3, Zenon DEF Utf8Step
<1>3. CASE ~ (i > Len(b0)) /\ ~ Whole(b0, i)
  BY <1>3, Zenon DEF Utf8Step
<1> QED
  BY <1>1, <1>2, <1>3

\* The equations of FromUtf8 have a solution, and it is read off it.
LEMMA Utf8Table ==
  ASSUME NEW b0 \in Seq(Octets)
  PROVE  \E f : /\ \A i \in 1..(Len(b0) + 1) : f[i] = Utf8Step(b0, i, f)
                /\ Link!FromUtf8(b0) = f[1]
<1> DEFINE n == Len(b0)
           V == Seq(Int)
           W == [0..(n + 1) -> V]
           step == [p \in (0..(n + 1)) \X W |->
                      IF p[1] = 0 THEN <<>> ELSE Utf8Step(b0, p[1], p[2])]
           Body(f, i) ==
             LET z == Link!Length(b0[i])
                 tail == SubSeq(b0, i + 1, i + z - 1)
             IN  IF i > Len(b0) THEN <<>>
                 ELSE IF z > 0 /\ i + z - 1 <= Len(b0)
                         /\ Link!ToSet(tail) \subseteq 128..191 /\ f[i + z] # Link!Malformed
                      THEN <<Link!Value(b0[i] - Link!LeadMark[z], tail)>> \o f[i + z]
                      ELSE Link!Malformed
           Unfold(f) == [i \in 1..(Len(b0) + 1) |-> Body(f, i)]
           table == CHOOSE f : f = Unfold(f)
<1>0. n \in Nat /\ n + 1 \in Nat /\ <<>> \in V
  OBVIOUS
<1>1. \A i \in 1..(n + 1) : i \in 0..(n + 1) /\ i # 0
  BY <1>0
<1>2. step \in [(0..(n + 1)) \X W -> V]
  <2> SUFFICES ASSUME NEW i \in 0..(n + 1), NEW f \in W
               PROVE  (IF i = 0 THEN <<>> ELSE Utf8Step(b0, i, f)) \in V
    OBVIOUS
  <2>1. CASE i = 0
    BY <1>0, <2>1
  <2>2. CASE i # 0
    <3>1. i \in 1..(n + 1) /\ \A j \in 1..(n + 1) : f[j] \in V
      BY <1>0, <1>1, <2>2
    <3> QED
      BY <2>2, <3>1, Utf8StepType
  <2> QED
    BY <2>1, <2>2
<1>3. LooksUp(n + 1, V, step)
  <2> SUFFICES ASSUME NEW i \in 0..(n + 1), NEW g \in W, NEW h \in W,
                      \A j \in 0..(n + 1) : j > i => g[j] = h[j]
               PROVE  step[<<i, g>>] = step[<<i, h>>]
    BY DEF LooksUp
  <2>1. CASE i = 0
    BY <2>1
  <2>2. CASE i # 0
    <3>1. i \in 1..(n + 1) /\ \A j \in 1..(n + 1) : j > i => g[j] = h[j]
      BY <1>0, <1>1, <2>2
    <3>2. Utf8Step(b0, i, g) = Utf8Step(b0, i, h)
      BY <3>1, Utf8StepLocal
    <3> QED
      BY <2>2, <3>2
  <2> QED
    BY <2>1, <2>2
<1> HIDE DEF V
<1>4. PICK f \in W : IsDown(f, n + 1, step)
  BY <1>0, <1>2, <1>3, DownExists
<1>5. \A i \in 1..(n + 1) : f[i] = Utf8Step(b0, i, f)
  BY <1>1, <1>4 DEF IsDown
<1> DEFINE g == [i \in 1..(n + 1) |-> f[i]]
<1>6. ASSUME NEW i \in 1..(n + 1) PROVE g[i] = Utf8Step(b0, i, g)
  <2>1. \A j \in 1..(n + 1) : j > i => f[j] = g[j]
    OBVIOUS
  <2>2. Utf8Step(b0, i, f) = Utf8Step(b0, i, g)
    BY <2>1, Utf8StepLocal
  <2> QED
    BY <1>5, <2>2
<1>7. ASSUME NEW i \in 1..(n + 1), NEW h PROVE Body(h, i) = Utf8Step(b0, i, h)
  BY Zenon DEF Utf8Step, Whole, Follow
<1>8. g = Unfold(g)
  <2>1. \A i \in 1..(n + 1) : g[i] = Body(g, i)
    <3> HIDE DEF Body, g
    <3> QED
      BY <1>6, <1>7
  <2> HIDE DEF Body
  <2> QED
    BY <2>1
<1>9. Link!FromUtf8(b0) = IF b0 = Link!Malformed THEN Link!Malformed ELSE table[1]
  BY Zenon DEF Link!FromUtf8
<1>10. b0 # Link!Malformed
  <2> SUFFICES ASSUME b0 = <<-1>> PROVE FALSE
    BY DEF Link!Malformed
  <2>1. b0[1] \in Octets /\ b0[1] = -1
    OBVIOUS
  <2> QED
    BY <2>1 DEF Octets
<1>11. table = Unfold(table)
  <2> HIDE DEF Unfold
  <2> QED
    BY <1>8
<1>12. \A i \in 1..(n + 1) : table[i] = Utf8Step(b0, i, table)
  <2> HIDE DEF Body, table
  <2>1. \A i \in 1..(n + 1) : table[i] = Body(table, i)
    BY <1>11
  <2> QED
    BY <1>7, <2>1
<1> HIDE DEF table
<1> QED
  BY <1>9, <1>10, <1>12

LEMMA RestIs ==
  ASSUME NEW S, NEW s \in Seq(S), NEW i \in 1..(Len(s) + 1)
  PROVE  /\ SubSeq(s, i, Len(s)) \in Seq(S) /\ Len(SubSeq(s, i, Len(s))) = Len(s) + 1 - i
         /\ \A j \in 1..(Len(s) + 1 - i) : SubSeq(s, i, Len(s))[j] = s[i + j - 1]
<1> DEFINE n == Len(s)
<1>1. n \in Nat /\ i \in Int /\ i >= 1 /\ i <= n + 1 /\ n - i + 1 = n + 1 - i
  OBVIOUS
<1>2. \A j \in i..n : s[j] \in S
  BY <1>1
<1> HIDE DEF n
<1>3. /\ SubSeq(s, i, n) \in Seq(S) /\ Len(SubSeq(s, i, n)) = IF i <= n THEN n - i + 1 ELSE 0
      /\ \A j \in 1..(n - i + 1) : SubSeq(s, i, n)[j] = s[i + j - 1]
  BY <1>1, <1>2, SubSeqProperties
<1>4. Len(SubSeq(s, i, n)) = n + 1 - i
  BY <1>1, <1>3
<1> QED
  BY <1>1, <1>3, <1>4 DEF n

\* A sequence that goes on at i with x and then r.
Continues(s, i, x, r) == SubSeq(s, i, Len(s)) = x \o r

LEMMA GoesOn ==
  ASSUME NEW S, NEW s \in Seq(S), NEW i \in 1..(Len(s) + 1), NEW x \in Seq(S), NEW r \in Seq(S),
         Continues(s, i, x, r)
  PROVE  /\ i + Len(x) \in i..(Len(s) + 1)
         /\ \A j \in 1..Len(x) : s[i + j - 1] = x[j]
         /\ SubSeq(s, i + Len(x), Len(s)) = r
<1> DEFINE n == Len(s)
           a == Len(x)
           l == SubSeq(s, i, n)
           w == x \o r
           m == SubSeq(s, i + a, n)
<1>1. n \in Nat /\ a \in Nat /\ Len(r) \in Nat /\ l = w
  BY Zenon, LenProperties DEF Continues
<1>2. Len(l) = n + 1 - i /\ \A j \in 1..(n + 1 - i) : l[j] = s[i + j - 1]
  BY RestIs
<1>3. Len(w) = a + Len(r) /\ \A j \in 1..Len(w) : w[j] = IF j <= a THEN x[j] ELSE r[j - a]
  OBVIOUS
<1> HIDE DEF l, w, a
<1>4. n + 1 - i = a + Len(r)
  BY <1>1, <1>2, <1>3
<1>5. i + a \in i..(n + 1)
  BY <1>1, <1>4
<1>6. ASSUME NEW j \in 1..a PROVE s[i + j - 1] = x[j]
  <2>1. j \in 1..(n + 1 - i) /\ j \in 1..Len(w) /\ j <= a
    BY <1>1, <1>3, <1>4
  <2> QED
    BY <1>1, <1>2, <1>3, <2>1
<1>7. Len(m) = Len(r) /\ m \in Seq(S) /\ \A j \in 1..Len(r) : m[j] = s[i + a + j - 1]
  <2> DEFINE d == i + a
  <2>1. d \in 1..(n + 1) /\ n + 1 - d = Len(r)
    BY <1>1, <1>4, <1>5
  <2> HIDE DEF d
  <2>2. /\ SubSeq(s, d, n) \in Seq(S) /\ Len(SubSeq(s, d, n)) = n + 1 - d
        /\ \A j \in 1..(n + 1 - d) : SubSeq(s, d, n)[j] = s[d + j - 1]
    BY <2>1, RestIs
  <2> QED
    BY <2>1, <2>2 DEF d
<1> HIDE DEF m
<1>8. ASSUME NEW j \in 1..Len(m) PROVE m[j] = r[j]
  <2>1. a + j \in 1..(n + 1 - i) /\ a + j \in 1..Len(w) /\ ~ (a + j <= a) /\ (a + j) - a = j
        /\ i + (a + j) - 1 = i + a + j - 1 /\ j \in 1..Len(r)
    BY <1>1, <1>3, <1>4, <1>7
  <2>2. l[a + j] = s[i + (a + j) - 1]
    BY <1>2, <2>1
  <2>3. w[a + j] = r[(a + j) - a]
    BY <1>3, <2>1
  <2> QED
    BY <1>1, <1>7, <2>1, <2>2, <2>3
<1>9. m = r
  BY <1>7, <1>8, SeqEqual
<1> QED
  BY <1>5, <1>6, <1>9 DEF a, m

Coded == [c \in CodePoints |-> Link!Utf8(c)]

LEMMA CharactersAre == CodePoints \subseteq Chars /\ CodePoints \subseteq Nat
BY SMT, CodePointsAssumption DEF Chars

LEMMA CodedTyped ==
  /\ Coded \in [CodePoints -> Seq(Octets)]
  /\ \A c \in CodePoints : IsCoded(Coded[c], c)
<1>1. ASSUME NEW c \in CodePoints PROVE IsCoded(Link!Utf8(c), c) /\ Link!Utf8(c) \in Seq(Octets)
  <2>1. c \in Chars
    BY CharactersAre
  <2>2. IsCoded(Link!Utf8(c), c)
    BY <2>1, CodedIs
  <2> QED
    BY <2>2 DEF IsCoded
<1> QED
  BY <1>1 DEF Coded

LEMMA BytesAreCoded ==
  ASSUME NEW s \in Seq(CodePoints)
  PROVE  Link!Bytes(s) = Joint(Coded, s) /\ Link!Bytes(s) \in Seq(Octets)
<1>1. \A i \in DOMAIN s : s[i] \in CodePoints
  OBVIOUS
<1>2. [i \in DOMAIN s |-> Link!Utf8(s[i])] = [i \in DOMAIN s |-> Coded[s[i]]]
  BY <1>1 DEF Coded
<1>3. Link!Bytes(s) = Joint(Coded, s)
  BY <1>2, LinkFlatten, Zenon DEF Link!Bytes, Joint
<1>4. Joint(Coded, s) \in Seq(Octets)
  BY CodedTyped, JointType
<1> QED
  BY <1>3, <1>4

\* One character: the decoder at its lead, with the rest decoded.
Reads(b0, i, f, c, e) == Utf8Step(b0, i, f) = <<c>> \o f[e]

LEMMA OneDecoded ==
  ASSUME NEW b0 \in Seq(Octets), NEW i \in 1..(Len(b0) + 1), NEW c, NEW u8 \in Seq(Octets),
         IsCoded(u8, c), NEW f, NEW r \in Seq(Octets), Continues(b0, i, u8, r),
         f[i + Len(u8)] # Link!Malformed
  PROVE  Reads(b0, i, f, c, i + Len(u8))
<1> DEFINE n == Len(b0)
           z == Len(u8)
           q == Follow(b0, i)
<1>1. /\ i + z \in i..(n + 1) /\ \A j \in 1..z : b0[i + j - 1] = u8[j]
  BY GoesOn
<1>2. n \in Nat /\ z \in 1..4 /\ Link!Length(u8[1]) = z /\ (\A j \in 2..z : u8[j] \in 128..191)
  BY DEF IsCoded
<1>3. b0[i] = u8[1] /\ i \in 1..n
  <2> HIDE DEF z
  <2>1. 1 \in 1..z /\ i + 1 - 1 = i
    BY <1>2
  <2> QED
    BY <1>1, <1>2, <2>1
<1>4. Link!Length(b0[i]) = z
  BY <1>2, <1>3
<1>5. q = SubSeq(b0, i + 1, i + z - 1)
  BY <1>4, Zenon DEF Follow
<1> HIDE DEF z
<1>6. q \in Seq(Octets) /\ Len(q) = z - 1 /\ \A j \in 1..(z - 1) : q[j] = u8[j + 1]
  <2> HIDE DEF q
  <2> DEFINE e == i + z - 1
  <2>1. e \in Nat /\ e <= n /\ e >= i
    BY <1>1, <1>2
  <2>2. e + 1 - (i + 1) = z - 1
    BY <1>1, <1>2
  <2> HIDE DEF e
  <2>3. \A j \in (i + 1)..e : b0[j] \in Octets
    BY <1>2, <2>1
  <2>4. /\ SubSeq(b0, i + 1, e) \in Seq(Octets) /\ Len(SubSeq(b0, i + 1, e)) = e + 1 - (i + 1)
        /\ \A j \in 1..(e + 1 - (i + 1)) : SubSeq(b0, i + 1, e)[j] = b0[i + 1 + j - 1]
    <3>1. i + 1 \in Nat /\ i + 1 <= e + 1 /\ e <= n
      BY <2>1
    <3> QED
      BY <1>2, <2>1, <2>3, <3>1
  <2>5. \A j \in 1..(z - 1) : b0[i + 1 + j - 1] = u8[j + 1]
    <3> TAKE j \in 1..(z - 1)
    <3>1. j + 1 \in 1..z /\ i + (j + 1) - 1 = i + 1 + j - 1
      BY <1>2
    <3> QED
      BY <1>1, <3>1
  <2>6. q = SubSeq(b0, i + 1, e)
    BY <1>5 DEF e
  <2> QED
    BY <2>2, <2>4, <2>5, <2>6
<1> HIDE DEF q
<1>7. Link!ToSet(q) \subseteq 128..191
  <2>1. DOMAIN q = 1..(z - 1)
    BY <1>6
  <2>2. \A j \in 1..(z - 1) : q[j] \in 128..191
    <3> TAKE j \in 1..(z - 1)
    <3>1. j + 1 \in 2..z
      BY <1>2
    <3> QED
      BY <1>2, <1>6, <3>1
  <2> DEFINE G == 128..191
  <2> HIDE DEF G
  <2>3. \A j \in DOMAIN q : q[j] \in G
    BY <2>1, <2>2 DEF G
  <2>4. Link!ToSet(q) \subseteq G
    BY <2>3 DEF Link!ToSet
  <2> QED
    BY <2>4 DEF G
<1>8. Whole(b0, i)
  <2>1. z > 0 /\ i + z - 1 <= Len(b0)
    BY <1>1, <1>2
  <2> QED
    BY <1>4, <1>7, <2>1 DEF Whole, q
<1>9. Link!Value(u8[1] - Link!LeadMark[z], q) = c
  BY <1>6 DEF IsCoded, z
<1>10. Utf8Step(b0, i, f) = <<Link!Value(b0[i] - Link!LeadMark[z], q)>> \o f[i + z]
  <2>1. ~ (i > Len(b0))
    BY <1>2, <1>3
  <2>2. f[i + z] # Link!Malformed
    BY DEF z
  <2> QED
    BY <1>4, <1>8, <2>1, <2>2, Zenon DEF Utf8Step, q
<1> QED
  BY <1>3, <1>9, <1>10, Zenon DEF z, Reads

LEMMA NameComesBack ==
  ASSUME NEW s \in Seq(CodePoints)
  PROVE  Link!FromUtf8(Link!Bytes(s)) = s
<1> DEFINE b0 == Link!Bytes(s)
           L == Len(b0)
           n == Len(s)
           Left(m) == SubSeq(s, m, n)
           Rest(m) == Joint(Coded, Left(m))
<1>1. b0 \in Seq(Octets) /\ b0 = Joint(Coded, s)
  BY BytesAreCoded
<1> HIDE DEF b0
<1>2. PICK f : /\ \A i \in 1..(L + 1) : f[i] = Utf8Step(b0, i, f)
               /\ Link!FromUtf8(b0) = f[1]
  BY <1>1, Utf8Table
<1>3. n \in Nat /\ n + 1 \in Nat /\ L \in Nat /\ n \in 0..Len(s)
  BY <1>1
<1> DEFINE T == {m \in 0..(n + 1) : m # 0 =>
                   \A i \in 1..(L + 1) : SubSeq(b0, i, L) = Rest(m) => f[i] = Left(m)}
<1>4. \A m \in 0..(n + 1) : (\A j \in 0..(n + 1) : j > m => j \in T) => m \in T
  <2> SUFFICES ASSUME NEW m \in 0..(n + 1), \A j \in 0..(n + 1) : j > m => j \in T, m # 0,
                      NEW i \in 1..(L + 1), SubSeq(b0, i, L) = Rest(m)
               PROVE  f[i] = Left(m)
    OBVIOUS
  <2>1. m \in 1..(n + 1) /\ \A j \in 1..(n + 1) : j > m =>
          \A h \in 1..(L + 1) : SubSeq(b0, h, L) = Rest(j) => f[h] = Left(j)
    BY <1>3
  <2>2. f[i] = Utf8Step(b0, i, f)
    BY <1>2
  <2> HIDE DEF T, Rest
  <2>3. CASE m = n + 1
    <3>1. Left(m) = <<>>
      BY <1>3, <2>3
    <3>2. SubSeq(b0, i, L) = <<>>
      <4> HIDE DEF Left
      <4>1. Rest(m) = <<>>
        BY <3>1, JointEmpty DEF Rest
      <4> QED
        BY <4>1
    <3>3. Len(SubSeq(b0, i, L)) = L + 1 - i
      BY <1>1, RestIs
    <3>4. i > L
      <4>1. L + 1 - i = 0
        BY <3>2, <3>3
      <4> HIDE DEF L
      <4> QED
        BY <1>3, <4>1
    <3>5. f[i] = <<>>
      BY <2>2, <3>4 DEF Utf8Step
    <3> QED
      BY <3>1, <3>5
  <2>4. CASE m # n + 1
    <3> DEFINE d == m + 1
               c == s[m]
               w == Coded[c]
               r == Rest(d)
    <3>1. m \in 1..n /\ d \in 1..(n + 1) /\ d > m /\ c \in CodePoints
      BY <1>3, <2>1, <2>4
    <3>2. Left(m) = <<c>> \o Left(d)
      <4>1. SubSeq(s, m, m) = <<s[m]>>
        BY <3>1, SingleIs
      <4> HIDE DEF d
      <4>2. m \in 1..(n + 1) /\ d \in m..(n + 1) /\ d - 1 = m
        BY <1>3, <3>1 DEF d
      <4>3. IsJoined(SubSeq(s, m, n), SubSeq(s, m, d - 1), SubSeq(s, d, n))
        BY <1>3, <4>2, Cut
      <4> QED
        BY <4>1, <4>2, <4>3, Zenon DEF IsJoined
    <3>3. Left(d) \in Seq(CodePoints)
      <4> HIDE DEF d
      <4> QED
        BY <1>3, <3>1
    <3>4. w \in Seq(Octets) /\ IsCoded(w, c)
      BY <3>1, CodedTyped
    <3> HIDE DEF d, c, Left
    <3>5. IsJoined(Joint(Coded, <<c>> \o Left(d)), Coded[c], Joint(Coded, Left(d)))
      BY <3>1, <3>3, CodedTyped, JointHead
    <3>6. Rest(m) = w \o r
      BY <3>2, <3>5, Zenon DEF IsJoined, Rest
    <3>7. r \in Seq(Octets)
      BY <3>3, CodedTyped, JointType DEF Rest
    <3> HIDE DEF w, r
    <3>13. Continues(b0, i, w, r)
      BY <3>6, Zenon DEF Continues
    <3>8. /\ i + Len(w) \in i..(L + 1) /\ SubSeq(b0, i + Len(w), L) = r
      BY <1>1, <3>4, <3>7, <3>13, GoesOn
    <3> DEFINE e == i + Len(w)
    <3>9. e \in 1..(L + 1)
      <4>1. Len(w) \in Nat
        BY <3>4
      <4> HIDE DEF L
      <4> QED
        BY <1>3, <3>8, <4>1
    <3> HIDE DEF e
    <3>10. f[e] = Left(d)
      <4>1. SubSeq(b0, e, L) = Rest(d)
        BY <3>8 DEF e, r
      <4> QED
        BY <2>1, <3>1, <3>9, <4>1
    <3>11. f[e] # Link!Malformed
      <4> SUFFICES ASSUME Left(d) = <<-1>> PROVE FALSE
        BY <3>10 DEF Link!Malformed
      <4>1. Left(d)[1] \in CodePoints /\ Left(d)[1] = -1
        BY <3>3
      <4>2. -1 \in Nat
        BY <4>1, CharactersAre
      <4> QED
        BY <4>2
    <3>12. Utf8Step(b0, i, f) = <<c>> \o f[e]
      <4>1. f[i + Len(w)] # Link!Malformed
        BY <3>11 DEF e
      <4>2. Reads(b0, i, f, c, i + Len(w))
        BY <1>1, <3>4, <3>7, <3>13, <4>1, OneDecoded
      <4> QED
        BY <4>2, Zenon DEF e, Reads
    <3> QED
      BY <2>2, <3>2, <3>10, <3>12, Zenon
  <2> QED
    BY <2>3, <2>4
<1> HIDE DEF T
<1>5. \A m \in 0..(n + 1) : m \in T
  BY <1>3, <1>4, DownSet
<1>6. Left(1) = s
  OBVIOUS
<1>7. SubSeq(b0, 1, L) = Rest(1)
  <2>1. SubSeq(b0, 1, L) = b0
    BY <1>1
  <2> QED
    BY <1>1, <1>6, <2>1
<1>8. f[1] = Left(1)
  <2>1. 1 \in T /\ 1 \in 1..(L + 1)
    BY <1>3, <1>5
  <2> QED
    BY <1>7, <2>1 DEF T
<1> QED
  BY <1>2, <1>6, <1>8 DEF b0

\* Names that grow by a character at a time are sequences of characters.
NameHeld == part = "links" => name \in Seq(CodePoints)

LEMMA InitName == Init => NameHeld
BY DEF Init, NameHeld, Link!Init

LEMMA StepName == NameHeld /\ [Next]_all => NameHeld'
<1> SUFFICES ASSUME NameHeld, [Next]_all PROVE NameHeld'
  OBVIOUS
<1>1. CASE part = "links" /\ Link!Next /\ UNCHANGED part
  BY <1>1 DEF NameHeld, Link!Next
<1>2. CASE part' = part /\ part # "links"
  BY <1>2 DEF NameHeld
<1>3. CASE UNCHANGED all
  BY <1>3 DEF NameHeld, all, links
<1> QED
  BY <1>1, <1>2, <1>3 DEF Next

\* Whatever characters an address is made of, and whatever its length, the worker
\* reads out of the link what the shell put in (b64url, fromB64url).
THEOREM LinksAlwaysComeBack == Spec => []LinksComeBack
<1>1. NameHeld => LinksComeBack
  <2> SUFFICES ASSUME name \in Seq(CodePoints) PROVE Link!LinksComeBack
    BY DEF NameHeld, LinksComeBack
  <2>1. Link!Bytes(name) \in Seq(Octets) /\ Link!FromUtf8(Link!Bytes(name)) = name
    BY BytesAreCoded, NameComesBack
  <2>2. /\ Link!FromB64url(Link!B64url(name)) = Link!FromUtf8(Link!Bytes(name))
        /\ Link!ToSet(Link!B64url(name)) \subseteq (0..61) \cup {Link!Minus, Link!Underscore}
    BY <2>1, LinkOf
  <2> QED
    BY <2>1, <2>2 DEF Link!LinksComeBack
<1>2. Spec => Init /\ [][Next]_all
  BY PTL DEF Spec
<1> QED
  BY <1>1, <1>2, InitName, StepName, PTL

-----------------------------------------------------------------------------
\* The worker's WASM core: numbers, vectors and sections read back
\* (wasm-engine.js leb, vec, sec, code; init).

\* The bytes of leb: one step, and the table of all steps.
LebStep(i, f) == IF i < 128 THEN <<i>> ELSE <<128 + (i % 128)>> \o f[i \div 128]

\* Seven bits and the rest.
LEMMA Sevens ==
  ASSUME NEW i \in Nat
  PROVE  /\ i % 128 \in 0..127 /\ i \div 128 \in 0..i
         /\ (i % 128) + 128 * (i \div 128) = i
         /\ i >= 128 => i \div 128 < i
OBVIOUS

LEMMA LebTable ==
  ASSUME NEW n \in Nat
  PROVE  \E f : /\ \A i \in 0..n : f[i] = LebStep(i, f)
                /\ Wasm!Leb(n) = f[n]
<1> DEFINE V == Seq(Nat)
           step == [p \in (0..n) \X [0..n -> V] |-> LebStep(p[1], p[2])]
           Unfold(f) == [i \in 0..n |->
                           IF i < 128 THEN <<i>> ELSE <<128 + (i % 128)>> \o f[i \div 128]]
           table == CHOOSE f : f = Unfold(f)
<1>1. step \in [(0..n) \X [0..n -> V] -> V]
  <2> SUFFICES ASSUME NEW i \in 0..n, NEW f \in [0..n -> V] PROVE LebStep(i, f) \in V
    OBVIOUS
  <2>1. i \div 128 \in 0..n /\ 128 + (i % 128) \in Nat
    BY Sevens
  <2>2. <<128 + (i % 128)>> \o f[i \div 128] \in V
    BY <2>1
  <2> QED
    BY <2>2 DEF LebStep
<1>2. LooksDown(n, V, step)
  <2> SUFFICES ASSUME NEW i \in 0..n, NEW g \in [0..n -> V], NEW h \in [0..n -> V],
                      \A j \in 0..n : j < i => g[j] = h[j]
               PROVE  LebStep(i, g) = LebStep(i, h)
    BY DEF LooksDown
  <2>1. CASE i < 128
    BY <2>1 DEF LebStep
  <2>2. CASE ~ (i < 128)
    <3>1. i \div 128 \in 0..n /\ i \div 128 < i
      BY <2>2, Sevens
    <3>2. g[i \div 128] = h[i \div 128]
      BY <3>1
    <3> QED
      BY <3>2, Zenon DEF LebStep
  <2> QED
    BY <2>1, <2>2
<1>3. <<>> \in V
  OBVIOUS
<1> HIDE DEF V
<1>4. PICK f \in [0..n -> V] : IsDown(f, n, step)
  <2> HIDE DEF step
  <2> QED
    BY <1>1, <1>2, <1>3, UpExists
<1>5. \A i \in 0..n : f[i] = LebStep(i, f)
  BY <1>4 DEF IsDown
<1>6. f = Unfold(f)
  <2>1. \A i \in 0..n : f[i] = Unfold(f)[i]
    BY <1>5, Zenon DEF LebStep
  <2>2. DOMAIN f = 0..n
    OBVIOUS
  <2>3. Unfold(f) = [i \in 0..n |-> Unfold(f)[i]]
    OBVIOUS
  <2> HIDE DEF Unfold
  <2> QED
    BY <2>1, <2>2, <2>3
<1>7. table = Unfold(table)
  <2> HIDE DEF Unfold
  <2> QED
    BY <1>6
<1>8. \A i \in 0..n : table[i] = LebStep(i, table)
  <2> HIDE DEF table
  <2>1. \A i \in 0..n : table[i] = Unfold(table)[i]
    BY <1>7
  <2>2. \A i \in 0..n : Unfold(table)[i] = LebStep(i, table)
    BY Zenon DEF LebStep
  <2> HIDE DEF Unfold
  <2> QED
    BY <2>1, <2>2
<1>9. Wasm!Leb(n) = table[n]
  BY Zenon DEF Wasm!Leb
<1> HIDE DEF table
<1> QED
  BY <1>8, <1>9

\* A number of the format at position i of s, with the table of all positions.
NumberStep(s, i, f) ==
  IF i > Len(s) THEN [n |-> 0, next |-> Len(s) + 2]
  ELSE IF s[i] < 128 THEN [n |-> s[i], next |-> i + 1]
  ELSE [n |-> (s[i] - 128) + 128 * f[i + 1].n, next |-> f[i + 1].next]

LEMMA NumberTable ==
  ASSUME NEW s \in Seq(Nat)
  PROVE  \E f : /\ \A i \in 1..(Len(s) + 1) : f[i] = NumberStep(s, i, f)
                /\ \A i : Wasm!Number(s, i) = f[i]
<1> DEFINE n == Len(s)
           V == [n : Nat, next : Nat]
           W == [0..(n + 1) -> V]
           none == [n |-> 0, next |-> 0]
           step == [p \in (0..(n + 1)) \X W |->
                      IF p[1] = 0 THEN none ELSE NumberStep(s, p[1], p[2])]
           Unfold(f) == [i \in 1..(Len(s) + 1) |->
                           IF i > Len(s) THEN [n |-> 0, next |-> Len(s) + 2]
                           ELSE IF s[i] < 128 THEN [n |-> s[i], next |-> i + 1]
                           ELSE [n |-> (s[i] - 128) + 128 * f[i + 1].n, next |-> f[i + 1].next]]
           table == CHOOSE f : f = Unfold(f)
<1>0. n \in Nat /\ n + 1 \in Nat /\ none \in V
  OBVIOUS
<1>1. ASSUME NEW i \in 0..(n + 1), i # 0, NEW f \in W
      PROVE  NumberStep(s, i, f) \in V
  <2>1. CASE i > n
    BY <1>0, <2>1 DEF NumberStep
  <2>2. CASE ~ (i > n)
    <3>1. i + 1 \in 0..(n + 1) /\ s[i] \in Nat
      BY <1>0, <1>1, <2>2
    <3>2. f[i + 1] \in V
      BY <3>1
    <3>3. CASE s[i] < 128
      BY <2>2, <3>1, <3>3 DEF NumberStep
    <3>4. CASE ~ (s[i] < 128)
      <4> DEFINE c == s[i]
                 v == f[i + 1].n
                 e == f[i + 1].next
      <4>1. c \in Nat /\ ~ (c < 128) /\ v \in Nat /\ e \in Nat
        BY <3>1, <3>2, <3>4
      <4>2. NumberStep(s, i, f) = [n |-> (c - 128) + 128 * v, next |-> e]
        BY <2>2, <3>4 DEF NumberStep
      <4> HIDE DEF c, v, e
      <4>3. (c - 128) + 128 * v \in Nat
        BY <4>1
      <4> QED
        BY <4>1, <4>2, <4>3
    <3> QED
      BY <3>3, <3>4
  <2> QED
    BY <2>1, <2>2
<1>2. step \in [(0..(n + 1)) \X W -> V]
  <2>1. ASSUME NEW i \in 0..(n + 1), NEW f \in W
        PROVE  (IF i = 0 THEN none ELSE NumberStep(s, i, f)) \in V
    BY <1>0, <1>1
  <2> HIDE DEF V, none
  <2> QED
    BY <2>1
<1>3. ASSUME NEW i \in 1..(n + 1), NEW g, NEW h, \A j \in 1..(n + 1) : j > i => g[j] = h[j]
      PROVE  NumberStep(s, i, g) = NumberStep(s, i, h)
  <2>1. CASE i > n
    BY <2>1 DEF NumberStep
  <2>2. CASE ~ (i > n)
    <3>1. i + 1 \in 1..(n + 1) /\ i + 1 > i
      BY <1>0, <2>2
    <3>2. g[i + 1] = h[i + 1]
      BY <1>3, <3>1
    <3> QED
      BY <3>2, Zenon DEF NumberStep
  <2> QED
    BY <2>1, <2>2
<1>4. LooksUp(n + 1, V, step)
  <2> SUFFICES ASSUME NEW i \in 0..(n + 1), NEW g \in W, NEW h \in W,
                      \A j \in 0..(n + 1) : j > i => g[j] = h[j]
               PROVE  step[<<i, g>>] = step[<<i, h>>]
    BY DEF LooksUp
  <2>1. CASE i = 0
    BY <2>1
  <2>2. CASE i # 0
    <3>1. i \in 1..(n + 1) /\ \A j \in 1..(n + 1) : j > i => g[j] = h[j]
      BY <1>0, <2>2
    <3>2. NumberStep(s, i, g) = NumberStep(s, i, h)
      BY <1>3, <3>1
    <3> QED
      BY <2>2, <3>2
  <2> QED
    BY <2>1, <2>2
<1>5. PICK f \in W : IsDown(f, n + 1, step)
  <2> HIDE DEF V, none, step
  <2> QED
    BY <1>0, <1>2, <1>4, DownExists
<1>6. \A i \in 1..(n + 1) : f[i] = NumberStep(s, i, f)
  <2>1. \A i \in 1..(n + 1) : i \in 0..(n + 1) /\ i # 0
    BY <1>0
  <2> QED
    BY <1>5, <2>1 DEF IsDown
<1> DEFINE g == [i \in 1..(n + 1) |-> f[i]]
<1>7. ASSUME NEW i \in 1..(n + 1) PROVE g[i] = NumberStep(s, i, g)
  <2>1. \A j \in 1..(n + 1) : j > i => f[j] = g[j]
    OBVIOUS
  <2> QED
    BY <1>3, <1>6, <2>1
<1>8. ASSUME NEW h PROVE \A i \in 1..(n + 1) : Unfold(h)[i] = NumberStep(s, i, h)
  BY Zenon DEF NumberStep
<1>9. g = Unfold(g)
  <2>1. Unfold(g) = [i \in 1..(n + 1) |-> Unfold(g)[i]]
    OBVIOUS
  <2>2. g = [i \in 1..(n + 1) |-> g[i]]
    OBVIOUS
  <2> HIDE DEF Unfold, g
  <2>3. \A i \in 1..(n + 1) : g[i] = Unfold(g)[i]
    BY <1>7, <1>8
  <2> QED
    BY <2>1, <2>2, <2>3
<1>10. table = Unfold(table)
  <2> HIDE DEF Unfold
  <2> QED
    BY <1>9
<1>11. \A i : Wasm!Number(s, i) = table[i]
  BY Zenon DEF Wasm!Number
<1> HIDE DEF table, Unfold
<1>12. \A i \in 1..(n + 1) : table[i] = NumberStep(s, i, table)
  BY <1>8, <1>10
<1> QED
  BY <1>11, <1>12

\* The number at a position, by the one behind it.
LEMMA NumberIs ==
  ASSUME NEW s \in Seq(Nat), NEW i \in 1..(Len(s) + 1)
  PROVE  Wasm!Number(s, i) =
           IF i > Len(s) THEN [n |-> 0, next |-> Len(s) + 2]
           ELSE IF s[i] < 128 THEN [n |-> s[i], next |-> i + 1]
           ELSE [n |-> (s[i] - 128) + 128 * Wasm!Number(s, i + 1).n,
                 next |-> Wasm!Number(s, i + 1).next]
<1>1. PICK f : /\ \A j \in 1..(Len(s) + 1) : f[j] = NumberStep(s, j, f)
               /\ \A j : Wasm!Number(s, j) = f[j]
  BY NumberTable
<1>2. Wasm!Number(s, i) = NumberStep(s, i, f) /\ f[i + 1] = Wasm!Number(s, i + 1)
  BY <1>1
<1> QED
  BY <1>2, Zenon DEF NumberStep

\* It ends behind its position.
LEMMA NumberTyped ==
  ASSUME NEW s \in Seq(Nat)
  PROVE  \A i \in 1..(Len(s) + 1) :
           /\ Wasm!Number(s, i) \in [n : Nat, next : Nat]
           /\ Wasm!Number(s, i).next > i
<1> DEFINE n == Len(s)
           V == [n : Nat, next : Nat]
           T == {i \in 0..(n + 1) : i # 0 => Wasm!Number(s, i) \in V /\ Wasm!Number(s, i).next > i}
<1>0. n \in Nat /\ n + 1 \in Nat
  OBVIOUS
<1>1. \A i \in 0..(n + 1) : (\A j \in 0..(n + 1) : j > i => j \in T) => i \in T
  <2> SUFFICES ASSUME NEW i \in 0..(n + 1), \A j \in 0..(n + 1) : j > i => j \in T, i # 0
               PROVE  Wasm!Number(s, i) \in V /\ Wasm!Number(s, i).next > i
    OBVIOUS
  <2>0. i \in 1..(n + 1)
    BY <1>0
  <2>1. CASE i > n
    <3>1. Wasm!Number(s, i) = [n |-> 0, next |-> n + 2]
      BY <2>0, <2>1, NumberIs
    <3> QED
      BY <1>0, <3>1
  <2>2. CASE ~ (i > n) /\ s[i] < 128
    <3>1. Wasm!Number(s, i) = [n |-> s[i], next |-> i + 1]
      BY <2>0, <2>2, NumberIs
    <3>2. s[i] \in Nat
      BY <2>0, <2>2
    <3> QED
      BY <3>1, <3>2
  <2>3. CASE ~ (i > n) /\ ~ (s[i] < 128)
    <3> DEFINE c == s[i]
               m == Wasm!Number(s, i + 1)
    <3>1. i + 1 \in 0..(n + 1) /\ i + 1 > i /\ i + 1 # 0 /\ c \in Nat
      BY <1>0, <2>0, <2>3
    <3>2. m \in V /\ m.next > i + 1
      <4>1. i + 1 \in T
        BY <3>1
      <4> QED
        BY <3>1, <4>1
    <3>3. Wasm!Number(s, i) = [n |-> (c - 128) + 128 * m.n, next |-> m.next]
      BY <2>0, <2>3, NumberIs
    <3>4. ~ (c < 128)
      BY <2>3
    <3> HIDE DEF c, m
    <3>5. (c - 128) + 128 * m.n \in Nat
      BY <3>1, <3>2, <3>4
    <3> QED
      BY <3>2, <3>3, <3>5
  <2> QED
    BY <2>1, <2>2, <2>3
<1> HIDE DEF T
<1>2. \A i \in 0..(n + 1) : i \in T
  BY <1>0, <1>1, DownSet
<1>3. \A i \in 1..(n + 1) : i \in 0..(n + 1) /\ i # 0
  BY <1>0
<1> QED
  BY <1>2, <1>3 DEF T

\* The items of s from i on, with the table of all positions.
FramedStep(s, i, g, f) ==
  LET m == Wasm!Number(s, i + g)
      end == m.next + m.n
  IN  IF i = Len(s) + 1 THEN <<>>
      ELSE IF i + g > Len(s) THEN <<Wasm!Bad>>
      ELSE IF end > Len(s) + 1 THEN <<Wasm!Bad>>
      ELSE <<SubSeq(s, m.next, end - 1)>> \o f[end]

\* The item after i ends behind i.
LEMMA FramedEnd ==
  ASSUME NEW s \in Seq(Nat), NEW g \in Nat, NEW i \in 1..(Len(s) + 1),
         NEW m, m = Wasm!Number(s, i + g), ~ (i + g > Len(s))
  PROVE  /\ m.next \in Nat /\ m.n \in Nat /\ m.next > i /\ m.next + m.n > i
         /\ m.next + m.n <= Len(s) + 1 =>
              SubSeq(s, m.next, (m.next + m.n) - 1) \in Seq(Nat)
<1>1. Len(s) \in Nat /\ i + g \in 1..(Len(s) + 1)
  OBVIOUS
<1>2. m \in [n : Nat, next : Nat] /\ m.next > i + g
  BY <1>1, NumberTyped
<1>3. m.next \in Nat /\ m.n \in Nat
  BY <1>2
<1> DEFINE a == m.next
           e == m.next + m.n
<1>4. a \in Nat /\ e \in Nat /\ a > i /\ e > i
  BY <1>1, <1>2, <1>3
<1>5. ASSUME e <= Len(s) + 1 PROVE SubSeq(s, a, e - 1) \in Seq(Nat)
  <2> HIDE DEF a, e
  <2>1. a >= 1 /\ e - 1 <= Len(s) /\ e - 1 \in Nat
    BY <1>1, <1>4, <1>5
  <2> QED
    BY <1>4, <2>1
<1> QED
  BY <1>3, <1>4, <1>5

LEMMA FramedTable ==
  ASSUME NEW s \in Seq(Nat), NEW tagged \in Nat
  PROVE  \E f : /\ \A i \in 1..(Len(s) + 1) : f[i] = FramedStep(s, i, tagged, f)
                /\ \A i : Wasm!Framed(s, i, tagged) = f[i]
<1> DEFINE n == Len(s)
           V == Seq(Seq(Nat))
           W == [0..(n + 1) -> V]
           step == [p \in (0..(n + 1)) \X W |->
                      IF p[1] = 0 THEN <<>> ELSE FramedStep(s, p[1], tagged, p[2])]
           Unfold(f) == [i \in 1..(Len(s) + 1) |->
             IF i = Len(s) + 1 THEN <<>>
             ELSE IF i + tagged > Len(s) THEN <<Wasm!Bad>>
             ELSE LET m == Wasm!Number(s, i + tagged)
                      end == m.next + m.n
                  IN IF end > Len(s) + 1 THEN <<Wasm!Bad>>
                     ELSE <<SubSeq(s, m.next, end - 1)>> \o f[end]]
           table == CHOOSE f : f = Unfold(f)
<1>0. n \in Nat /\ n + 1 \in Nat /\ <<>> \in V /\ <<Wasm!Bad>> \in V
  BY DEF Wasm!Bad
<1>1. ASSUME NEW i \in 1..(n + 1), NEW f, \A j \in 1..(n + 1) : j > i => f[j] \in V
      PROVE  FramedStep(s, i, tagged, f) \in V
  <2> DEFINE m == Wasm!Number(s, i + tagged)
             e == m.next + m.n
             x == SubSeq(s, m.next, e - 1)
  <2>1. CASE i = n + 1 \/ i + tagged > n \/ e > n + 1
    <3>1. FramedStep(s, i, tagged, f) \in {<<>>, <<Wasm!Bad>>}
      BY <2>1 DEF FramedStep
    <3> HIDE DEF V
    <3> QED
      BY <1>0, <3>1
  <2>2. CASE i # n + 1 /\ ~ (i + tagged > n) /\ ~ (e > n + 1)
    <3>1. FramedStep(s, i, tagged, f) = <<x>> \o f[e]
      BY <2>2, Zenon DEF FramedStep
    <3>2. /\ m.next \in Nat /\ m.n \in Nat /\ e > i
          /\ e <= n + 1 => x \in Seq(Nat)
      <4> HIDE DEF m
      <4>1. m = Wasm!Number(s, i + tagged) /\ ~ (i + tagged > Len(s))
        BY <2>2 DEF m
      <4> QED
        BY <4>1, FramedEnd
    <3>3. e \in 1..(n + 1) /\ x \in Seq(Nat)
      <4> HIDE DEF m, x
      <4>1. e \in Nat
        BY <3>2
      <4> HIDE DEF e, n
      <4> QED
        BY <1>0, <2>2, <3>2, <4>1
    <3> HIDE DEF e, x
    <3>4. f[e] \in V
      BY <1>1, <3>2, <3>3
    <3>5. <<x>> \o f[e] \in V
      BY <3>3, <3>4
    <3> QED
      BY <3>1, <3>5, Zenon
  <2> QED
    BY <2>1, <2>2
<1>3. ASSUME NEW i \in 1..(n + 1), NEW g, NEW h, \A j \in 1..(n + 1) : j > i => g[j] = h[j]
      PROVE  FramedStep(s, i, tagged, g) = FramedStep(s, i, tagged, h)
  <2> DEFINE m == Wasm!Number(s, i + tagged)
             e == m.next + m.n
  <2>1. CASE i = n + 1 \/ i + tagged > n \/ e > n + 1
    BY <2>1 DEF FramedStep
  <2>2. CASE i # n + 1 /\ ~ (i + tagged > n) /\ ~ (e > n + 1)
    <3>1. m.next \in Nat /\ m.n \in Nat /\ e > i
      <4> HIDE DEF m
      <4>1. m = Wasm!Number(s, i + tagged) /\ ~ (i + tagged > Len(s))
        BY <2>2 DEF m
      <4> QED
        BY <4>1, FramedEnd
    <3>2. e \in 1..(n + 1)
      <4> HIDE DEF m
      <4>1. e \in Nat
        BY <3>1
      <4> HIDE DEF e, n
      <4> QED
        BY <1>0, <2>2, <3>1, <4>1
    <3>3. g[e] = h[e]
      <4> HIDE DEF e
      <4> QED
        BY <1>3, <3>1, <3>2
    <3> QED
      BY <2>2, <3>3, Zenon DEF FramedStep
  <2> QED
    BY <2>1, <2>2
<1>2. step \in [(0..(n + 1)) \X W -> V]
  <2>1. ASSUME NEW i \in 0..(n + 1), NEW f \in W
        PROVE  (IF i = 0 THEN <<>> ELSE FramedStep(s, i, tagged, f)) \in V
    <3>1. CASE i = 0
      BY <1>0, <3>1
    <3>2. CASE i # 0
      <4>1. i \in 1..(n + 1) /\ \A j \in 1..(n + 1) : f[j] \in V
        <5> HIDE DEF V
        <5> QED
          BY <1>0, <3>2
      <4> QED
        BY <1>1, <3>2, <4>1
    <3> QED
      BY <3>1, <3>2
  <2> HIDE DEF V
  <2> QED
    BY <2>1
<1>4. LooksUp(n + 1, V, step)
  <2> SUFFICES ASSUME NEW i \in 0..(n + 1), NEW g \in W, NEW h \in W,
                      \A j \in 0..(n + 1) : j > i => g[j] = h[j]
               PROVE  step[<<i, g>>] = step[<<i, h>>]
    BY DEF LooksUp
  <2>1. CASE i = 0
    BY <2>1
  <2>2. CASE i # 0
    <3>1. i \in 1..(n + 1) /\ \A j \in 1..(n + 1) : j > i => g[j] = h[j]
      BY <1>0, <2>2
    <3>2. FramedStep(s, i, tagged, g) = FramedStep(s, i, tagged, h)
      BY <1>3, <3>1
    <3> QED
      BY <2>2, <3>2
  <2> QED
    BY <2>1, <2>2
<1>5. PICK f \in W : IsDown(f, n + 1, step)
  <2> HIDE DEF V, step
  <2> QED
    BY <1>0, <1>2, <1>4, DownExists
<1>6. \A i \in 1..(n + 1) : f[i] = FramedStep(s, i, tagged, f)
  <2>1. \A i \in 1..(n + 1) : i \in 0..(n + 1) /\ i # 0
    BY <1>0
  <2> QED
    BY <1>5, <2>1 DEF IsDown
<1> DEFINE g == [i \in 1..(n + 1) |-> f[i]]
<1>7. ASSUME NEW i \in 1..(n + 1) PROVE g[i] = FramedStep(s, i, tagged, g)
  <2>1. \A j \in 1..(n + 1) : j > i => f[j] = g[j]
    OBVIOUS
  <2> QED
    BY <1>3, <1>6, <2>1
<1>8. ASSUME NEW h PROVE \A i \in 1..(n + 1) : Unfold(h)[i] = FramedStep(s, i, tagged, h)
  BY Zenon DEF FramedStep
<1>9. g = Unfold(g)
  <2>1. Unfold(g) = [i \in 1..(n + 1) |-> Unfold(g)[i]]
    OBVIOUS
  <2>2. g = [i \in 1..(n + 1) |-> g[i]]
    OBVIOUS
  <2> HIDE DEF Unfold, g
  <2>3. \A i \in 1..(n + 1) : g[i] = Unfold(g)[i]
    BY <1>7, <1>8
  <2> QED
    BY <2>1, <2>2, <2>3
<1>10. table = Unfold(table)
  <2> HIDE DEF Unfold
  <2> QED
    BY <1>9
<1>11. \A i : Wasm!Framed(s, i, tagged) = table[i]
  BY Zenon DEF Wasm!Framed
<1> HIDE DEF table, Unfold
<1>12. \A i \in 1..(n + 1) : table[i] = FramedStep(s, i, tagged, table)
  BY <1>8, <1>10
<1> QED
  BY <1>11, <1>12

\* x is the item read at i, where g bytes and its length come before it, and the
\* next item begins at e.
OneMore(s, i, g, x, e) ==
  Wasm!Framed(s, i, g) = <<x>> \o Wasm!Framed(s, e, g)

LEMMA FramedOn ==
  ASSUME NEW s \in Seq(Nat), NEW g \in Nat, NEW i \in 1..(Len(s) + 1), NEW m,
         m = Wasm!Number(s, i + g), i + g <= Len(s), m.next + m.n <= Len(s) + 1
  PROVE  OneMore(s, i, g, SubSeq(s, m.next, (m.next + m.n) - 1), m.next + m.n)
<1>1. PICK f : /\ \A j \in 1..(Len(s) + 1) : f[j] = FramedStep(s, j, g, f)
               /\ \A j : Wasm!Framed(s, j, g) = f[j]
  BY FramedTable
<1> DEFINE e == m.next + m.n
           x == SubSeq(s, m.next, e - 1)
<1>2. Len(s) \in Nat /\ ~ (i + g > Len(s)) /\ i # Len(s) + 1
  OBVIOUS
<1>3. e \in Nat
  BY <1>2, FramedEnd
<1>4. ~ (e > Len(s) + 1)
  <2> HIDE DEF e
  <2>1. e <= Len(s) + 1
    BY DEF e
  <2> QED
    BY <1>2, <1>3, <2>1
<1>5. FramedStep(s, i, g, f) = <<x>> \o f[e]
  BY <1>2, <1>4, Zenon DEF FramedStep
<1>6. Wasm!Framed(s, i, g) = <<x>> \o f[e] /\ f[e] = Wasm!Framed(s, e, g)
  BY <1>1, <1>5
<1> QED
  BY <1>6, Zenon DEF OneMore

LEMMA FramedNone ==
  ASSUME NEW s \in Seq(Nat), NEW g \in Nat
  PROVE  Wasm!Framed(s, Len(s) + 1, g) = <<>>
<1>1. PICK f : /\ \A j \in 1..(Len(s) + 1) : f[j] = FramedStep(s, j, g, f)
               /\ \A j : Wasm!Framed(s, j, g) = f[j]
  BY FramedTable
<1>2. Len(s) + 1 \in 1..(Len(s) + 1)
  OBVIOUS
<1>3. Wasm!Framed(s, Len(s) + 1, g) = FramedStep(s, Len(s) + 1, g, f)
  BY <1>1, <1>2
<1> QED
  BY <1>3 DEF FramedStep

\* A sequence that goes on at i with two parts goes on with each where it begins.
LEMMA GoesOnTwice ==
  ASSUME NEW S, NEW s \in Seq(S), NEW i \in 1..(Len(s) + 1), NEW x \in Seq(S), NEW y \in Seq(S),
         NEW r \in Seq(S), Continues(s, i, x \o y, r)
  PROVE  /\ Continues(s, i, x, y \o r)
         /\ i + Len(x) \in i..(Len(s) + 1) /\ Continues(s, i + Len(x), y, r)
         /\ Len(x \o y) = Len(x) + Len(y)
<1>1. Regroups(x, y, r) /\ y \o r \in Seq(S)
  <2>1. y \o r \in Seq(S)
    OBVIOUS
  <2> QED
    BY <2>1, Associative
<1>2. Continues(s, i, x, y \o r)
  BY <1>1, Zenon DEF Continues, Regroups
<1> DEFINE w == y \o r
<1>3. w \in Seq(S) /\ Continues(s, i, x, w)
  BY <1>1, <1>2
<1>4. i + Len(x) \in i..(Len(s) + 1) /\ SubSeq(s, i + Len(x), Len(s)) = w
  <2> HIDE DEF w
  <2> QED
    BY <1>3, GoesOn
<1>5. Continues(s, i + Len(x), y, r)
  BY <1>4, Zenon DEF Continues
<1>6. Len(x \o y) = Len(x) + Len(y)
  OBVIOUS
<1> QED
  BY <1>2, <1>4, <1>5, <1>6

\* The bytes x stand for n wherever they are read.
IsNumber(x, n) ==
  /\ x \in Seq(Nat) /\ Len(x) >= 1
  /\ \A s, r \in Seq(Nat) : \A i \in 1..(Len(s) + 1) :
       Continues(s, i, x, r) => Wasm!Number(s, i) = [n |-> n, next |-> i + Len(x)]

LEMMA OneByte ==
  ASSUME NEW n \in Nat, n < 128
  PROVE  IsNumber(<<n>>, n)
<1> DEFINE x == <<n>>
<1>1. x \in Seq(Nat) /\ Len(x) = 1 /\ x[1] = n
  OBVIOUS
<1> HIDE DEF x
<1>2. ASSUME NEW s \in Seq(Nat), NEW r \in Seq(Nat), NEW i \in 1..(Len(s) + 1), Continues(s, i, x, r)
      PROVE  Wasm!Number(s, i) = [n |-> n, next |-> i + Len(x)]
  <2>1. i + Len(x) \in i..(Len(s) + 1) /\ \A j \in 1..Len(x) : s[i + j - 1] = x[j]
    BY <1>1, <1>2, GoesOn
  <2>2. ~ (i > Len(s)) /\ s[i] = n
    <3>1. Len(s) \in Nat
      OBVIOUS
    <3>2. s[i + 1 - 1] = n /\ i + 1 - 1 = i
      BY <1>1, <2>1
    <3> QED
      BY <1>1, <2>1, <3>1, <3>2
  <2> QED
    BY <1>1, <2>2, NumberIs
<1>3. IsNumber(x, n)
  BY <1>1, <1>2 DEF IsNumber
<1> QED
  BY <1>3 DEF x

LEMMA OneByteMore ==
  ASSUME NEW c \in 0..127, NEW h \in Nat, NEW y, IsNumber(y, h)
  PROVE  IsNumber(<<128 + c>> \o y, c + 128 * h)
<1> DEFINE a == <<128 + c>>
           x == a \o y
<1>0. y \in Seq(Nat) /\ Len(y) >= 1
  BY DEF IsNumber
<1>1. a \in Seq(Nat) /\ Len(a) = 1 /\ a[1] = 128 + c
  OBVIOUS
<1>2. x \in Seq(Nat) /\ Len(x) = 1 + Len(y) /\ Len(y) \in Nat
  BY <1>0, <1>1
<1> HIDE DEF a
<1>3. ASSUME NEW s \in Seq(Nat), NEW r \in Seq(Nat), NEW i \in 1..(Len(s) + 1), Continues(s, i, x, r)
      PROVE  Wasm!Number(s, i) = [n |-> c + 128 * h, next |-> i + Len(x)]
  <2>1. /\ Continues(s, i, a, y \o r) /\ y \o r \in Seq(Nat)
        /\ i + Len(a) \in i..(Len(s) + 1) /\ Continues(s, i + Len(a), y, r)
    <3>1. y \o r \in Seq(Nat)
      BY <1>0
    <3>2. Continues(s, i, a \o y, r)
      BY <1>3
    <3> QED
      BY <1>0, <1>1, <3>1, <3>2, GoesOnTwice
  <2> DEFINE w == y \o r
  <2>2. \A j \in 1..Len(a) : s[i + j - 1] = a[j]
    <3>1. w \in Seq(Nat) /\ Continues(s, i, a, w)
      BY <2>1
    <3> HIDE DEF w
    <3> QED
      BY <1>1, <3>1, GoesOn
  <2>3. ~ (i > Len(s)) /\ s[i] = 128 + c /\ i + 1 \in 1..(Len(s) + 1)
    <3>1. Len(s) \in Nat
      OBVIOUS
    <3>2. s[i + 1 - 1] = a[1] /\ i + 1 - 1 = i
      BY <1>1, <2>2
    <3> QED
      BY <1>1, <2>1, <3>1, <3>2
  <2>4. Wasm!Number(s, i + 1) = [n |-> h, next |-> (i + 1) + Len(y)]
    <3>1. Continues(s, i + 1, y, r)
      BY <1>1, <2>1
    <3> QED
      BY <2>3, <3>1 DEF IsNumber
  <2>5. Wasm!Number(s, i) = [n |-> (s[i] - 128) + 128 * Wasm!Number(s, i + 1).n,
                             next |-> Wasm!Number(s, i + 1).next]
    <3>1. ~ (s[i] < 128)
      BY <2>3
    <3> QED
      BY <2>3, <3>1, NumberIs
  <2>6. Wasm!Number(s, i) = [n |-> (s[i] - 128) + 128 * h, next |-> (i + 1) + Len(y)]
    BY <2>4, <2>5
  <2>7. (s[i] - 128) + 128 * h = c + 128 * h /\ (i + 1) + Len(y) = i + Len(x)
    BY <1>2, <2>3
  <2> QED
    BY <2>6, <2>7
<1>4. IsNumber(x, c + 128 * h)
  <2> HIDE DEF x
  <2> QED
    BY <1>2, <1>3 DEF IsNumber
<1> QED
  BY <1>4 DEF a, x

\* What leb writes is read back, however many bytes it takes.
LEMMA LebIs ==
  ASSUME NEW n \in Nat
  PROVE  IsNumber(Wasm!Leb(n), n)
<1>1. PICK f : /\ \A i \in 0..n : f[i] = LebStep(i, f)
               /\ Wasm!Leb(n) = f[n]
  BY LebTable
<1> DEFINE T == {i \in 0..n : IsNumber(f[i], i)}
<1>2. \A i \in 0..n : (\A j \in 0..n : j < i => j \in T) => i \in T
  <2> SUFFICES ASSUME NEW i \in 0..n, \A j \in 0..n : j < i => j \in T
               PROVE  IsNumber(f[i], i)
    OBVIOUS
  <2>1. CASE i < 128
    <3>1. f[i] = <<i>>
      BY <1>1, <2>1 DEF LebStep
    <3> QED
      BY <2>1, <3>1, OneByte
  <2>2. CASE ~ (i < 128)
    <3> DEFINE c == i % 128
               h == i \div 128
    <3>1. c \in 0..127 /\ h \in 0..n /\ h < i /\ c + 128 * h = i
      BY <2>2, Sevens
    <3>2. f[i] = <<128 + c>> \o f[h]
      BY <1>1, <2>2, Zenon DEF LebStep
    <3> HIDE DEF c, h
    <3>3. h \in Nat /\ IsNumber(f[h], h)
      BY <3>1
    <3>4. IsNumber(<<128 + c>> \o f[h], c + 128 * h)
      BY <3>1, <3>3, OneByteMore
    <3> QED
      BY <3>1, <3>2, <3>4, Zenon
  <2> QED
    BY <2>1, <2>2
<1> HIDE DEF T
<1>3. n \in T
  BY <1>2, UpSet
<1> QED
  BY <1>1, <1>3 DEF T

LEMMA LebOne == Wasm!Leb(1) = <<1>>
<1>1. PICK f : /\ \A i \in 0..1 : f[i] = LebStep(i, f)
               /\ Wasm!Leb(1) = f[1]
  BY LebTable
<1> QED
  BY <1>1 DEF LebStep

\* v is the part of s from i to n.
IsPart(s, i, n, v) ==
  /\ v \in Seq(Nat) /\ Len(v) = IF i <= n THEN n - i + 1 ELSE 0
  /\ \A j \in 1..(n - i + 1) : v[j] = s[i + j - 1]

LEMMA PartIs ==
  ASSUME NEW s \in Seq(Nat), NEW i \in Int, NEW n \in Int, i >= 1, n <= Len(s)
  PROVE  IsPart(s, i, n, SubSeq(s, i, n))
<1>1. \A j \in i..n : s[j] \in Nat
  OBVIOUS
<1> QED
  BY <1>1, SubSeqProperties DEF IsPart

\* Items, and the bytes they come in: g bytes of a tag, the length, the item.
IsItem(y, x, g) ==
  /\ x \in Seq(Nat)
  /\ \E tag \in Seq(Nat) : Len(tag) = g /\ y = tag \o (Wasm!Leb(Len(x)) \o x)

LEMMA ItemTyped ==
  ASSUME NEW y, NEW x, NEW g \in Nat, IsItem(y, x, g)
  PROVE  y \in Seq(Nat) /\ Len(y) >= 1
<1>1. PICK tag \in Seq(Nat) : Len(tag) = g /\ y = tag \o (Wasm!Leb(Len(x)) \o x)
  BY DEF IsItem
<1> DEFINE l == Wasm!Leb(Len(x))
           w == l \o x
<1>2. x \in Seq(Nat) /\ Len(x) \in Nat
  BY DEF IsItem
<1>3. l \in Seq(Nat) /\ Len(l) >= 1
  BY <1>2, LebIs DEF IsNumber
<1> HIDE DEF l
<1>4. w \in Seq(Nat) /\ Len(w) >= 1
  BY <1>2, <1>3
<1>5. y = tag \o w
  BY <1>1 DEF l
<1> HIDE DEF w
<1> QED
  BY <1>4, <1>5

LEMMA ItemRead ==
  ASSUME NEW s \in Seq(Nat), NEW g \in Nat, NEW i \in 1..(Len(s) + 1), NEW x, NEW y,
         IsItem(y, x, g), NEW r \in Seq(Nat), Continues(s, i, y, r)
  PROVE  /\ OneMore(s, i, g, x, i + Len(y))
         /\ i + Len(y) \in i..(Len(s) + 1) /\ SubSeq(s, i + Len(y), Len(s)) = r
<1>1. PICK tag \in Seq(Nat) : Len(tag) = g /\ y = tag \o (Wasm!Leb(Len(x)) \o x)
  BY DEF IsItem
<1> DEFINE l == Wasm!Leb(Len(x))
           w == l \o x
           v == x \o r
           a == i + g
           d == a + Len(l)
           e == d + Len(x)
           m == Wasm!Number(s, a)
<1>2. x \in Seq(Nat) /\ Len(x) \in Nat /\ y \in Seq(Nat) /\ Len(s) \in Nat
  <2>1. y \in Seq(Nat)
    BY ItemTyped
  <2> QED
    BY <2>1 DEF IsItem
<1>3. i + Len(y) \in i..(Len(s) + 1) /\ SubSeq(s, i + Len(y), Len(s)) = r
  BY <1>2, GoesOn
<1>4. IsNumber(l, Len(x))
  BY <1>2, LebIs
<1> HIDE DEF l
<1>5. l \in Seq(Nat) /\ Len(l) \in Nat /\ Len(l) >= 1
  BY <1>4 DEF IsNumber
<1>6. w \in Seq(Nat) /\ v \in Seq(Nat)
  BY <1>2, <1>5
<1>7. Continues(s, i, tag \o w, r)
  BY <1>1, Zenon DEF l
<1> HIDE DEF w
<1>8. a \in i..(Len(s) + 1) /\ Continues(s, a, w, r) /\ Len(y) = g + Len(w)
  <2>1. /\ i + Len(tag) \in i..(Len(s) + 1) /\ Continues(s, i + Len(tag), w, r)
        /\ Len(tag \o w) = Len(tag) + Len(w)
    BY <1>6, <1>7, GoesOnTwice
  <2>2. y = tag \o w
    BY <1>1 DEF l, w
  <2> QED
    BY <1>1, <2>1, <2>2
<1> HIDE DEF a
<1>9. a \in 1..(Len(s) + 1)
  BY <1>2, <1>8
<1>10. /\ Continues(s, a, l, v) /\ d \in a..(Len(s) + 1) /\ Continues(s, d, x, r)
       /\ Len(w) = Len(l) + Len(x)
  <2>1. Continues(s, a, l \o x, r)
    BY <1>8 DEF w
  <2>2. /\ Continues(s, a, l, x \o r) /\ a + Len(l) \in a..(Len(s) + 1)
        /\ Continues(s, a + Len(l), x, r) /\ Len(l \o x) = Len(l) + Len(x)
    BY <1>2, <1>5, <1>9, <2>1, GoesOnTwice
  <2> QED
    BY <2>2 DEF w
<1> HIDE DEF v
<1>11. m = [n |-> Len(x), next |-> d]
  BY <1>4, <1>6, <1>9, <1>10 DEF IsNumber
<1> HIDE DEF m
<1>12. e = i + Len(y)
  BY <1>2, <1>5, <1>8, <1>10 DEF a
<1> HIDE DEF d
<1>13. d \in 1..(Len(s) + 1) /\ a <= Len(s)
  BY <1>2, <1>5, <1>9, <1>10 DEF d
<1>14. /\ d + Len(x) \in d..(Len(s) + 1)
       /\ \A j \in 1..Len(x) : s[d + j - 1] = x[j]
  BY <1>2, <1>10, <1>13, GoesOn
<1> HIDE DEF e
<1>15. SubSeq(s, d, e - 1) = x
  <2>1. e = d + Len(x) /\ e <= Len(s) + 1 /\ d >= 1 /\ d \in Int
    BY <1>13, <1>14 DEF e
  <2>2. /\ SubSeq(s, d, e - 1) \in Seq(Nat) /\ Len(SubSeq(s, d, e - 1)) = Len(x)
        /\ \A j \in 1..Len(x) : SubSeq(s, d, e - 1)[j] = s[d + j - 1]
    <3>1. e - 1 \in Int /\ e - 1 <= Len(s) /\ (e - 1) - d + 1 = Len(x)
      BY <1>2, <2>1
    <3>2. IsPart(s, d, e - 1, SubSeq(s, d, e - 1))
      BY <1>2, <2>1, <3>1, PartIs
    <3> QED
      BY <1>2, <2>1, <3>1, <3>2 DEF IsPart
  <2> QED
    BY <1>2, <1>14, <2>2, Same
<1>16. OneMore(s, i, g, SubSeq(s, m.next, (m.next + m.n) - 1), m.next + m.n)
  <2>1. m = Wasm!Number(s, i + g) /\ i + g <= Len(s)
    BY <1>13 DEF m, a
  <2>2. m.next + m.n <= Len(s) + 1
    BY <1>2, <1>11, <1>13, <1>14
  <2> QED
    BY <2>1, <2>2, FramedOn
<1>17. m.next = d /\ m.next + m.n = e
  BY <1>11 DEF e
<1> QED
  BY <1>3, <1>12, <1>15, <1>16, <1>17, Zenon

\* Items, and sequences that hold one each.
AreItems(seqs, items, g) ==
  /\ seqs \in Seq(Seq(Nat)) /\ items \in Seq(Seq(Nat)) /\ Len(seqs) = Len(items)
  /\ \A j \in 1..Len(items) : IsItem(seqs[j], items[j], g)

\* Items one after the other up to the end are all read.
LEMMA ItemsRead ==
  ASSUME NEW s \in Seq(Nat), NEW g \in Nat, NEW items, NEW seqs, AreItems(seqs, items, g),
         NEW start \in 1..(Len(s) + 1), SubSeq(s, start, Len(s)) = FlattenSeq(seqs)
  PROVE  Wasm!Framed(s, start, g) = items
<1> DEFINE L == Len(s)
           n == Len(items)
           Left(q, j) == SubSeq(q, j, n)
           T == {j \in 0..(n + 1) : j # 0 =>
                   \A i \in 1..(L + 1) : SubSeq(s, i, L) = FlattenSeq(Left(seqs, j)) =>
                     Wasm!Framed(s, i, g) = Left(items, j)}
<1>0. /\ seqs \in Seq(Seq(Nat)) /\ items \in Seq(Seq(Nat)) /\ Len(seqs) = n
      /\ \A j \in 1..n : IsItem(seqs[j], items[j], g)
  BY DEF AreItems
<1>1. L \in Nat /\ n \in Nat /\ n + 1 \in Nat
  BY <1>0
<1>2. \A q \in Seq(Seq(Nat)) : Len(q) = n =>
        /\ Left(q, 1) = q /\ Left(q, n + 1) = <<>>
        /\ \A j \in 1..(n + 1) : Left(q, j) \in Seq(Seq(Nat))
        /\ \A j \in 1..n : Left(q, j) = <<q[j]>> \o Left(q, j + 1)
  <2> SUFFICES ASSUME NEW q \in Seq(Seq(Nat)), Len(q) = n
               PROVE  /\ Left(q, 1) = q /\ Left(q, n + 1) = <<>>
                      /\ \A j \in 1..(n + 1) : Left(q, j) \in Seq(Seq(Nat))
                      /\ \A j \in 1..n : Left(q, j) = <<q[j]>> \o Left(q, j + 1)
    OBVIOUS
  <2>1. Left(q, 1) = q /\ Left(q, n + 1) = <<>> /\ \A j \in 1..(n + 1) : Left(q, j) \in Seq(Seq(Nat))
    OBVIOUS
  <2>2. ASSUME NEW j \in 1..n PROVE Left(q, j) = <<q[j]>> \o Left(q, j + 1)
    <3>1. SubSeq(q, j, j) = <<q[j]>>
      BY SingleIs
    <3> DEFINE d == j + 1
    <3>2. j \in 1..(n + 1) /\ d \in j..(n + 1) /\ d - 1 = j /\ n \in 0..Len(q)
      BY <1>1
    <3> HIDE DEF d
    <3>3. IsJoined(SubSeq(q, j, n), SubSeq(q, j, d - 1), SubSeq(q, d, n))
      BY <3>2, Cut
    <3> QED
      BY <3>1, <3>2, <3>3, Zenon DEF IsJoined, d
  <2> QED
    BY <2>1, <2>2
<1> HIDE DEF Left
<1>3. \A j \in 0..(n + 1) : (\A h \in 0..(n + 1) : h > j => h \in T) => j \in T
  <2> SUFFICES ASSUME NEW j \in 0..(n + 1), \A h \in 0..(n + 1) : h > j => h \in T, j # 0,
                      NEW i \in 1..(L + 1), SubSeq(s, i, L) = FlattenSeq(Left(seqs, j))
               PROVE  Wasm!Framed(s, i, g) = Left(items, j)
    OBVIOUS
  <2>1. j \in 1..(n + 1) /\ \A h \in 1..(n + 1) : h > j =>
          \A a \in 1..(L + 1) : SubSeq(s, a, L) = FlattenSeq(Left(seqs, h)) =>
            Wasm!Framed(s, a, g) = Left(items, h)
    <3>1. j \in 1..(n + 1)
      BY <1>1
    <3>2. ASSUME NEW h \in 1..(n + 1), h > j
          PROVE  \A a \in 1..(L + 1) : SubSeq(s, a, L) = FlattenSeq(Left(seqs, h)) =>
                   Wasm!Framed(s, a, g) = Left(items, h)
      <4>1. h \in 0..(n + 1) /\ h # 0
        BY <1>1
      <4>2. h \in T
        BY <3>2, <4>1
      <4> QED
        BY <4>1, <4>2
    <3> QED
      BY <3>1, <3>2
  <2> HIDE DEF T
  <2>2. CASE j = n + 1
    <3>1. Left(items, j) = <<>> /\ Left(seqs, j) = <<>>
      BY <1>0, <1>2, <2>2
    <3>2. SubSeq(s, i, L) = <<>>
      BY <3>1, FlattenEmpty
    <3>3. Len(SubSeq(s, i, L)) = L + 1 - i
      BY RestIs
    <3>4. i = Len(s) + 1
      <4>1. L + 1 - i = 0
        BY <3>2, <3>3
      <4> HIDE DEF L
      <4>2. i = L + 1
        BY <1>1, <4>1
      <4> QED
        BY <4>2 DEF L
    <3> QED
      BY <3>1, <3>4, FramedNone
  <2>3. CASE j # n + 1
    <3> DEFINE d == j + 1
               y == seqs[j]
               x == items[j]
               r == FlattenSeq(Left(seqs, d))
               e == i + Len(y)
    <3>1. j \in 1..n /\ d \in 1..(n + 1) /\ d > j
      <4>1. j \in 1..(n + 1)
        BY <2>1
      <4> HIDE DEF n
      <4> QED
        BY <1>1, <2>3, <4>1
    <3>2. /\ Left(items, j) = <<x>> \o Left(items, d)
          /\ Left(seqs, j) = <<y>> \o Left(seqs, d) /\ Left(seqs, d) \in Seq(Seq(Nat))
      BY <1>0, <1>2, <3>1
    <3>3. IsItem(y, x, g)
      BY <1>0, <3>1
    <3> HIDE DEF d, y, x
    <3>4. y \in Seq(Nat) /\ Len(y) \in Nat
      BY <3>3, ItemTyped
    <3>5. FlattenSeq(<<y>> \o Left(seqs, d)) = y \o r
      BY <3>2, <3>4, FlattenHead
    <3>6. Continues(s, i, y, r)
      BY <3>2, <3>5, Zenon DEF Continues
    <3>7. r \in Seq(Nat)
      BY <3>2, FlattenType
    <3> HIDE DEF r
    <3>8. /\ OneMore(s, i, g, x, e) /\ e \in i..(L + 1) /\ SubSeq(s, e, L) = r
      BY <3>3, <3>6, <3>7, ItemRead
    <3> HIDE DEF e
    <3>9. e \in 1..(L + 1)
      <4> HIDE DEF L
      <4> QED
        BY <1>1, <3>8
    <3>10. Wasm!Framed(s, e, g) = Left(items, d)
      BY <2>1, <3>1, <3>8, <3>9 DEF r
    <3> QED
      BY <3>2, <3>8, <3>10, Zenon DEF OneMore
  <2> QED
    BY <2>2, <2>3
<1> HIDE DEF T
<1>4. \A j \in 0..(n + 1) : j \in T
  BY <1>1, <1>3, DownSet
<1>5. Left(seqs, 1) = seqs /\ Left(items, 1) = items
  BY <1>0, <1>2
<1>6. 1 \in T
  BY <1>1, <1>4
<1> QED
  BY <1>5, <1>6 DEF T

LEMMA WasmFlatten == ASSUME NEW q PROVE Wasm!FlattenSeq(q) = FlattenSeq(q)
BY DEF Wasm!FlattenSeq, FlattenSeq

\* Functions on 1..n are sequences; short sequences joined.
LEMMA OnRange ==
  ASSUME NEW S, NEW n \in Nat, NEW f \in [1..n -> S]
  PROVE  f \in Seq(S) /\ Len(f) = n
OBVIOUS

LEMMA OneAndTwo ==
  ASSUME NEW x, NEW y, NEW z
  PROVE  IsJoined(<<x, y>>, <<x>>, <<y>>) /\ IsJoined(<<x, y, z>>, <<x>>, <<y, z>>)
<1> DEFINE S == {x, y, z}
           s2 == <<x>> \o <<y>>
           s3 == <<x>> \o <<y, z>>
<1>1. s2 \in Seq(S) /\ Len(s2) = 2 /\ s2[1] = x /\ s2[2] = y
  OBVIOUS
<1>2. s3 \in Seq(S) /\ Len(s3) = 3 /\ s3[1] = x /\ s3[2] = y /\ s3[3] = z
  OBVIOUS
<1>3. /\ <<x, y>> \in Seq(S) /\ Len(<<x, y>>) = 2
      /\ <<x, y, z>> \in Seq(S) /\ Len(<<x, y, z>>) = 3
  OBVIOUS
<1> HIDE DEF s2, s3
<1>4. \A i \in 1..2 : s2[i] = <<x, y>>[i]
  BY <1>1
<1>5. \A i \in 1..3 : s3[i] = <<x, y, z>>[i]
  BY <1>2
<1> HIDE DEF S
<1>6. s2 = <<x, y>>
  BY <1>1, <1>3, <1>4, SeqEqual
<1>7. s3 = <<x, y, z>>
  BY <1>2, <1>3, <1>5, SeqEqual
<1> QED
  BY <1>6, <1>7, Zenon DEF IsJoined, s2, s3

\* The count of a vector, and its elements.
LEMMA VecIs ==
  ASSUME NEW q \in Seq(Seq(Nat))
  PROVE  /\ IsJoined(Wasm!Vec(q), Wasm!Leb(Len(q)), FlattenSeq(q))
         /\ IsNumber(Wasm!Leb(Len(q)), Len(q))
         /\ FlattenSeq(q) \in Seq(Nat) /\ Wasm!Vec(q) \in Seq(Nat)
<1>1. IsJoined(Wasm!Vec(q), Wasm!Leb(Len(q)), FlattenSeq(q))
  BY WasmFlatten, Zenon DEF Wasm!Vec, IsJoined
<1>2. IsNumber(Wasm!Leb(Len(q)), Len(q)) /\ Len(q) \in Nat
  BY LebIs
<1>3. FlattenSeq(q) \in Seq(Nat)
  BY FlattenType
<1> DEFINE l == Wasm!Leb(Len(q))
           w == FlattenSeq(q)
<1>4. l \in Seq(Nat) /\ w \in Seq(Nat)
  BY <1>2, <1>3 DEF IsNumber
<1>5. l \o w \in Seq(Nat)
  <2> HIDE DEF l, w
  <2> QED
    BY <1>4
<1>6. Wasm!Vec(q) = l \o w
  BY <1>1, Zenon DEF IsJoined
<1> HIDE DEF l, w
<1>7. Wasm!Vec(q) \in Seq(Nat)
  BY <1>5, <1>6, Zenon
<1> QED
  BY <1>1, <1>2, <1>3, <1>7

\* A section is its body, tagged with its number.
LEMMA SecIs ==
  ASSUME NEW id \in Nat, NEW x \in Seq(Nat)
  PROVE  /\ IsItem(Wasm!Sec(id, x), x, 1)
         /\ Wasm!Sec(id, x) \in Seq(Nat) /\ Len(Wasm!Sec(id, x)) >= 2
<1> DEFINE tag == <<id>>
           l == Wasm!Leb(Len(x))
           y == Wasm!Sec(id, x)
           w == l \o x
<1>1. tag \in Seq(Nat) /\ Len(tag) = 1 /\ Len(x) \in Nat
  OBVIOUS
<1>2. l \in Seq(Nat) /\ Len(l) >= 1
  BY <1>1, LebIs DEF IsNumber
<1>3. y = (tag \o l) \o x
  BY Zenon DEF Wasm!Sec
<1> HIDE DEF tag, l, y
<1>4. Regroups(tag, l, x)
  BY <1>1, <1>2, Associative
<1>5. y = tag \o (l \o x)
  BY <1>3, <1>4, Zenon DEF Regroups
<1>6. IsItem(y, x, 1)
  BY <1>1, <1>5, Zenon DEF IsItem, l
<1>7. w \in Seq(Nat) /\ Len(w) >= 1
  BY <1>2
<1>8. y = tag \o w
  BY <1>5
<1> HIDE DEF w
<1>9. y \in Seq(Nat) /\ Len(y) >= 2
  BY <1>1, <1>7, <1>8
<1> QED
  BY <1>6, <1>9 DEF y

LEMMA TypeFnTyped ==
  ASSUME NEW p \in Seq(Nat), NEW q \in Seq(Nat)
  PROVE  Wasm!TypeFn(p, q) \in Seq(Nat)
<1> DEFINE Ones(s) == [j \in DOMAIN s |-> <<s[j]>>]
           v == Wasm!Vec(Ones(p))
           w == Wasm!Vec(Ones(q))
<1>1. ASSUME NEW s \in Seq(Nat) PROVE Ones(s) \in Seq(Seq(Nat))
  <2> DEFINE n == Len(s)
  <2>1. DOMAIN s = 1..n /\ n \in Nat
    OBVIOUS
  <2>2. \A j \in 1..n : <<s[j]>> \in Seq(Nat)
    OBVIOUS
  <2> HIDE DEF n
  <2>3. Ones(s) \in [1..n -> Seq(Nat)]
    BY <2>1, <2>2
  <2> HIDE DEF Ones
  <2> QED
    BY <2>1, <2>3, OnRange
<1>2. v \in Seq(Nat) /\ w \in Seq(Nat)
  <2> HIDE DEF Ones
  <2> QED
    BY <1>1, VecIs
<1>3. Wasm!TypeFn(p, q) = (<<96>> \o v) \o w
  BY Zenon DEF Wasm!TypeFn
<1> HIDE DEF v, w
<1>4. (<<96>> \o v) \o w \in Seq(Nat)
  BY <1>2
<1> QED
  BY <1>3, <1>4, Zenon

\* A function: one local variable, and its body.
Function(n) == <<1, 1, 127>> \o Wasm!Expr(n)

LEMMA CodeIs ==
  ASSUME NEW n \in Nat
  PROVE  IsItem(Wasm!Code(<<1>>, Wasm!Expr(n)), Function(n), 0)
<1> DEFINE one == <<1>>
           q == [j \in DOMAIN one |-> Wasm!Leb(one[j]) \o <<127>>]
           x == Wasm!Vec(q) \o Wasm!Expr(n)
           w == Wasm!Leb(Len(x)) \o x
<1>1. q = <<<<1, 127>>>>
  <2>1. <<1>> \o <<127>> = <<1, 127>>
    BY OneAndTwo, Zenon DEF IsJoined
  <2>2. DOMAIN one = 1..1 /\ one[1] = 1
    OBVIOUS
  <2> HIDE DEF one
  <2>3. \A j \in DOMAIN one : Wasm!Leb(one[j]) \o <<127>> = <<1, 127>>
    <3>1. Wasm!Leb(1) \o <<127>> = <<1, 127>>
      BY <2>1, LebOne, Zenon
    <3> QED
      BY <2>2, <3>1
  <2>4. q = [j \in 1..1 |-> <<1, 127>>]
    BY <2>2, <2>3
  <2> HIDE DEF q
  <2> QED
    BY <2>4
<1> HIDE DEF q
<1>2. Wasm!Vec(q) = <<1, 1, 127>>
  <2> DEFINE v == <<1, 127>>
  <2>1. v \in Seq(Nat) /\ <<>> \in Seq(Seq(Nat)) /\ <<v>> \o <<>> = <<v>> /\ v \o <<>> = v
    OBVIOUS
  <2>2. q = <<v>> /\ q \in Seq(Seq(Nat)) /\ Len(q) = 1
    BY <1>1
  <2> HIDE DEF v
  <2>3. FlattenSeq(<<v>> \o <<>>) = v \o FlattenSeq(<<>>)
    BY <2>1, FlattenHead
  <2>4. FlattenSeq(q) = v
    BY <2>1, <2>2, <2>3, FlattenEmpty, Zenon
  <2>5. Wasm!Vec(q) = Wasm!Leb(Len(q)) \o FlattenSeq(q)
    BY <2>2, VecIs, Zenon DEF IsJoined
  <2>6. Wasm!Vec(q) = <<1>> \o v
    BY <2>2, <2>4, <2>5, LebOne, Zenon
  <2>7. <<1>> \o v = <<1, 1, 127>>
    <3>1. IsJoined(<<1, 1, 127>>, <<1>>, <<1, 127>>)
      BY OneAndTwo
    <3> QED
      BY <3>1, Zenon DEF IsJoined, v
  <2> QED
    BY <2>6, <2>7, Zenon
<1>3. x = Function(n)
  BY <1>2, Zenon DEF Function
<1>4. Wasm!Code(<<1>>, Wasm!Expr(n)) = w
  BY Zenon DEF Wasm!Code, Wasm!I32, q
<1>5. x \in Seq(Nat)
  <2>1. [j \in 1..n |-> 1] \in Seq(Nat) /\ <<11>> \in Seq(Nat) /\ <<1, 1, 127>> \in Seq(Nat)
    OBVIOUS
  <2> DEFINE a == [j \in 1..n |-> 1]
             e == a \o <<11>>
  <2>2. e \in Seq(Nat)
    <3> HIDE DEF a
    <3> QED
      BY <2>1 DEF a
  <2>3. Wasm!Expr(n) = e
    BY Zenon DEF Wasm!Expr
  <2> HIDE DEF e
  <2>4. <<1, 1, 127>> \o e \in Seq(Nat)
    BY <2>2
  <2> QED
    BY <1>3, <2>3, <2>4, Zenon DEF Function
<1> HIDE DEF x
<1>6. w \in Seq(Nat)
  <2>1. Wasm!Leb(Len(x)) \in Seq(Nat)
    BY <1>5, LebIs DEF IsNumber
  <2> QED
    BY <1>5, <2>1
<1>7. w = <<>> \o (Wasm!Leb(Len(x)) \o x)
  BY <1>6
<1>8. IsItem(w, x, 0)
  <2>1. <<>> \in Seq(Nat) /\ Len(<<>>) = 0
    OBVIOUS
  <2> HIDE DEF w
  <2> QED
    BY <1>5, <1>7, <2>1, Zenon DEF IsItem
<1> QED
  BY <1>3, <1>4, <1>8, Zenon

\* The functions of the code section.
Codes == [j \in DOMAIN bodies |-> Wasm!Code(<<1>>, Wasm!Expr(bodies[j]))]
Functions == [j \in DOMAIN bodies |-> Function(bodies[j])]

LEMMA CodesAre ==
  ASSUME bodies \in Seq(Nat)
  PROVE  AreItems(Codes, Functions, 0) /\ Codes \in Seq(Seq(Nat)) /\ Len(Codes) = Len(bodies)
<1>1. ASSUME NEW j \in 1..Len(bodies)
      PROVE  /\ IsItem(Codes[j], Functions[j], 0)
             /\ Codes[j] \in Seq(Nat) /\ Functions[j] \in Seq(Nat)
  <2>1. IsItem(Wasm!Code(<<1>>, Wasm!Expr(bodies[j])), Function(bodies[j]), 0)
    <3>1. bodies[j] \in Nat
      OBVIOUS
    <3> QED
      BY <3>1, CodeIs
  <2>2. Codes[j] = Wasm!Code(<<1>>, Wasm!Expr(bodies[j])) /\ Functions[j] = Function(bodies[j])
    BY DEF Codes, Functions
  <2>3. IsItem(Codes[j], Functions[j], 0)
    BY <2>1, <2>2, Zenon
  <2>4. Codes[j] \in Seq(Nat)
    BY <2>3, ItemTyped
  <2>5. Functions[j] \in Seq(Nat)
    BY <2>3, Zenon DEF IsItem
  <2> QED
    BY <2>3, <2>4, <2>5
<1> DEFINE n == Len(bodies)
<1>2. DOMAIN bodies = 1..n /\ n \in Nat
  OBVIOUS
<1> HIDE DEF n
<1>3. /\ Codes = [j \in 1..n |-> Codes[j]] /\ Functions = [j \in 1..n |-> Functions[j]]
      /\ \A j \in 1..n : Codes[j] \in Seq(Nat) /\ Functions[j] \in Seq(Nat)
  <2>1. Codes = [j \in 1..n |-> Codes[j]] /\ Functions = [j \in 1..n |-> Functions[j]]
    BY <1>2 DEF Codes, Functions
  <2> QED
    BY <1>1, <2>1 DEF n
<1>4. Codes \in [1..n -> Seq(Nat)] /\ Functions \in [1..n -> Seq(Nat)]
  <2> DEFINE c == Codes
             f == Functions
  <2>1. /\ c = [j \in 1..n |-> c[j]] /\ f = [j \in 1..n |-> f[j]]
        /\ \A j \in 1..n : c[j] \in Seq(Nat) /\ f[j] \in Seq(Nat)
    BY <1>3
  <2> HIDE DEF c, f
  <2>2. c \in [1..n -> Seq(Nat)] /\ f \in [1..n -> Seq(Nat)]
    BY <2>1
  <2> QED
    BY <2>2 DEF c, f
<1>5. /\ Codes \in Seq(Seq(Nat)) /\ Functions \in Seq(Seq(Nat))
      /\ Len(Codes) = n /\ Len(Functions) = n
  BY <1>2, <1>4, OnRange
<1> QED
  BY <1>1, <1>5 DEF AreItems, n

\* The three sections that are looked at.
LEMMA PartsAre ==
  ASSUME bodies \in Seq(Nat)
  PROVE  \E x \in Seq(Nat), y \in Seq(Nat) :
           Wasm!Parts = <<Wasm!Sec(1, x), Wasm!Sec(3, y), Wasm!Sec(10, Wasm!Vec(Codes))>>
<1> DEFINE halves == [j \in DOMAIN bodies |-> <<j % 2>>]
           x == Wasm!Vec(Wasm!Types)
           y == Wasm!Vec(halves)
<1>1. Wasm!Types \in Seq(Seq(Nat))
  <2> DEFINE f == Wasm!TypeFn(<<>>, <<127>>)
             g == Wasm!TypeFn(<<127, 127>>, <<127>>)
  <2>1. <<>> \in Seq(Nat) /\ <<127>> \in Seq(Nat) /\ <<127, 127>> \in Seq(Nat)
    OBVIOUS
  <2>2. f \in Seq(Nat) /\ g \in Seq(Nat)
    BY <2>1, TypeFnTyped
  <2>3. Wasm!Types = <<f, g>>
    BY Zenon DEF Wasm!Types, Wasm!I32
  <2> HIDE DEF f, g
  <2> QED
    BY <2>2, <2>3
<1>2. halves \in Seq(Seq(Nat))
  <2>1. DOMAIN bodies = 1..Len(bodies) /\ Len(bodies) \in Nat
    OBVIOUS
  <2>2. \A j \in 1..Len(bodies) : <<j % 2>> \in Seq(Nat)
    OBVIOUS
  <2> QED
    BY <2>1, <2>2
<1> HIDE DEF halves
<1>3. x \in Seq(Nat) /\ y \in Seq(Nat)
  BY <1>1, <1>2, VecIs
<1>4. Wasm!Parts = <<Wasm!Sec(1, x), Wasm!Sec(3, y), Wasm!Sec(10, Wasm!Vec(Codes))>>
  BY Zenon DEF Wasm!Parts, halves, Codes
<1> HIDE DEF x, y
<1> QED
  BY <1>3, <1>4

\* What Sections finds in the module, whatever functions it is given.
LEMMA SectionsAre ==
  ASSUME bodies \in Seq(Nat)
  PROVE  \E x, y : Wasm!Sections(Wasm!Header \o Wasm!FlattenSeq(Wasm!Parts))
                     = <<x, y, Wasm!Vec(Codes)>>
<1> DEFINE h == Wasm!Header
           seqs == Wasm!Parts
           w == FlattenSeq(seqs)
           s == h \o w
           z == Wasm!Vec(Codes)
<1>1. PICK x \in Seq(Nat), y \in Seq(Nat) :
        seqs = <<Wasm!Sec(1, x), Wasm!Sec(3, y), Wasm!Sec(10, z)>>
  BY PartsAre
<1> DEFINE items == <<x, y, z>>
<1>2. z \in Seq(Nat)
  BY CodesAre, VecIs
<1> HIDE DEF z, seqs
<1>3. /\ IsItem(Wasm!Sec(1, x), x, 1) /\ Wasm!Sec(1, x) \in Seq(Nat)
      /\ IsItem(Wasm!Sec(3, y), y, 1) /\ Wasm!Sec(3, y) \in Seq(Nat)
      /\ IsItem(Wasm!Sec(10, z), z, 1) /\ Wasm!Sec(10, z) \in Seq(Nat)
  BY <1>2, SecIs
<1>4. seqs \in Seq(Seq(Nat)) /\ Len(seqs) = 3 /\ items \in Seq(Seq(Nat)) /\ Len(items) = 3
  BY <1>1, <1>2, <1>3
<1>5. \A j \in 1..Len(items) : IsItem(seqs[j], items[j], 1)
  <2>1. /\ seqs[1] = Wasm!Sec(1, x) /\ seqs[2] = Wasm!Sec(3, y) /\ seqs[3] = Wasm!Sec(10, z)
        /\ items[1] = x /\ items[2] = y /\ items[3] = z
    BY <1>1
  <2>2. \A j \in 1..Len(items) : j = 1 \/ j = 2 \/ j = 3
    BY <1>4
  <2> HIDE DEF items
  <2> QED
    BY <1>3, <2>1, <2>2
<1> HIDE DEF items
<1>6. w \in Seq(Nat)
  BY <1>4, FlattenType
<1>7. h \in Seq(Nat) /\ Len(h) = 8
  BY DEF Wasm!Header
<1> HIDE DEF h, w
<1>8. s \in Seq(Nat) /\ 1 \in 1..(Len(s) + 1) /\ SubSeq(s, 1, Len(s)) = s
  BY <1>6, <1>7
<1>9. Continues(s, 1, h, w)
  BY <1>8, Zenon DEF Continues
<1> HIDE DEF s
<1>10. 9 \in 1..(Len(s) + 1) /\ SubSeq(s, 9, Len(s)) = w
  <2>1. 1 + Len(h) \in 1..(Len(s) + 1) /\ SubSeq(s, 1 + Len(h), Len(s)) = w
    BY <1>6, <1>7, <1>8, <1>9, GoesOn
  <2> QED
    BY <1>7, <2>1
<1>11. Wasm!Framed(s, 9, 1) = items
  <2>1. AreItems(seqs, items, 1)
    BY <1>4, <1>5 DEF AreItems
  <2>2. SubSeq(s, 9, Len(s)) = FlattenSeq(seqs)
    BY <1>10 DEF w
  <2>3. s \in Seq(Nat) /\ 9 \in 1..(Len(s) + 1)
    BY <1>8, <1>10
  <2> DEFINE start == 9
  <2> HIDE DEF start
  <2>4. Wasm!Framed(s, start, 1) = items
    BY <2>1, <2>2, <2>3, ItemsRead DEF start
  <2> QED
    BY <2>4 DEF start
<1>12. Wasm!Sections(s) = Wasm!Framed(s, 9, 1)
  BY <1>7 DEF Wasm!Sections, h
<1>13. Wasm!Header \o Wasm!FlattenSeq(Wasm!Parts) = s
  BY WasmFlatten, Zenon DEF s, h, w, seqs
<1> QED
  BY <1>11, <1>12, <1>13, Zenon DEF items, z

\* The code section, read from its count on.
LEMMA CodeReadBack ==
  ASSUME bodies \in Seq(Nat)
  PROVE  LET z == Wasm!Vec(Codes) IN
         /\ Wasm!Number(z, 1).n = Len(bodies)
         /\ Wasm!Framed(z, Wasm!Number(z, 1).next, 0) = Functions
<1> DEFINE z == Wasm!Vec(Codes)
           l == Wasm!Leb(Len(Codes))
           w == FlattenSeq(Codes)
           a == 1 + Len(l)
<1>1. AreItems(Codes, Functions, 0) /\ Codes \in Seq(Seq(Nat)) /\ Len(Codes) = Len(bodies)
  BY CodesAre
<1>2. /\ IsJoined(z, l, w) /\ IsNumber(l, Len(Codes))
      /\ w \in Seq(Nat) /\ z \in Seq(Nat)
  BY <1>1, VecIs
<1> HIDE DEF z, l, w
<1>3. l \in Seq(Nat)
  BY <1>2 DEF IsNumber
<1>4. 1 \in 1..(Len(z) + 1) /\ SubSeq(z, 1, Len(z)) = z
  BY <1>2
<1>5. Continues(z, 1, l, w)
  BY <1>2, <1>4, Zenon DEF Continues, IsJoined
<1>6. Wasm!Number(z, 1) = [n |-> Len(Codes), next |-> a]
  BY <1>2, <1>4, <1>5 DEF IsNumber
<1>7. a \in 1..(Len(z) + 1) /\ SubSeq(z, a, Len(z)) = w
  BY <1>2, <1>3, <1>4, <1>5, GoesOn
<1> HIDE DEF a
<1>8. Wasm!Framed(z, a, 0) = Functions
  <2>1. SubSeq(z, a, Len(z)) = FlattenSeq(Codes)
    BY <1>7 DEF w
  <2> QED
    BY <1>1, <1>2, <1>7, <2>1, ItemsRead
<1>9. Wasm!Number(z, 1).n = Len(bodies) /\ Wasm!Number(z, 1).next = a
  BY <1>1, <1>6
<1> QED
  BY <1>8, <1>9, Zenon DEF z

LEMMA ReadBack ==
  ASSUME bodies \in Seq(Nat)
  PROVE  Wasm!PartsReadBack
<1> DEFINE s == Wasm!Sections(Wasm!Header \o Wasm!FlattenSeq(Wasm!Parts))
           z == Wasm!Vec(Codes)
<1>1. PICK x, y : s = <<x, y, z>>
  BY SectionsAre
<1>2. Len(Wasm!Parts) = 3
  BY PartsAre
<1>3. /\ Wasm!Number(z, 1).n = Len(bodies)
      /\ Wasm!Framed(z, Wasm!Number(z, 1).next, 0) = Functions
  BY CodeReadBack
<1> HIDE DEF s, z
<1>4. Len(s) = Len(Wasm!Parts) /\ s[3] = z
  BY <1>1, <1>2
<1>5. Functions = [j \in DOMAIN bodies |-> <<1, 1, Wasm!I32>> \o Wasm!Expr(bodies[j])]
  BY Zenon DEF Functions, Function, Wasm!I32
<1> QED
  BY <1>3, <1>4, <1>5, Zenon DEF Wasm!PartsReadBack, s

\* build() lists its sections where their bytes should be, so that an empty
\* custom section follows the header.
LEMMA NeverValid ==
  ASSUME bodies \in Seq(Nat)
  PROVE  ~ Wasm!Valid(Wasm!Build)
<1> DEFINE z == Wasm!Vec(Codes)
           h == Wasm!Header
           tail == [j \in DOMAIN Wasm!Parts |-> Wasm!AsByte(Wasm!Parts[j])]
           s == h \o tail
<1>1. PICK x \in Seq(Nat), y \in Seq(Nat) :
        Wasm!Parts = <<Wasm!Sec(1, x), Wasm!Sec(3, y), Wasm!Sec(10, z)>>
  BY PartsAre
<1>2. z \in Seq(Nat)
  BY CodesAre, VecIs
<1> HIDE DEF z
<1>3. ASSUME NEW v \in Seq(Nat), Len(v) >= 2 PROVE Wasm!AsByte(v) = 0
  <2>1. Len(v) # 1
    <3> DEFINE n == Len(v)
    <3>1. n \in Nat /\ n >= 2
      BY <1>3
    <3> HIDE DEF n
    <3>2. n # 1
      BY <3>1
    <3> QED
      BY <3>2 DEF n
  <2> QED
    BY <2>1, SMT DEF Wasm!AsByte
<1>4. /\ Wasm!AsByte(Wasm!Sec(1, x)) = 0 /\ Wasm!AsByte(Wasm!Sec(3, y)) = 0
      /\ Wasm!AsByte(Wasm!Sec(10, z)) = 0
  <2>1. \A id \in {1, 3, 10} : \A v \in Seq(Nat) :
          Wasm!Sec(id, v) \in Seq(Nat) /\ Len(Wasm!Sec(id, v)) >= 2
    BY SecIs
  <2> QED
    BY <1>2, <1>3, <2>1
<1>5. tail = [j \in 1..3 |-> 0]
  <2>1. /\ DOMAIN Wasm!Parts = 1..3 /\ Wasm!Parts[1] = Wasm!Sec(1, x)
        /\ Wasm!Parts[2] = Wasm!Sec(3, y) /\ Wasm!Parts[3] = Wasm!Sec(10, z)
    BY <1>1
  <2>2. \A j \in 1..3 : j = 1 \/ j = 2 \/ j = 3
    OBVIOUS
  <2>3. \A j \in 1..3 : Wasm!AsByte(Wasm!Parts[j]) = 0
    BY <1>4, <2>1, <2>2
  <2> QED
    BY <2>1, <2>3
<1> HIDE DEF tail
<1>6. tail \in Seq(Nat) /\ Len(tail) = 3 /\ tail[1] = 0 /\ tail[2] = 0
  BY <1>5
<1>7. h \in Seq(Nat) /\ Len(h) = 8
  BY DEF Wasm!Header
<1> HIDE DEF h
<1>8. Len(s) >= 10 /\ s[9] = 0 /\ s[10] = 0
  <2>1. /\ Len(s) = Len(h) + Len(tail)
        /\ \A j \in 1..Len(tail) : s[Len(h) + j] = tail[j]
    BY <1>6, <1>7, Joined
  <2> HIDE DEF s
  <2>2. 1 \in 1..Len(tail) /\ 2 \in 1..Len(tail)
    BY <1>6
  <2>3. s[Len(h) + 1] = 0 /\ s[Len(h) + 2] = 0
    BY <1>6, <2>1, <2>2
  <2>4. Len(h) + 1 = 9 /\ Len(h) + 2 = 10 /\ Len(h) + Len(tail) = 11
    BY <1>6, <1>7
  <2>5. s[9] = 0 /\ s[10] = 0
    BY <2>3, <2>4
  <2>6. Len(s) >= 10
    BY <2>1, <2>4
  <2> QED
    BY <2>5, <2>6
<1>9. Wasm!Build = s
  BY Zenon DEF Wasm!Build, s, h, tail
<1> HIDE DEF s
<1> QED
  BY <1>8, <1>9 DEF Wasm!Valid

\* Functions are added one at a time, and the core never starts.
WasmHeld == part = "wasm" => bodies \in Seq(Nat) /\ core \in {"starting", "null"}

LEMMA InitWasm == Init => WasmHeld
BY DEF Init, WasmHeld, Wasm!Init

LEMMA StepWasm == WasmHeld /\ [Next]_all => WasmHeld'
<1> SUFFICES ASSUME WasmHeld, [Next]_all PROVE WasmHeld'
  OBVIOUS
<1>1. CASE part = "wasm" /\ Wasm!Grow /\ UNCHANGED part
  BY <1>1, SizesAssumption DEF WasmHeld, Wasm!Grow
<1>2. CASE part = "wasm" /\ Wasm!Instantiate /\ UNCHANGED part
  <2>1. ~ Wasm!Valid(Wasm!Build)
    BY <1>2, NeverValid DEF WasmHeld
  <2> QED
    BY <1>2, <2>1 DEF WasmHeld, Wasm!Instantiate
<1>3. CASE part' = part /\ part # "wasm"
  BY <1>3 DEF WasmHeld
<1>4. CASE UNCHANGED all
  BY <1>4 DEF WasmHeld, all, wasm
<1> QED
  BY <1>1, <1>2, <1>3, <1>4 DEF Next, Wasm!Next

\* Whatever functions build() is given, of whatever size, what vec, sec and code
\* write is read back by the format's rules; but init() never comes to an interface.
THEOREM PartsAlwaysReadBack == Spec => []PartsReadBack
<1>1. WasmHeld => PartsReadBack
  BY ReadBack DEF WasmHeld, PartsReadBack, Wasm!CoreStaysOff
<1>2. Spec => Init /\ [][Next]_all
  BY PTL DEF Spec
<1> QED
  BY <1>1, <1>2, InitWasm, StepWasm, PTL

=============================================================================
