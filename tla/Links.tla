-------------------------------- MODULE Links --------------------------------
(***************************************************************************)
(* Proxied links as text: how an address becomes /wisp/<base64url> and is  *)
(* read back (sw.js, proxy.ts), and how absolute addresses are found in a  *)
(* page's text: by the expression of the JavaScript path and the scan of   *)
(* the WASM path (sw.js).                                                  *)
(*                                                                         *)
(* A text is a sequence of units.  "https" stands for "https://" or        *)
(* "http://" (one unit, so that nl is 1), "c" for an ordinary character,   *)
(* "wide" for one that takes two bytes in UTF-8, "quote" for a character   *)
(* at which both paths end an address, "vt" for white space that only \s   *)
(* knows, "paren" for a closing parenthesis.  Addresses that skipUrl leaves *)
(* alone (name spaces, the local host) do not occur.                       *)
(***************************************************************************)
EXTENDS Integers, Sequences, SequencesExt, FiniteSetsExt, Selection

CONSTANTS CodePoints,  \* characters of the addresses that are encoded: any
                       \* but lone surrogates
          MaxName,     \* bound: length of such an address
          Units,       \* the units texts are made of
          MaxText      \* bound: length of a text

VARIABLES name,  \* an address, character by character
          text   \* a page's text

vars == <<name, text>>

-----------------------------------------------------------------------------
\* base64url.  A digit of btoa is 0..63, where 62 is "+" and 63 is "/"; the
\* link has "-" and "_" in their place, and "=" is only ever padding.
Minus == 64
Underscore == 65
Pad == 66
Malformed == <<-1>>   \* what atob or decodeURIComponent throws on

\* 2^n and 64^(n - 1), as tables, which a proof can expand.
Pow2(n) == <<1, 2, 4, 8, 16, 32, 64, 128, 256, 512, 1024>>[n + 1]
Pow64 == <<1, 64, 4096, 262144>>

\* unescape(encodeURIComponent(s)): the bytes of UTF-8, a lead and up to three
\* that carry six bits each.
LeadMark == <<0, 192, 224, 240>>
Size(c) == IF c < 128 THEN 1 ELSE IF c < 2048 THEN 2 ELSE IF c < 65536 THEN 3 ELSE 4
Utf8(c) ==
  LET n == Size(c) IN
  <<LeadMark[n] + (c \div Pow64[n])>>
    \o [k \in 1..n - 1 |-> 128 + ((c \div Pow64[n - k]) % 64)]

Bytes(s) == FlattenSeq([i \in DOMAIN s |-> Utf8(s[i])])

At(s, i) == IF i \in DOMAIN s THEN s[i] ELSE 0

\* Mutant of Padding: a full last group is padded, too.
PaddingAlways(n) == 4 - (n % 4)

Padding(n) == (4 - (n % 4)) % 4
Pads(n) == [i \in 1..Padding(n) |-> Pad]

Btoa(b) ==
  LET n == ((4 * Len(b)) + 2) \div 3
      Digit(k) == LET i == (6 * k) \div 8  off == (6 * k) % 8 IN
                  ((At(b, i + 1) * 256 + At(b, i + 2)) \div Pow2(10 - off)) % 64
  IN  [k \in 1..n |-> Digit(k - 1)] \o Pads(n)

B64url(s) ==
  LET Safe(d) == CASE d = 62 -> Minus [] d = 63 -> Underscore [] OTHER -> d
      digits == Select(Btoa(Bytes(s)), 0..63)
  IN  [k \in DOMAIN digits |-> Safe(digits[k])]

\* atob takes at most two pads off a text of whole groups, and throws on any
\* other character and on a group of one digit.
Atob(t) ==
  LET pads == IF Len(t) % 4 # 0 THEN 0
              ELSE Max({n \in 0..2 : Len(t) >= n /\ \A k \in 0..n - 1 : t[Len(t) - k] = Pad})
      d == SubSeq(t, 1, Len(t) - pads)
      Byte(m) == LET i == (8 * m) \div 6  off == (8 * m) % 6 IN
                 ((At(d, i + 1) * 64 + At(d, i + 2)) \div Pow2(4 - off)) % 256
  IN  IF Len(d) % 4 = 1 \/ \E i \in DOMAIN d : d[i] > 63 THEN Malformed
      ELSE [m \in 1..(6 * Len(d)) \div 8 |-> Byte(m - 1)]

\* decodeURIComponent(escape(b)): throws on bytes that are no UTF-8.
Length(x) == CASE x < 128 -> 1 [] x \in 194..223 -> 2 [] x \in 224..239 -> 3
               [] x \in 240..244 -> 4 [] OTHER -> 0
Value(lead, tail) ==
  LET v[k \in 0..Len(tail)] == IF k = 0 THEN lead ELSE 64 * v[k - 1] + (tail[k] % 64)
  IN  v[Len(tail)]
FromUtf8(b) ==
  LET f[i \in 1..Len(b) + 1] ==
        LET n == Length(b[i])
            tail == SubSeq(b, i + 1, i + n - 1)
        IN  IF i > Len(b) THEN <<>>
            ELSE IF n > 0 /\ i + n - 1 <= Len(b)
                    /\ ToSet(tail) \subseteq 128..191 /\ f[i + n] # Malformed
                 THEN <<Value(b[i] - LeadMark[n], tail)>> \o f[i + n]
                 ELSE Malformed
  IN  IF b = Malformed THEN Malformed ELSE f[1]

FromB64url(t) ==
  LET Digit(x) == CASE x = Minus -> 62 [] x = Underscore -> 63 [] OTHER -> x
      p == [k \in DOMAIN t |-> Digit(t[k])]
  IN  FromUtf8(Atob(p \o Pads(Len(p))))

-----------------------------------------------------------------------------
\* Rewriting a text: the pieces of the result, an address that became a link
\* or text that was left.
Link(u) == [link |-> TRUE, units |-> u]
Left(u) == [link |-> FALSE, units |-> u]
Flat(out) == FlattenSeq([i \in DOMAIN out |-> out[i].units])

UrlStops == {"quote", "vt", "paren"}     \* the class that URL_RE excludes

Bound == {"quote", "paren"}              \* BOUND

\* The first stop at i or later, or the end of the text.
UrlEnd(t, i, stops) == Min({j \in i..Len(t) : t[j] \in stops} \cup {Len(t) + 1})

\* text.replace(URL_RE, ...): the expression wants a character after "//".
RewriteJs(t) ==
  LET f[i \in 1..Len(t) + 1] ==
        LET e == UrlEnd(t, i + 1, UrlStops) IN
        CASE i > Len(t) -> <<>>
          [] i <= Len(t) /\ t[i] = "https" /\ e > i + 1 ->
               <<Link(SubSeq(t, i, e - 1))>> \o f[e]
          [] OTHER -> <<Left(<<t[i]>>)>> \o f[i + 1]
  IN  f[1]

\* te.encode: one or two bytes a unit.
Encoded(t) ==
  FlattenSeq([i \in DOMAIN t |-> IF t[i] = "wide" THEN <<"byte", "byte">> ELSE <<t[i]>>])

\* String.slice(a, b): positions from 0, and nothing beyond the end.
Slice(t, a, b) == SubSeq(t, a + 1, Min({b, Len(t)}))

\* Mutant of Resume: the loop goes on behind the scheme.
ResumeAtScheme(at, j) == at + 1

\* i = j: the loop goes on behind the address.
Resume(at, j) == j

\* The scan runs over the bytes; its offsets are used on the string.
RewriteWasm(t) ==
  LET bytes == Encoded(t)
      f[i \in 0..Len(bytes)] ==
        LET hits == {k \in i..Len(bytes) - 1 : bytes[k + 1] = "https"}
            at == Min(hits)
            j == IF at + 1 < Len(t) THEN UrlEnd(t, at + 2, Bound) - 1 ELSE at + 1
        IN  IF hits = {} THEN <<Left(Slice(t, i, Len(t)))>>
            ELSE <<Left(Slice(t, i, at)), Link(Slice(t, at, j))>> \o f[Resume(at, j)]
  IN  f[0]

-----------------------------------------------------------------------------
\* Any address and any text: each grows by a character at a time.
Init == name = <<>> /\ text = <<>>

Next ==
  \/ /\ text = <<>> /\ Len(name) < MaxName
     /\ \E c \in CodePoints : name' = Append(name, c)
     /\ UNCHANGED text
  \/ /\ name = <<>> /\ Len(text) < MaxText
     /\ \E u \in Units : text' = Append(text, u)
     /\ UNCHANGED name

Spec == Init /\ [][Next]_vars

-----------------------------------------------------------------------------
\* Whatever an address holds, the worker reads out of the link what was put
\* in, for every remainder of its length by three, and the link is one path
\* segment: it needs no "/", "+" or "=" (b64url and fromB64url).
LinksComeBack ==
  /\ FromB64url(B64url(name)) = name
  /\ ToSet(B64url(name)) \subseteq (0..61 \cup {Minus, Underscore})

\* Rewriting drops and doubles nothing: the pieces both paths cut a text into
\* are that text again, also where the WASM path's offsets are off.
LosesNothing == Flat(RewriteJs(text)) = text /\ Flat(RewriteWasm(text)) = text

\* A text with its rewritten addresses marked, 2 where one begins.
Marked(out) ==
  FlattenSeq([i \in DOMAIN out |-> [k \in DOMAIN out[i].units |->
    <<out[i].units[k], IF ~out[i].link THEN 0 ELSE IF k = 1 THEN 2 ELSE 1>>]])
SameOutput == Marked(RewriteJs(text)) = Marked(RewriteWasm(text))

\* The paths agree where offsets in bytes and in characters are the same, no
\* white space but blanks and line ends occurs, and something follows "//".
Plain ==
  /\ ToSet(text) \cap {"wide", "vt"} = {}
  /\ \A i \in DOMAIN text :
       text[i] = "https" => i < Len(text) /\ text[i + 1] \notin Bound
PlainTextsAgree == Plain => SameOutput
=============================================================================
