------------------------------ MODULE WasmCore ------------------------------
(***************************************************************************)
(* How wasm-engine.js puts a binary module together, and what becomes of   *)
(* it.  The functions it contains are any functions: bodies of any size.   *)
(***************************************************************************)
EXTENDS Naturals, Sequences, SequencesExt

CONSTANTS Sizes,      \* sizes of function bodies, in bytes
          MaxBodies   \* bound: functions in the module

VARIABLES bodies,  \* the functions' bodies
          core     \* what init() has resolved to, W of sw.js

vars == <<bodies, core>>

I32 == 127

\* Mutant of Leb: the last value of one byte is 128.
LebOffByOne(n) ==
  LET f[i \in 0..n] ==
        IF i <= 128 THEN <<i>> ELSE <<128 + (i % 128)>> \o f[i \div 128]
  IN  f[n]

\* leb: seven bits at a time, the low ones first; all bytes but the last are marked.
\* The numbers are lengths of arrays, which >>> shifts without loss.
Leb(n) ==
  LET f[i \in 0..n] ==
        IF i < 128 THEN <<i>> ELSE <<128 + (i % 128)>> \o f[i \div 128]
  IN  f[n]

Vec(items) == Leb(Len(items)) \o FlattenSeq(items)
Sec(id, body) == <<id>> \o Leb(Len(body)) \o body
TypeFn(params, results) ==
  <<96>> \o Vec([k \in DOMAIN params |-> <<params[k]>>])
         \o Vec([k \in DOMAIN results |-> <<results[k]>>])
Code(locals, expr) ==
  LET body == Vec([k \in DOMAIN locals |-> Leb(locals[k]) \o <<I32>>]) \o expr
  IN  Leb(Len(body)) \o body

Expr(n) == [k \in 1..n |-> 1] \o <<11>>    \* n times nop, end
Header == <<0, 97, 115, 109, 1, 0, 0, 0>>

\* The types, the functions and the code of build(); the other sections are
\* put together in the same way.
Types == <<TypeFn(<<>>, <<I32>>), TypeFn(<<I32, I32>>, <<I32>>)>>
Parts ==
  << Sec(1, Vec(Types)),
     Sec(3, Vec([k \in DOMAIN bodies |-> <<k % 2>>])),
     Sec(10, Vec([k \in DOMAIN bodies |-> Code(<<1>>, Expr(bodies[k]))])) >>

\* new Uint8Array([byte, ..., sec(...), ...]): an element that is an array of
\* several numbers is not a number, and 0 as a byte.
AsByte(array) == IF Len(array) = 1 THEN array[1] % 256 ELSE 0

Build == Header \o [k \in DOMAIN Parts |-> AsByte(Parts[k])]

-----------------------------------------------------------------------------
\* The format's own view.  A number at position at, and where it ends; one that
\* is cut short ends behind the end.
Number(b, at) ==
  LET f[i \in 1..Len(b) + 1] ==
        IF i > Len(b) THEN [n |-> 0, next |-> Len(b) + 2]
        ELSE IF b[i] < 128 THEN [n |-> b[i], next |-> i + 1]
        ELSE [n |-> (b[i] - 128) + 128 * f[i + 1].n, next |-> f[i + 1].next]
  IN  f[at]

\* The items of b from i on that are each preceded by their length, with the
\* byte before the length if tagged; the last is Bad if it runs over the end.
Bad == <<256>>
Framed(b, start, tagged) ==
  LET f[i \in 1..Len(b) + 1] ==
        IF i = Len(b) + 1 THEN <<>>
        ELSE IF i + tagged > Len(b) THEN <<Bad>>
        ELSE LET m == Number(b, i + tagged)
                 end == m.next + m.n
             IN IF end > Len(b) + 1 THEN <<Bad>>
                ELSE <<SubSeq(b, m.next, end - 1)>> \o f[end]
  IN f[start]

Sections(b) == Framed(b, Len(Header) + 1, 1)

\* What any module must satisfy: sections that fit, and a name in a custom one,
\* whose id is 0.
Valid(b) ==
  /\ Bad \notin ToSet(Sections(b))
  /\ ~(Len(b) >= 10 /\ b[9] = 0 /\ b[10] = 0)

-----------------------------------------------------------------------------
Init == bodies = <<>> /\ core = "starting"

Grow ==
  /\ core = "starting" /\ Len(bodies) < MaxBodies
  /\ \E n \in Sizes : bodies' = Append(bodies, n)
  /\ UNCHANGED core

\* init: the instance, or null where instantiate throws.
Instantiate ==
  /\ core = "starting" /\ bodies # <<>>
  /\ core' = IF Valid(Build) THEN "api" ELSE "null"
  /\ UNCHANGED bodies

Next == Grow \/ Instantiate

Spec == Init /\ [][Next]_vars

-----------------------------------------------------------------------------
\* What vec, sec and code write is read back by the format's rules, for sizes
\* on both sides of a second length byte: one section for each part, and in
\* the code section each function with its own body.
PartsReadBack ==
  LET b == Header \o FlattenSeq(Parts)
      s == Sections(b)
      code == s[3]
  IN  /\ Len(s) = Len(Parts)
      /\ Number(code, 1).n = Len(bodies)
      /\ Framed(code, Number(code, 1).next, 0)
           = [k \in DOMAIN bodies |-> <<1, 1, I32>> \o Expr(bodies[k])]

\* Whatever functions build() is given, init() comes to null and never to an
\* interface: the worker has only its JavaScript paths for rewriting and for
\* the filter, on which the other modules rely.
CoreStaysOff == core # "api"
=============================================================================
