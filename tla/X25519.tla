------------------------------- MODULE X25519 -------------------------------
(***************************************************************************)
(* The worker's own X25519 (sw.js), over a curve y^2 = x^3 + A x^2 + x of  *)
(* small size: the Montgomery ladder step by step, first for its public    *)
(* key, then for the secret it shares with the node, whose arithmetic      *)
(* (x25519_dalek, in crypto.rs) is the curve's own.  As for the real curve *)
(* the base point has prime order q with 2^(Bits-3) < q < 2^(Bits-2), and  *)
(* the curve has 8 * q points.                                             *)
(***************************************************************************)
EXTENDS Integers

CONSTANTS P,      \* the prime, P25519
          A24,    \* (A - 2) / 4, 121665
          Base,   \* the base point, of which X_BASE is the x
          Bits    \* bits of a scalar, 255

VARIABLES k, b,             \* the scalars of worker and node
          phase,            \* "pub", "shared" or "done"
          u,                \* the x that is multiplied
          t,                \* the next bit of k, -1 behind the last
          x2, z2, x3, z3, swap,
          pub, secret       \* what x25519 returned in either phase

ladder == <<x2, z2, x3, z3, swap>>
vars == <<k, b, phase, u, t, ladder, pub, secret>>

-----------------------------------------------------------------------------
\* The curve: multiples of a point by the group law, O for the neutral one.
A == (4 * A24) + 2
O == <<>>
Over(n, d) == CHOOSE q \in 0..P - 1 : (q * d) % P = n % P
Plus(p, q) ==
  CASE p = O -> q
    [] q = O -> p
    [] p # O /\ q # O /\ p[1] = q[1] /\ (p[2] + q[2]) % P = 0 -> O
    [] OTHER ->
         LET s == IF p = q THEN Over((3 * p[1]^2) + (2 * A * p[1]) + 1, 2 * p[2])
                  ELSE Over(q[2] - p[2], q[1] - p[1])
             x == ((s * s) - A - p[1] - q[1]) % P
         IN  <<x, ((s * (p[1] - x)) - p[2]) % P>>
Times(n, p) == LET f[i \in 0..n] == IF i = 0 THEN O ELSE Plus(f[i - 1], p) IN f[n]

XOf(p) == IF p = O THEN 0 ELSE p[1]
Lift(x) == CHOOSE p \in {x} \X (0..P - 1) :
             (p[2] * p[2]) % P = (((x + A) * x + 1) * x) % P

-----------------------------------------------------------------------------
\* The scalar from random bytes: the low three bits off, the top one on.
Clamp(raw) == (8 * ((raw \div 8) % 2^(Bits - 4))) + 2^(Bits - 1)

Bit(n, i) == (n \div 2^i) % 2

\* Mutant of Toggle: the lazy swap is taken for the swap of this bit.
ToggleNot(s, kt) == kt

\* swap ^= kt: whether the pairs change places against how they stand.
Toggle(s, kt) == (s + kt) % 2

Start(x) ==
  /\ u' = x % P /\ t' = Bits - 1
  /\ x2' = 1 /\ z2' = 0 /\ x3' = x % P /\ z3' = 1 /\ swap' = 0

\* One round of the loop.
Round ==
  /\ phase # "done" /\ t >= 0
  /\ LET kt == Bit(k, t)
         turn == Toggle(swap, kt) = 1
         a2 == IF turn THEN x3 ELSE x2    c2 == IF turn THEN z3 ELSE z2
         a3 == IF turn THEN x2 ELSE x3    c3 == IF turn THEN z2 ELSE z3
         AA == (a2 + c2)^2 % P            BB == (a2 - c2)^2 % P
         E == (AA - BB) % P
         DA == ((a3 - c3) * (a2 + c2)) % P
         CB == ((a3 + c3) * (a2 - c2)) % P
     IN  /\ x3' = (DA + CB)^2 % P
         /\ z3' = (((DA - CB)^2 % P) * u) % P
         /\ x2' = (AA * BB) % P
         /\ z2' = (E * ((AA + (A24 * E)) % P)) % P
         /\ swap' = kt
  /\ t' = t - 1
  /\ UNCHANGED <<k, b, phase, u, pub, secret>>

InvExponent == P - 2

\* inv: square and multiply, from the low bit on.
Inv(a) ==
  LET f[e \in 0..InvExponent, c \in 0..P - 1] ==
        IF e = 0 THEN 1
        ELSE (f[e \div 2, (c * c) % P] * (IF e % 2 = 1 THEN c ELSE 1)) % P
  IN  f[InvExponent, a]

Returned ==
  LET turn == swap = 1
      x == IF turn THEN x3 ELSE x2
      z == IF turn THEN z3 ELSE z2
  IN  (x * Inv(z)) % P

\* connectTunnel: the public key goes out, the node's comes in.
PublicKey ==
  /\ phase = "pub" /\ t = -1
  /\ pub' = Returned
  /\ phase' = "shared"
  /\ Start(XOf(Times(b, Base)))
  /\ UNCHANGED <<k, b, secret>>

Shared ==
  /\ phase = "shared" /\ t = -1
  /\ secret' = Returned
  /\ phase' = "done"
  /\ UNCHANGED <<k, b, u, t, ladder, pub>>

Init ==
  /\ k \in {Clamp(raw) : raw \in 0..2^(Bits + 1) - 1}
  /\ b \in {Clamp(raw) : raw \in 0..2^(Bits + 1) - 1}
  /\ phase = "pub" /\ pub = 0 /\ secret = 0
  /\ u = Base[1] /\ t = Bits - 1
  /\ x2 = 1 /\ z2 = 0 /\ x3 = Base[1] /\ z3 = 1 /\ swap = 0

Next == Round \/ PublicKey \/ Shared

Spec == Init /\ [][Next]_vars

-----------------------------------------------------------------------------
\* The pair <<x, z>> stands for the point p by its x.
Stands(x, z, p) == IF p = O THEN z = 0 /\ x # 0 ELSE z # 0 /\ x = (p[1] * z) % P

\* Where the ladder stands: with the bits read so far as m, the pairs are the
\* multiples m and m + 1 of the point, changed over if the last bit was 1.
LadderHolds ==
  LET m == k \div 2^(t + 1)
      lo == Times(m, Lift(u))
      hi == Plus(lo, Lift(u))
  IN  IF swap = 0 THEN Stands(x2, z2, lo) /\ Stands(x3, z3, hi)
      ELSE Stands(x2, z2, hi) /\ Stands(x3, z3, lo)

\* Worker and node get the same secret out of each other's public key, for all
\* scalars, and it is not the neutral one.
SecretsAgree ==
  phase = "done" =>
    /\ pub = XOf(Times(k, Base))
    /\ secret = XOf(Times(b, Lift(pub)))
    /\ secret # 0
=============================================================================
