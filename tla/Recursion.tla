------------------------------ MODULE Recursion ------------------------------
(***************************************************************************)
(* Induction and recursion over the natural numbers, stated with sets and  *)
(* functions, for the proofs about loops and folds.                        *)
(***************************************************************************)
EXTENDS Selection, SequencesExt, SequenceTheorems, WellFoundedInduction, TLAPS

\* A set of numbers that is not empty has a least one.
LEMMA Least ==
  ASSUME NEW T \in SUBSET Nat, T # {}
  PROVE  \E x \in T : \A y \in T : x <= y
<1> DEFINE R == OpToRel(<, Nat)
<1>1. PICK x \in T : \A y \in T : <<y, x>> \notin R
  <2>1. IsWellFoundedOn(R, Nat)
    BY NatLessThanWellFounded, Zenon
  <2> HIDE DEF R
  <2> QED
  BY <2>1, WFMin
<1>2. \A y \in T : ~ (y < x)
  BY <1>1 DEF OpToRel
<1> QED
  BY <1>2

\* A set that has 0, and n + 1 if it has n, has every number.
LEMMA NatSet ==
  ASSUME NEW T, 0 \in T, \A n \in Nat : n \in T => n + 1 \in T
  PROVE  Nat \subseteq T
<1> SUFFICES ASSUME Nat \ T # {} PROVE FALSE
  OBVIOUS
<1>1. PICK x \in Nat \ T : \A y \in Nat \ T : x <= y
  BY Least
<1>2. x # 0 /\ x - 1 \in Nat /\ x - 1 \in T
  BY <1>1
<1> QED
  BY <1>1, <1>2

LEMMA MinIn ==
  ASSUME NEW T \in SUBSET Nat, T # {}
  PROVE  Min(T) \in T
<1>1. \E x \in T : \A y \in T : x <= y
  BY Least
<1> QED
  BY <1>1 DEF Min

\* The values a loop goes through: v0 before it, and after its i-th turn what
\* the turn makes of the value before.
IsLoop(g, N, v0, turn) ==
  /\ DOMAIN g = 0..N
  /\ g[0] = v0
  /\ \A i \in 1..N : g[i] = turn[<<g[i - 1], i>>]

\* A loop whose turns keep its values in V has such values.
LEMMA LoopExists ==
  ASSUME NEW N \in Nat, NEW V, NEW v0 \in V, NEW turn \in [V \X (1..N) -> V]
  PROVE  \E g \in [0..N -> V] : IsLoop(g, N, v0, turn)
<1> DEFINE T == {n \in Nat : n <= N => \E g \in [0..n -> V] : IsLoop(g, n, v0, turn)}
<1>1. 0 \in T
  <2> DEFINE g == [i \in 0..0 |-> v0]
  <2>1. g \in [0..0 -> V] /\ IsLoop(g, 0, v0, turn)
    BY DEF IsLoop
  <2> QED
    BY <2>1
<1>2. ASSUME NEW n \in Nat, n \in T, n + 1 <= N
      PROVE  \E g \in [0..(n + 1) -> V] : IsLoop(g, n + 1, v0, turn)
  <2>1. n <= N
    BY <1>2
  <2>2. PICK g \in [0..n -> V] : IsLoop(g, n, v0, turn)
    BY <1>2, <2>1
  <2> DEFINE h == [i \in 0..(n + 1) |-> IF i <= n THEN g[i] ELSE turn[<<g[n], n + 1>>]]
  <2>3. n \in 0..n /\ n + 1 \in 1..N
    BY <1>2
  <2>4. turn[<<g[n], n + 1>>] \in V
    BY <2>2, <2>3
  <2>5. h \in [0..(n + 1) -> V]
    BY <2>2, <2>4
  <2>6. \A i \in 1..(n + 1) : h[i] = turn[<<h[i - 1], i>>]
    <3> SUFFICES ASSUME NEW i \in 1..(n + 1) PROVE h[i] = turn[<<h[i - 1], i>>]
      OBVIOUS
    <3>1. i - 1 \in 0..(n + 1) /\ i - 1 <= n /\ i - 1 \in 0..n
      OBVIOUS
    <3>2. h[i - 1] = g[i - 1]
      BY <3>1
    <3>3. CASE i <= n
      BY <2>2, <3>1, <3>2, <3>3 DEF IsLoop
    <3>4. CASE ~ (i <= n)
      <4>1. i = n + 1 /\ i - 1 = n
        BY <3>4
      <4>2. h[i] = turn[<<g[n], n + 1>>]
        BY <3>4, <4>1
      <4> QED
        BY <3>2, <4>1, <4>2
    <3> QED
      BY <3>3, <3>4
  <2>7. h[0] = v0
    BY <2>2 DEF IsLoop
  <2>8. IsLoop(h, n + 1, v0, turn)
    BY <2>6, <2>7 DEF IsLoop
  <2> QED
    BY <2>5, <2>8
<1>3. \A n \in Nat : n \in T => n + 1 \in T
  BY <1>2
<1> HIDE DEF T
<1>4. N \in T
  BY <1>1, <1>3, NatSet
<1> QED
  BY <1>4 DEF T

\* What holds before the loop, and after a turn if before it, holds at its end.
LEMMA LoopInvariant ==
  ASSUME NEW N \in Nat, NEW g, NEW good,
         <<0, g[0]>> \in good,
         \A i \in 1..N : <<i - 1, g[i - 1]>> \in good => <<i, g[i]>> \in good
  PROVE  \A i \in 0..N : <<i, g[i]>> \in good
<1> DEFINE T == {n \in Nat : n <= N => <<n, g[n]>> \in good}
<1>1. 0 \in T
  OBVIOUS
<1>2. \A n \in Nat : n \in T => n + 1 \in T
  <2> SUFFICES ASSUME NEW n \in Nat, n \in T, n + 1 <= N
               PROVE  <<n + 1, g[n + 1]>> \in good
    OBVIOUS
  <2>1. n + 1 \in 1..N /\ n + 1 - 1 = n /\ n <= N
    OBVIOUS
  <2> QED
    BY <2>1
<1> HIDE DEF T
<1>3. \A i \in 0..N : i \in T
  BY <1>1, <1>2, NatSet
<1> QED
  BY <1>3 DEF T

\* What a number has if all greater ones have it, all numbers up to N have.
LEMMA DownSet ==
  ASSUME NEW N \in Nat, NEW T,
         \A i \in 0..N : (\A j \in 0..N : j > i => j \in T) => i \in T
  PROVE  \A i \in 0..N : i \in T
<1> DEFINE R == {k \in Nat : k <= N /\ N - k \notin T}
<1> SUFFICES ASSUME R # {} PROVE FALSE
  <2>1. ASSUME NEW i \in 0..N, i \notin T PROVE N - i \in R
    <3>1. N - i \in Nat /\ N - i <= N /\ N - (N - i) = i
      OBVIOUS
    <3> QED
      BY <2>1, <3>1
  <2> QED
    BY <2>1
<1>1. PICK x \in R : \A y \in R : x <= y
  BY Least
<1>2. N - x \in 0..N
  BY <1>1
<1>3. ASSUME NEW j \in 0..N, j > N - x, j \notin T PROVE FALSE
  <2>1. N - j \in Nat /\ N - j <= N /\ N - (N - j) = j /\ ~ (x <= N - j)
    BY <1>1, <1>3
  <2>2. N - j \in R
    BY <1>3, <2>1
  <2> QED
    BY <1>1, <2>1, <2>2
<1>4. N - x \in T
  BY <1>2, <1>3
<1> QED
  BY <1>1, <1>4

\* The equations of a recursion in which the value at a number rests on the
\* values at greater ones.
IsDown(f, N, step) == \A i \in 0..N : f[i] = step[<<i, f>>]

LooksUp(N, V, step) ==
  \A i \in 0..N : \A g, h \in [0..N -> V] :
    (\A j \in 0..N : j > i => g[j] = h[j]) => step[<<i, g>>] = step[<<i, h>>]

LEMMA DownExists ==
  ASSUME NEW N \in Nat, NEW V, NEW v0 \in V,
         NEW step \in [(0..N) \X [0..N -> V] -> V], LooksUp(N, V, step)
  PROVE  \E f \in [0..N -> V] : IsDown(f, N, step)
<1> DEFINE W == [0..N -> V]
           turn == [p \in W \X (1..(N + 1)) |->
                      [p[1] EXCEPT ![N + 1 - p[2]] = step[<<N + 1 - p[2], p[1]>>]]]
           start == [i \in 0..N |-> v0]
<1>1. start \in W /\ N + 1 \in Nat
  OBVIOUS
<1>2. \A k \in 1..(N + 1) : N + 1 - k \in 0..N
  OBVIOUS
<1>3. turn \in [W \X (1..(N + 1)) -> W]
  BY <1>2
<1> HIDE DEF start
<1>4. PICK g \in [0..(N + 1) -> W] : IsLoop(g, N + 1, start, turn)
  BY <1>1, <1>3, LoopExists
<1> DEFINE good == {p \in (0..(N + 1)) \X W :
                      \A i \in 0..N : i > N - p[1] => p[2][i] = step[<<i, p[2]>>]}
<1>5. <<0, g[0]>> \in good
  <2>1. \A i \in 0..N : ~ (i > N - 0)
    OBVIOUS
  <2>2. 0 \in 0..(N + 1)
    OBVIOUS
  <2> QED
    BY <1>4, <2>1, <2>2
<1>6. ASSUME NEW k \in 1..(N + 1), <<k - 1, g[k - 1]>> \in good
      PROVE  <<k, g[k]>> \in good
  <2> DEFINE m == N + 1 - k
             a == g[k - 1]
             b == g[k]
  <2>1. m \in 0..N /\ k \in 0..(N + 1) /\ k - 1 \in 0..(N + 1) /\ N - (k - 1) = m /\ N - k = m - 1
    OBVIOUS
  <2>2. a \in W /\ b \in W
    BY <1>4, <2>1
  <2>3. b = [a EXCEPT ![m] = step[<<m, a>>]]
    <3>1. g[k] = turn[<<g[k - 1], k>>]
      BY <1>4 DEF IsLoop
    <3> QED
      BY <2>2, <3>1
  <2>4. \A i \in 0..N : i > m => a[i] = step[<<i, a>>]
    BY <1>6, <2>1
  <2> HIDE DEF a, b, m
  <2>5. b[m] = step[<<m, a>>] /\ \A i \in 0..N : i # m => b[i] = a[i]
    BY <2>1, <2>2, <2>3
  <2>6. \A j \in 0..N : j > m => a[j] = b[j]
    <3>1. \A j \in 0..N : j > m => j # m
      BY <2>1
    <3> QED
      BY <2>5, <3>1
  <2>7. ASSUME NEW i \in 0..N, i > m - 1 PROVE b[i] = step[<<i, b>>]
    <3>1. \A j \in 0..N : j > i => a[j] = b[j]
      <4>1. \A j \in 0..N : j > i => j > m
        BY <2>1, <2>7
      <4> QED
        BY <2>6, <4>1
    <3>2. step[<<i, a>>] = step[<<i, b>>]
      BY <2>2, <3>1 DEF LooksUp
    <3>3. CASE i = m
      BY <2>5, <3>2, <3>3
    <3>4. CASE i # m
      <4>1. i > m
        BY <2>1, <2>7, <3>4
      <4> QED
        BY <2>4, <2>5, <3>2, <3>4, <4>1
    <3> QED
      BY <3>3, <3>4
  <2> QED
    BY <2>1, <2>2, <2>7 DEF b
<1> HIDE DEF good
<1>7. \A k \in 0..(N + 1) : <<k, g[k]>> \in good
  BY <1>1, <1>5, <1>6, LoopInvariant
<1>8. <<N + 1, g[N + 1]>> \in good
  BY <1>1, <1>7
<1>9. g[N + 1] \in W /\ \A i \in 0..N : i > N - (N + 1)
  BY <1>1, <1>4
<1>10. \A i \in 0..N : g[N + 1][i] = step[<<i, g[N + 1]>>]
  BY <1>8, <1>9 DEF good
<1> QED
  BY <1>9, <1>10 DEF IsDown

\* What a number has if all smaller ones have it, all numbers up to N have.
LEMMA UpSet ==
  ASSUME NEW N \in Nat, NEW T,
         \A i \in 0..N : (\A j \in 0..N : j < i => j \in T) => i \in T
  PROVE  \A i \in 0..N : i \in T
<1> DEFINE U == {i \in 0..N : N - i \in T}
<1>1. \A i \in 0..N : (\A j \in 0..N : j > i => j \in U) => i \in U
  <2> SUFFICES ASSUME NEW i \in 0..N, \A j \in 0..N : j > i => j \in U
               PROVE  N - i \in T
    OBVIOUS
  <2>1. N - i \in 0..N
    OBVIOUS
  <2>2. ASSUME NEW j \in 0..N, j < N - i PROVE j \in T
    <3>1. N - j \in 0..N /\ N - j > i /\ N - (N - j) = j
      BY <2>2
    <3> QED
      BY <3>1
  <2> QED
    BY <2>1, <2>2
<1> HIDE DEF U
<1>2. \A i \in 0..N : i \in U
  BY <1>1, DownSet
<1>3. ASSUME NEW i \in 0..N PROVE i \in T
  <2>1. N - i \in 0..N /\ N - (N - i) = i
    OBVIOUS
  <2> QED
    BY <1>2, <2>1 DEF U
<1> QED
  BY <1>3

\* A recursion in which the value at a number rests on the values at smaller ones.
LooksDown(N, V, step) ==
  \A i \in 0..N : \A g, h \in [0..N -> V] :
    (\A j \in 0..N : j < i => g[j] = h[j]) => step[<<i, g>>] = step[<<i, h>>]

LEMMA UpExists ==
  ASSUME NEW N \in Nat, NEW V, NEW v0 \in V,
         NEW step \in [(0..N) \X [0..N -> V] -> V], LooksDown(N, V, step)
  PROVE  \E f \in [0..N -> V] : IsDown(f, N, step)
<1> DEFINE W == [0..N -> V]
           Turned(g) == [j \in 0..N |-> g[N - j]]
           back == [p \in (0..N) \X W |-> step[<<N - p[1], Turned(p[2])>>]]
<1>1. \A j \in 0..N : N - j \in 0..N /\ N - (N - j) = j
  OBVIOUS
<1>2. \A g \in W : Turned(g) \in W /\ \A j \in 0..N : Turned(g)[j] = g[N - j]
  BY <1>1
<1> HIDE DEF Turned
<1>3. \A i \in 0..N : \A g \in W : back[<<i, g>>] = step[<<N - i, Turned(g)>>]
  OBVIOUS
<1>4. back \in [(0..N) \X W -> V]
  <2>1. \A i \in 0..N : \A g \in W : step[<<N - i, Turned(g)>>] \in V
    BY <1>1, <1>2
  <2> QED
    BY <2>1
<1> HIDE DEF back
<1>5. LooksUp(N, V, back)
  <2> SUFFICES ASSUME NEW i \in 0..N, NEW g \in W, NEW h \in W,
                      \A j \in 0..N : j > i => g[j] = h[j]
               PROVE  back[<<i, g>>] = back[<<i, h>>]
    BY DEF LooksUp
  <2>1. ASSUME NEW j \in 0..N, j < N - i PROVE Turned(g)[j] = Turned(h)[j]
    <3>1. N - j \in 0..N /\ N - j > i
      BY <2>1
    <3> QED
      BY <1>2, <3>1
  <2>2. step[<<N - i, Turned(g)>>] = step[<<N - i, Turned(h)>>]
    BY <1>1, <1>2, <2>1 DEF LooksDown
  <2> QED
    BY <1>3, <2>2
<1>6. PICK f \in W : IsDown(f, N, back)
  BY <1>4, <1>5, DownExists
<1>7. Turned(f) \in W
  BY <1>2
<1>8. ASSUME NEW i \in 0..N PROVE Turned(f)[i] = step[<<i, Turned(f)>>]
  <2>1. f[N - i] = back[<<N - i, f>>]
    BY <1>1, <1>6 DEF IsDown
  <2>2. back[<<N - i, f>>] = step[<<N - (N - i), Turned(f)>>]
    BY <1>1, <1>3
  <2> QED
    BY <1>1, <1>2, <2>1, <2>2
<1> QED
  BY <1>7, <1>8 DEF IsDown

\* The equations of FlattenSeq: what the first i sequences give, joined.
IsFlat(g, seqs) ==
  g[0] = <<>> /\ \A i \in 1..Len(seqs) : g[i] = g[i - 1] \o seqs[i]

LEMMA FlattenIs ==
  ASSUME NEW S, NEW seqs \in Seq(Seq(S))
  PROVE  \E g \in [0..Len(seqs) -> Seq(S)] :
           IsFlat(g, seqs) /\ FlattenSeq(seqs) = g[Len(seqs)]
<1> DEFINE n == Len(seqs)
           Next(f) == [i \in 1..n |-> IF i = 1 THEN seqs[i] ELSE f[i - 1] \o seqs[i]]
           flatten == CHOOSE f : f = Next(f)
           turn == [p \in Seq(S) \X (1..n) |-> p[1] \o seqs[p[2]]]
<1>0. n \in Nat /\ \A i \in 1..n : seqs[i] \in Seq(S)
  OBVIOUS
<1>1. turn \in [Seq(S) \X (1..n) -> Seq(S)]
  BY <1>0
<1>2. <<>> \in Seq(S)
  OBVIOUS
<1>3. PICK g \in [0..n -> Seq(S)] : IsLoop(g, n, <<>>, turn)
  BY <1>0, <1>1, <1>2, LoopExists
<1>4. g[0] = <<>>
  BY <1>3 DEF IsLoop
<1>5. ASSUME NEW i \in 1..n PROVE g[i] = g[i - 1] \o seqs[i] /\ g[i - 1] \in Seq(S)
  <2>0. i - 1 \in 0..n
    BY <1>0
  <2>1. g[i - 1] \in Seq(S) /\ g[i] = turn[<<g[i - 1], i>>]
    BY <1>3, <2>0 DEF IsLoop
  <2> QED
    BY <2>1
<1>6. IsFlat(g, seqs)
  BY <1>4, <1>5 DEF IsFlat
<1>7. CASE n = 0
  <2>1. FlattenSeq(seqs) = seqs /\ seqs = <<>>
    BY <1>7 DEF FlattenSeq
  <2> QED
    BY <1>3, <1>4, <1>6, <1>7, <2>1
<1>8. CASE n # 0
  <2>1. FlattenSeq(seqs) = flatten[n]
    BY <1>8 DEF FlattenSeq
  <2>2. \E f : f = Next(f)
    <3> DEFINE f == [i \in 1..n |-> g[i]]
    <3>1. ASSUME NEW i \in 1..n
          PROVE f[i] = IF i = 1 THEN seqs[i] ELSE f[i - 1] \o seqs[i]
      <4>1. CASE i = 1
        <5>1. i - 1 = 0 /\ <<>> \o seqs[i] = seqs[i]
          BY <1>0, <4>1
        <5> QED
          BY <1>4, <1>5, <4>1, <5>1
      <4>2. CASE i # 1
        <5>1. i - 1 \in 1..n
          BY <1>0, <4>2
        <5> QED
          BY <1>5, <4>2, <5>1
      <4> QED
        BY <4>1, <4>2
    <3>2. f = Next(f)
      BY <3>1
    <3> QED
      BY <3>2
  <2>3. flatten = Next(flatten)
    BY <2>2
  <2> HIDE DEF flatten
  <2>4. \A i \in 1..n : flatten[i] = IF i = 1 THEN seqs[i] ELSE flatten[i - 1] \o seqs[i]
    BY <2>3
  <2> DEFINE T == {i \in Nat : i + 1 <= n => flatten[i + 1] = g[i + 1]}
  <2>5. 0 \in T
    <3> DEFINE one == 1
    <3>1. one \in 1..n /\ one - 1 = 0 /\ one = 1 /\ <<>> \o seqs[one] = seqs[one]
      BY <1>0, <1>8
    <3> HIDE DEF one
    <3>2. g[one] = g[one - 1] \o seqs[one] /\ flatten[one] = seqs[one]
      BY <1>5, <2>4, <3>1
    <3>3. flatten[one] = g[one]
      BY <1>4, <3>1, <3>2, Zenon
    <3> QED
      BY <3>3 DEF one
  <2>6. \A i \in Nat : i \in T => i + 1 \in T
    <3> SUFFICES ASSUME NEW i \in Nat, i \in T, i + 2 <= n PROVE flatten[i + 2] = g[i + 2]
      OBVIOUS
    <3> DEFINE j == i + 2
    <3>1. j \in 1..n /\ j # 1 /\ j - 1 = i + 1 /\ flatten[i + 1] = g[i + 1]
      BY <1>0
    <3> HIDE DEF j
    <3>2. flatten[j] = flatten[j - 1] \o seqs[j] /\ g[j] = g[j - 1] \o seqs[j]
      BY <1>5, <2>4, <3>1
    <3>3. flatten[j - 1] = g[j - 1]
      BY <3>1
    <3>4. flatten[j] = g[j]
      BY <3>2, <3>3, Zenon
    <3> QED
      BY <3>4 DEF j
  <2> HIDE DEF T
  <2>7. n - 1 \in T
    <3>1. n - 1 \in Nat
      BY <1>0, <1>8
    <3> QED
      BY <2>5, <2>6, <3>1, NatSet
  <2>8. n - 1 + 1 <= n /\ n - 1 + 1 = n
    BY <1>0
  <2>9. flatten[n] = g[n]
    BY <2>7, <2>8 DEF T
  <2> QED
    BY <1>3, <1>6, <2>1, <2>9
<1> QED
  BY <1>7, <1>8

LEMMA FlattenType ==
  ASSUME NEW S, NEW seqs \in Seq(Seq(S))
  PROVE  FlattenSeq(seqs) \in Seq(S)
<1>1. PICK g \in [0..Len(seqs) -> Seq(S)] : IsFlat(g, seqs) /\ FlattenSeq(seqs) = g[Len(seqs)]
  BY FlattenIs
<1>2. Len(seqs) \in 0..Len(seqs)
  OBVIOUS
<1> QED
  BY <1>1, <1>2

\* The equations have one solution only.
LEMMA FlattenOnly ==
  ASSUME NEW S, NEW seqs \in Seq(Seq(S)), NEW h, IsFlat(h, seqs)
  PROVE  FlattenSeq(seqs) = h[Len(seqs)]
<1> DEFINE n == Len(seqs)
<1>1. PICK g \in [0..n -> Seq(S)] : IsFlat(g, seqs) /\ FlattenSeq(seqs) = g[n]
  BY FlattenIs
<1> DEFINE T == {i \in Nat : i <= n => g[i] = h[i]}
<1>2. 0 \in T
  BY <1>1 DEF IsFlat
<1>3. \A i \in Nat : i \in T => i + 1 \in T
  <2> SUFFICES ASSUME NEW i \in Nat, i \in T, i + 1 <= n PROVE g[i + 1] = h[i + 1]
    OBVIOUS
  <2> DEFINE k == i + 1
  <2>1. k \in 1..n /\ k - 1 = i /\ g[i] = h[i]
    OBVIOUS
  <2> HIDE DEF k
  <2>2. g[k] = g[k - 1] \o seqs[k] /\ h[k] = h[k - 1] \o seqs[k]
    BY <1>1, <2>1, Zenon DEF IsFlat
  <2>3. g[k] = h[k]
    BY <2>1, <2>2, Zenon
  <2> QED
    BY <2>3 DEF k
<1> HIDE DEF T
<1>4. n \in Nat /\ n <= n
  OBVIOUS
<1>5. n \in T
  BY <1>2, <1>3, <1>4, NatSet
<1> QED
  BY <1>1, <1>4, <1>5 DEF T

\* Joining sequences is associative.
Regroups(a, b, c) == (a \o b) \o c = a \o (b \o c)

LEMMA Associative ==
  ASSUME NEW S, NEW a \in Seq(S), NEW b \in Seq(S), NEW c \in Seq(S)
  PROVE  Regroups(a, b, c)
<1> DEFINE l == (a \o b) \o c
           r == a \o (b \o c)
<1>1. /\ l \in Seq(S) /\ Len(l) = Len(a) + Len(b) + Len(c)
      /\ r \in Seq(S) /\ Len(r) = Len(a) + Len(b) + Len(c)
  OBVIOUS
<1>2. \A j \in 1..Len(l) : l[j] = r[j]
  OBVIOUS
<1> HIDE DEF l, r
<1>3. l = r
  BY <1>1, <1>2, SeqEqual
<1> QED
  BY <1>3 DEF l, r, Regroups

\* A sequence more in front.
LEMMA FlattenHead ==
  ASSUME NEW S, NEW s \in Seq(S), NEW seqs \in Seq(Seq(S))
  PROVE  FlattenSeq(<<s>> \o seqs) = s \o FlattenSeq(seqs)
<1> DEFINE n == Len(seqs)
           r == <<s>> \o seqs
<1>1. PICK g \in [0..n -> Seq(S)] : IsFlat(g, seqs) /\ FlattenSeq(seqs) = g[n]
  BY FlattenIs
<1> DEFINE h == [i \in 0..(n + 1) |-> IF i = 0 THEN <<>> ELSE s \o g[i - 1]]
<1>2. /\ n \in Nat /\ r \in Seq(Seq(S)) /\ Len(r) = n + 1 /\ r[1] = s
      /\ \A i \in 2..(n + 1) : r[i] = seqs[i - 1]
  OBVIOUS
<1> HIDE DEF r
<1>3. ASSUME NEW i \in 1..(n + 1) PROVE h[i] = h[i - 1] \o r[i]
  <2>1. CASE i = 1
    <3>1. h[i] = s \o g[0] /\ h[i - 1] = <<>>
      BY <1>2, <2>1
    <3>2. g[0] = <<>> /\ s \o <<>> = s /\ <<>> \o s = s
      BY <1>1 DEF IsFlat
    <3> QED
      BY <1>2, <2>1, <3>1, <3>2
  <2>2. CASE i # 1
    <3> DEFINE k == i - 1
    <3>1. k \in 1..n /\ i \in 2..(n + 1) /\ k - 1 \in 0..n /\ k \in 0..n /\ k # 0 /\ i # 0
      BY <1>2, <2>2
    <3>2. i \in 0..(n + 1) /\ k \in 0..(n + 1) /\ i - 1 = k
      BY <1>2, <3>1
    <3>3. h[i] = s \o g[i - 1]
      BY <3>1, <3>2, Zenon
    <3>4. h[k] = s \o g[k - 1]
      BY <3>1, <3>2, Zenon
    <3>5. r[i] = seqs[k] /\ seqs[k] \in Seq(S) /\ g[k - 1] \in Seq(S)
      <4>1. r[i] = seqs[k]
        BY <1>2, <3>1
      <4> HIDE DEF k
      <4>2. seqs[k] \in Seq(S)
        BY <3>1
      <4>3. g[k - 1] \in Seq(S)
        BY <1>1, <3>1, Zenon
      <4> QED
        BY <4>1, <4>2, <4>3
    <3>6. g[k] = g[k - 1] \o seqs[k]
      BY <1>1, <3>1, Zenon DEF IsFlat
    <3> HIDE DEF h
    <3>7. (s \o g[k - 1]) \o seqs[k] = s \o (g[k - 1] \o seqs[k])
      <4> DEFINE b == g[k - 1]
                 c == seqs[k]
      <4>1. b \in Seq(S) /\ c \in Seq(S)
        BY <3>5
      <4> HIDE DEF b, c
      <4>2. Regroups(s, b, c)
        BY <4>1, Associative
      <4> QED
        BY <4>2 DEF b, c, Regroups
    <3>8. h[k] \o r[i] = (s \o g[k - 1]) \o seqs[k]
      BY <3>4, <3>5, Zenon
    <3>9. h[i] = h[k] \o r[i]
      BY <3>2, <3>3, <3>6, <3>7, <3>8, Zenon
    <3> QED
      BY <3>2, <3>9, Zenon
  <2> QED
    BY <2>1, <2>2
<1>4. IsFlat(h, r)
  <2>1. h[0] = <<>>
    BY <1>2
  <2> HIDE DEF h
  <2>2. \A i \in 1..Len(r) : h[i] = h[i - 1] \o r[i]
    BY <1>2, <1>3, Zenon
  <2> QED
    BY <2>1, <2>2, Zenon DEF IsFlat
<1>5. FlattenSeq(r) = h[n + 1]
  <2> HIDE DEF h
  <2> QED
    BY <1>2, <1>4, FlattenOnly
<1>6. h[n + 1] = s \o g[n]
  BY <1>2
<1> QED
  BY <1>1, <1>5, <1>6 DEF r

LEMMA FlattenEmpty == FlattenSeq(<<>>) = <<>>
<1>1. Len(<<>>) = 0
  OBVIOUS
<1> QED
  BY <1>1 DEF FlattenSeq

-----------------------------------------------------------------------------
\* Folds that take the elements of 1..N from the greatest down, as FoldLeft
\* does with the indices of a sequence.
IsFold(g, N, v0, turn) ==
  /\ DOMAIN g = SUBSET (1..N)
  /\ g[{}] = v0
  /\ \A s \in SUBSET (1..N) :
       s # {} => g[s] = turn[<<g[s \ {Max(s)}], Max(s)>>]

\* The greatest element of a set that has n and nothing above it.
LEMMA MaxIs ==
  ASSUME NEW n \in Nat, NEW s \in SUBSET (1..n), n \in s
  PROVE  Max(s) = n
<1>1. \A x \in s : x \in Nat /\ x <= n
  OBVIOUS
<1>2. \A x \in s : (\A y \in s : x >= y) <=> x = n
  BY <1>1
<1> QED
  BY <1>2 DEF Max

LEMMA MaxIn ==
  ASSUME NEW n \in Nat, NEW s \in SUBSET (1..n), s # {}
  PROVE  Max(s) \in s
<1> DEFINE T == {k \in Nat : \A x \in s : x <= k}
<1>1. \A x \in s : x \in Nat \ {0} /\ x <= n
  OBVIOUS
<1>2. n \in T
  BY <1>1
<1>3. PICK m \in T : \A k \in T : m <= k
  BY <1>2, Least
<1>4. m \in Nat /\ \A x \in s : x <= m
  BY <1>3
<1>5. m \in s
  <2> SUFFICES ASSUME m \notin s PROVE FALSE
    OBVIOUS
  <2>1. PICK x \in s : x \in Nat \ {0} /\ x <= m
    BY <1>1, <1>4
  <2>2. m - 1 \in Nat /\ ~ (m <= m - 1)
    BY <1>4, <2>1
  <2>3. \A y \in s : y <= m - 1
    BY <1>1, <1>4
  <2>4. m - 1 \in T
    BY <2>2, <2>3
  <2> QED
    BY <1>3, <2>2, <2>4
<1>6. \A y \in s : m >= y
  BY <1>1, <1>4
<1> QED
  BY <1>5, <1>6 DEF Max

LEMMA FoldExists ==
  ASSUME NEW N \in Nat, NEW V, NEW v0 \in V, NEW turn \in [V \X (1..N) -> V]
  PROVE  \E g \in [SUBSET (1..N) -> V] : IsFold(g, N, v0, turn)
<1> DEFINE Has(n) == n <= N => \E g \in [SUBSET (1..n) -> V] : IsFold(g, n, v0, turn)
           T == {n \in Nat : Has(n)}
<1>1. 0 \in T
  <2> DEFINE g == [s \in SUBSET (1..0) |-> v0]
  <2>1. 1..0 = {}
    OBVIOUS
  <2>2. g \in [SUBSET (1..0) -> V] /\ IsFold(g, 0, v0, turn)
    BY <2>1 DEF IsFold
  <2> QED
    BY <2>2
<1>2. ASSUME NEW n \in Nat, n \in T, n + 1 <= N
      PROVE  \E g \in [SUBSET (1..(n + 1)) -> V] : IsFold(g, n + 1, v0, turn)
  <2>1. n <= N /\ n + 1 \in 1..N
    BY <1>2
  <2>2. PICK g \in [SUBSET (1..n) -> V] : IsFold(g, n, v0, turn)
    BY <1>2, <2>1
  <2> DEFINE h == [s \in SUBSET (1..(n + 1)) |->
                     IF n + 1 \in s THEN turn[<<g[s \ {n + 1}], n + 1>>] ELSE g[s]]
  <2>3. \A s \in SUBSET (1..(n + 1)) : s \ {n + 1} \in SUBSET (1..n)
    OBVIOUS
  <2>4. \A s \in SUBSET (1..(n + 1)) : n + 1 \notin s => s \in SUBSET (1..n)
    OBVIOUS
  <2>5. h \in [SUBSET (1..(n + 1)) -> V]
    BY <2>1, <2>2, <2>3, <2>4
  <2>6. ASSUME NEW s \in SUBSET (1..(n + 1)), s # {}
        PROVE  h[s] = turn[<<h[s \ {Max(s)}], Max(s)>>]
    <3>1. CASE n + 1 \in s
      <4>1. Max(s) = n + 1
        BY <3>1, MaxIs
      <4>2. h[s \ {n + 1}] = g[s \ {n + 1}]
        BY <2>3
      <4> QED
        BY <3>1, <4>1, <4>2
    <3>2. CASE n + 1 \notin s
      <4>1. s \in SUBSET (1..n)
        BY <2>4, <3>2
      <4>2. g[s] = turn[<<g[s \ {Max(s)}], Max(s)>>]
        BY <2>2, <2>6, <4>1 DEF IsFold
      <4>3. h[s] = g[s] /\ h[s \ {Max(s)}] = g[s \ {Max(s)}]
        BY <3>2
      <4> QED
        BY <4>2, <4>3
    <3> QED
      BY <3>1, <3>2
  <2>7. h[{}] = v0
    BY <2>2 DEF IsFold
  <2>8. IsFold(h, n + 1, v0, turn)
    BY <2>6, <2>7 DEF IsFold
  <2> QED
    BY <2>5, <2>8
<1>3. ASSUME NEW n \in Nat, n \in T PROVE n + 1 \in T
  <2>1. Has(n + 1)
    BY <1>2, <1>3
  <2> HIDE DEF Has
  <2> QED
    BY <2>1
<1> HIDE DEF T
<1>4. N \in T
  BY <1>1, <1>3, NatSet
<1>5. N <= N
  OBVIOUS
<1> QED
  BY <1>4, <1>5 DEF T

\* Such a fold is a loop over 1..N.
LEMMA FoldLoops ==
  ASSUME NEW N \in Nat, NEW g, NEW v0, NEW turn, IsFold(g, N, v0, turn)
  PROVE  IsLoop([i \in 0..N |-> g[1..i]], N, v0, turn)
<1> DEFINE loop == [i \in 0..N |-> g[1..i]]
<1>1. loop[0] = v0
  <2>1. 1..0 = {}
    OBVIOUS
  <2> QED
    BY <2>1 DEF IsFold
<1>2. ASSUME NEW i \in 1..N PROVE loop[i] = turn[<<loop[i - 1], i>>]
  <2>1. 1..i \in SUBSET (1..N) /\ i \in 1..i /\ i \in Nat
    OBVIOUS
  <2>2. Max(1..i) = i
    BY <2>1, MaxIs
  <2>3. (1..i) \ {i} = 1..(i - 1) /\ i - 1 \in 0..N /\ i \in 0..N
    OBVIOUS
  <2>4. g[1..i] = turn[<<g[(1..i) \ {Max(1..i)}], Max(1..i)>>]
    BY <2>1 DEF IsFold
  <2> QED
    BY <2>2, <2>3, <2>4
<1> QED
  BY <1>1, <1>2 DEF IsLoop
-----------------------------------------------------------------------------
\* The selection of a sequence's elements.

\* The equations of Select: what is kept of the first i elements.
IsKept(kept, q, keep) ==
  /\ kept[0] = <<>>
  /\ \A i \in 1..Len(q) :
       kept[i] = IF q[i] \in keep THEN Append(kept[i - 1], q[i]) ELSE kept[i - 1]

\* They have a solution, and Select is read off it.
LEMMA SelectIs ==
  ASSUME NEW S, NEW q \in Seq(S), NEW keep
  PROVE  \E kept \in [0..Len(q) -> Seq(S)] :
           IsKept(kept, q, keep) /\ Select(q, keep) = kept[Len(q)]
<1> DEFINE n == Len(q)
           Next(f) == [i \in 0..n |-> IF i = 0 THEN <<>>
                                      ELSE IF q[i] \in keep THEN Append(f[i - 1], q[i])
                                      ELSE f[i - 1]]
           kept == CHOOSE f : f = Next(f)
           turn == [p \in Seq(S) \X (1..n) |->
                      IF q[p[2]] \in keep THEN Append(p[1], q[p[2]]) ELSE p[1]]
<1>0. n \in Nat /\ \A i \in 1..n : q[i] \in S
  OBVIOUS
<1>1. turn \in [Seq(S) \X (1..n) -> Seq(S)]
  BY <1>0
<1>2. <<>> \in Seq(S)
  OBVIOUS
<1>3. PICK g \in [0..n -> Seq(S)] : IsLoop(g, n, <<>>, turn)
  BY <1>0, <1>1, <1>2, LoopExists
<1>4. ASSUME NEW i \in 1..n
      PROVE  g[i] = IF q[i] \in keep THEN Append(g[i - 1], q[i]) ELSE g[i - 1]
  <2>1. i - 1 \in 0..n
    BY <1>0
  <2>2. g[i - 1] \in Seq(S) /\ g[i] = turn[<<g[i - 1], i>>]
    BY <1>3, <2>1 DEF IsLoop
  <2> QED
    BY <2>2
<1>5. g[0] = <<>>
  BY <1>3 DEF IsLoop
<1>6. g = Next(g)
  <2>1. \A i \in 0..n : i # 0 => i \in 1..n
    BY <1>0
  <2> QED
    BY <1>4, <1>5, <2>1
<1>7. kept = Next(kept)
  BY <1>6
<1>8. Select(q, keep) = kept[n]
  BY DEF Select
<1> HIDE DEF kept
<1>9. /\ DOMAIN kept = 0..n /\ kept[0] = <<>>
      /\ \A i \in 1..n : kept[i] = IF q[i] \in keep THEN Append(kept[i - 1], q[i]) ELSE kept[i - 1]
  <2>1. 0 \in 0..n /\ \A i \in 1..n : i \in 0..n /\ i # 0
    BY <1>0
  <2> QED
    BY <1>7, <2>1
<1> DEFINE T == {i \in Nat : i <= n => kept[i] = g[i]}
<1>10. 0 \in T
  BY <1>5, <1>9
<1>11. \A i \in Nat : i \in T => i + 1 \in T
  <2> SUFFICES ASSUME NEW i \in Nat, i \in T, i + 1 <= n PROVE kept[i + 1] = g[i + 1]
    OBVIOUS
  <2>1. i + 1 \in 1..n /\ i + 1 - 1 = i /\ kept[i] = g[i]
    BY <1>0
  <2> QED
    BY <1>4, <1>9, <2>1
<1> HIDE DEF T
<1>12. n \in T
  BY <1>0, <1>10, <1>11, NatSet
<1>13. kept[n] = g[n]
  BY <1>0, <1>12 DEF T
<1>14. IsKept(g, q, keep)
  BY <1>4, <1>5 DEF IsKept
<1> QED
  BY <1>3, <1>8, <1>13, <1>14

\* The same equations have one solution only.
LEMMA SelectOnly ==
  ASSUME NEW S, NEW q \in Seq(S), NEW keep, NEW g, IsKept(g, q, keep)
  PROVE  Select(q, keep) = g[Len(q)]
<1> DEFINE n == Len(q)
<1>1. PICK kept \in [0..n -> Seq(S)] : IsKept(kept, q, keep) /\ Select(q, keep) = kept[n]
  BY SelectIs
<1> DEFINE T == {i \in Nat : i <= n => kept[i] = g[i]}
<1>2. 0 \in T
  BY <1>1 DEF IsKept
<1>3. \A i \in Nat : i \in T => i + 1 \in T
  <2> SUFFICES ASSUME NEW i \in Nat, i \in T, i + 1 <= n PROVE kept[i + 1] = g[i + 1]
    OBVIOUS
  <2>1. i + 1 \in 1..n /\ i + 1 - 1 = i /\ kept[i] = g[i]
    OBVIOUS
  <2> QED
    BY <1>1, <2>1 DEF IsKept
<1> HIDE DEF T
<1>4. n \in Nat /\ n <= n
  OBVIOUS
<1>5. n \in T
  BY <1>2, <1>3, <1>4, NatSet
<1> QED
  BY <1>1, <1>4, <1>5 DEF T

\* What is selected is of the sequence's elements.
LEMMA SelectTyped ==
  ASSUME NEW S, NEW q \in Seq(S), NEW keep
  PROVE  Select(q, keep) \in Seq(S)
<1>1. Len(q) \in 0..Len(q)
  OBVIOUS
<1>2. PICK kept \in [0..Len(q) -> Seq(S)] : IsKept(kept, q, keep) /\ Select(q, keep) = kept[Len(q)]
  BY SelectIs
<1> QED
  BY <1>1, <1>2

LEMMA SelectEmpty ==
  ASSUME NEW keep
  PROVE  Select(<<>>, keep) = <<>>
<1>1. <<>> \in Seq({}) /\ Len(<<>>) = 0
  OBVIOUS
<1>2. PICK kept \in [0..Len(<<>>) -> Seq({})] :
        IsKept(kept, <<>>, keep) /\ Select(<<>>, keep) = kept[Len(<<>>)]
  BY <1>1, SelectIs
<1> QED
  BY <1>1, <1>2 DEF IsKept

\* An element more at the end.
LEMMA SelectAppend ==
  ASSUME NEW S, NEW q \in Seq(S), NEW e \in S, NEW keep
  PROVE  Select(Append(q, e), keep) = IF e \in keep THEN Append(Select(q, keep), e)
                                      ELSE Select(q, keep)
<1> DEFINE n == Len(q)
           r == Append(q, e)
<1>1. r \in Seq(S) /\ Len(r) = n + 1 /\ n \in Nat /\ r[n + 1] = e /\ \A i \in 1..n : r[i] = q[i]
  OBVIOUS
<1> HIDE DEF r
<1>2. PICK kept \in [0..Len(r) -> Seq(S)] : IsKept(kept, r, keep) /\ Select(r, keep) = kept[Len(r)]
  BY <1>1, SelectIs
<1>3. \A i \in 1..n : i \in 1..Len(r) /\ r[i] = q[i]
  BY <1>1
<1>4. IsKept(kept, q, keep)
  BY <1>2, <1>3 DEF IsKept
<1>5. Select(q, keep) = kept[n]
  BY <1>2, <1>4, SelectOnly
<1>6. n + 1 \in 1..Len(r) /\ n + 1 - 1 = n
  BY <1>1
<1> QED
  BY <1>1, <1>2, <1>5, <1>6 DEF r, IsKept

\* Two sequences, one after the other.
LEMMA SelectConcat ==
  ASSUME NEW S, NEW p \in Seq(S), NEW q \in Seq(S), NEW keep
  PROVE  Select(p \o q, keep) = Select(p, keep) \o Select(q, keep)
<1> DEFINE n == Len(q)
           Part(i) == SubSeq(q, 1, i)
           T == {i \in Nat : i <= n =>
                   Select(p \o Part(i), keep) = Select(p, keep) \o Select(Part(i), keep)}
<1>0. n \in Nat /\ Part(0) = <<>> /\ Part(n) = q /\ \A i \in 0..n : Part(i) \in Seq(S)
  OBVIOUS
<1>1. 0 \in T
  <2>1. p \o <<>> = p /\ Select(p, keep) \o <<>> = Select(p, keep)
    BY SelectTyped
  <2> QED
    BY <1>0, <2>1, SelectEmpty
<1>2. ASSUME NEW i \in Nat, i \in T, i + 1 <= n PROVE i + 1 \in T
  <2> DEFINE a == Select(p, keep)
             b == Select(Part(i), keep)
             e == q[i + 1]
  <2>1. i <= n /\ i \in 0..n /\ e \in S /\ Part(i) \in Seq(S)
    BY <1>0, <1>2
  <2>2. Part(i + 1) = Append(Part(i), e)
    BY <1>0, <1>2
  <2>3. p \o Part(i + 1) = Append(p \o Part(i), e) /\ p \o Part(i) \in Seq(S)
    BY <2>1, <2>2
  <2>4. Select(p \o Part(i), keep) = a \o b
    BY <1>2, <2>1
  <2>5. a \in Seq(S) /\ b \in Seq(S)
    BY <2>1, SelectTyped
  <2> HIDE DEF e, Part, a, b
  <2>6. Select(Append(p \o Part(i), e), keep) =
          IF e \in keep THEN Append(Select(p \o Part(i), keep), e) ELSE Select(p \o Part(i), keep)
    BY <2>1, <2>3, SelectAppend
  <2>7. Select(Append(Part(i), e), keep) = IF e \in keep THEN Append(b, e) ELSE b
    BY <2>1, SelectAppend DEF b
  <2>8. Append(a \o b, e) = a \o Append(b, e)
    <3> DEFINE l == Append(a \o b, e)
               r == a \o Append(b, e)
    <3>1. /\ l \in Seq(S) /\ Len(l) = Len(a) + Len(b) + 1
          /\ r \in Seq(S) /\ Len(r) = Len(a) + Len(b) + 1
      BY <2>1, <2>5
    <3>2. \A j \in 1..Len(l) : l[j] = r[j]
      BY <2>1, <2>5
    <3> HIDE DEF l, r
    <3>3. l = r
      BY <3>1, <3>2, SeqEqual
    <3> QED
      BY <3>3 DEF l, r
  <2>9. Select(p \o Part(i + 1), keep) = a \o Select(Part(i + 1), keep)
    BY <2>2, <2>3, <2>4, <2>6, <2>7, <2>8
  <2> QED
    BY <1>2, <2>9 DEF a
<1>3. \A i \in Nat : i \in T => i + 1 \in T
  <2> SUFFICES ASSUME NEW i \in Nat, i \in T PROVE i + 1 \in T
    OBVIOUS
  <2>1. CASE i + 1 <= n
    BY <1>2, <2>1
  <2>2. CASE ~ (i + 1 <= n)
    BY <2>2
  <2> QED
    BY <2>1, <2>2
<1> HIDE DEF T
<1>4. n \in T
  BY <1>0, <1>1, <1>3, NatSet
<1>5. Select(p \o Part(n), keep) = Select(p, keep) \o Select(Part(n), keep)
  BY <1>0, <1>4 DEF T
<1> QED
  BY <1>0, <1>5

\* An element more in front.
LEMMA SelectHead ==
  ASSUME NEW S, NEW q \in Seq(S), NEW e \in S, NEW keep
  PROVE  Select(<<e>> \o q, keep) = IF e \in keep THEN <<e>> \o Select(q, keep)
                                    ELSE Select(q, keep)
<1>1. <<e>> = Append(<<>>, e) /\ <<>> \in Seq(S) /\ <<e>> \in Seq(S)
  OBVIOUS
<1>2. Select(<<e>>, keep) = IF e \in keep THEN <<e>> ELSE <<>>
  <2>1. Select(Append(<<>>, e), keep) =
          IF e \in keep THEN Append(Select(<<>>, keep), e) ELSE Select(<<>>, keep)
    BY <1>1, SelectAppend
  <2> QED
    BY <1>1, <2>1, SelectEmpty
<1>3. Select(<<e>> \o q, keep) = Select(<<e>>, keep) \o Select(q, keep)
  <2> DEFINE one == <<e>>
  <2>1. one \in Seq(S)
    BY <1>1
  <2> HIDE DEF one
  <2>2. Select(one \o q, keep) = Select(one, keep) \o Select(q, keep)
    BY <2>1, SelectConcat
  <2> QED
    BY <2>2 DEF one
<1>4. <<>> \o Select(q, keep) = Select(q, keep)
  BY SelectTyped
<1> QED
  BY <1>2, <1>3, <1>4

\* What is selected satisfies keep and is of the sequence, and no key appears
\* twice in it that does not in the sequence.
Distinct(q, key) == \A i, j \in DOMAIN q : key[q[i]] = key[q[j]] => i = j

Drawn(r, q, keep) ==
  \A i \in DOMAIN r : r[i] \in keep /\ \E j \in DOMAIN q : q[j] = r[i]

LEMMA SelectDistinct ==
  ASSUME NEW S, NEW q \in Seq(S), NEW keep, NEW key, Distinct(q, key)
  PROVE  Distinct(Select(q, keep), key) /\ Drawn(Select(q, keep), q, keep)
<1> DEFINE n == Len(q)
           Of(r, i) == \A a \in DOMAIN r : r[a] \in keep /\ \E j \in 1..i : q[j] = r[a]
           good == {p \in (0..n) \X Seq(S) : Distinct(p[2], key) /\ Of(p[2], p[1])}
<1>0. n \in Nat /\ DOMAIN q = 1..n /\ \A i \in 1..n : q[i] \in S
  OBVIOUS
<1>1. PICK kept \in [0..n -> Seq(S)] : IsKept(kept, q, keep) /\ Select(q, keep) = kept[n]
  BY SelectIs
<1>2. <<0, kept[0]>> \in good
  <2>1. kept[0] = <<>> /\ kept[0] \in Seq(S) /\ DOMAIN <<>> = {}
    BY <1>0, <1>1 DEF IsKept
  <2> QED
    BY <1>0, <2>1 DEF Distinct
<1>3. ASSUME NEW i \in 1..n, <<i - 1, kept[i - 1]>> \in good
      PROVE  <<i, kept[i]>> \in good
  <2> DEFINE r == kept[i - 1]
  <2>1. r \in Seq(S) /\ Distinct(r, key) /\ Of(r, i - 1) /\ i \in 0..n
    BY <1>0, <1>3
  <2>2. kept[i] = IF q[i] \in keep THEN Append(r, q[i]) ELSE r
    BY <1>1 DEF IsKept
  <2> HIDE DEF r
  <2>3. \A j \in 1..(i - 1) : j \in 1..i /\ j \in 1..n /\ j # i
    BY <1>0
  <2>4. CASE q[i] \notin keep
    <3>1. Of(r, i)
      BY <2>1, <2>3
    <3> QED
      BY <2>1, <2>2, <2>4, <3>1
  <2>5. CASE q[i] \in keep
    <3> DEFINE l == Append(r, q[i])
               m == Len(r)
    <3>1. /\ l \in Seq(S) /\ m \in Nat /\ DOMAIN l = 1..(m + 1) /\ DOMAIN r = 1..m
          /\ l[m + 1] = q[i] /\ \A a \in 1..m : l[a] = r[a]
      BY <1>0, <2>1
    <3> HIDE DEF l, m
    <3>2. \A a \in 1..(m + 1) : a = m + 1 \/ a \in 1..m
      BY <3>1
    <3>3. Of(l, i)
      <4> SUFFICES ASSUME NEW a \in 1..(m + 1)
                   PROVE  l[a] \in keep /\ \E j \in 1..i : q[j] = l[a]
        BY <3>1
      <4>1. CASE a = m + 1
        <5>1. i \in 1..i
          BY <1>0
        <5> QED
          BY <2>5, <3>1, <4>1, <5>1
      <4>2. CASE a \in 1..m
        BY <2>1, <2>3, <3>1, <4>2
      <4> QED
        BY <3>2, <4>1, <4>2
    <3>4. ASSUME NEW a \in 1..m PROVE key[r[a]] # key[q[i]]
      <4>1. PICK j \in 1..(i - 1) : q[j] = r[a]
        BY <2>1, <3>1
      <4>2. j \in DOMAIN q /\ i \in DOMAIN q /\ j # i
        BY <1>0, <2>3
      <4>3. key[q[j]] # key[q[i]]
        BY <4>2 DEF Distinct
      <4> QED
        BY <4>1, <4>3
    <3>5. Distinct(l, key)
      <4> SUFFICES ASSUME NEW a \in 1..(m + 1), NEW b \in 1..(m + 1), key[l[a]] = key[l[b]]
                   PROVE  a = b
        BY <3>1 DEF Distinct
      <4>1. CASE a \in 1..m /\ b \in 1..m
        <5>1. a \in DOMAIN r /\ b \in DOMAIN r /\ l[a] = r[a] /\ l[b] = r[b]
          BY <3>1, <4>1
        <5>2. key[r[a]] = key[r[b]]
          BY <5>1
        <5> QED
          BY <2>1, <5>1, <5>2 DEF Distinct
      <4>2. CASE a = m + 1 /\ b \in 1..m
        BY <3>1, <3>4, <4>2
      <4>3. CASE a \in 1..m /\ b = m + 1
        BY <3>1, <3>4, <4>3
      <4> QED
        BY <3>2, <4>1, <4>2, <4>3
    <3>6. kept[i] = l
      BY <2>2, <2>5 DEF l
    <3> QED
      BY <2>1, <3>1, <3>3, <3>5, <3>6
  <2> QED
    BY <2>4, <2>5
<1> HIDE DEF good
<1>4. \A i \in 0..n : <<i, kept[i]>> \in good
  BY <1>0, <1>2, <1>3, LoopInvariant
<1>5. <<n, kept[n]>> \in good
  BY <1>0, <1>4
<1>6. Distinct(kept[n], key) /\ Of(kept[n], n)
  BY <1>5 DEF good
<1> QED
  BY <1>0, <1>1, <1>6 DEF Drawn

-----------------------------------------------------------------------------
\* Sequences that are each given another one, joined.
Joint(m, q) == FlattenSeq([i \in DOMAIN q |-> m[q[i]]])

\* x begins with a, and b is the rest.
IsJoined(x, a, c) == x = a \o c

LEMMA JointType ==
  ASSUME NEW S, NEW X, NEW m \in [S -> Seq(X)], NEW q \in Seq(S)
  PROVE  Joint(m, q) \in Seq(X)
<1>1. [i \in DOMAIN q |-> m[q[i]]] \in Seq(Seq(X))
  <2>1. DOMAIN q = 1..Len(q) /\ Len(q) \in Nat /\ \A i \in 1..Len(q) : q[i] \in S
    OBVIOUS
  <2>2. \A i \in 1..Len(q) : m[q[i]] \in Seq(X)
    BY <2>1
  <2> QED
    BY <2>1, <2>2
<1> QED
  BY <1>1, FlattenType DEF Joint

LEMMA JointEmpty ==
  ASSUME NEW m
  PROVE  Joint(m, <<>>) = <<>>
<1> DEFINE none == <<>>
           x == [i \in DOMAIN none |-> m[none[i]]]
<1>1. x = <<>>
  <2>1. DOMAIN none = 1..0
    OBVIOUS
  <2> HIDE DEF none
  <2>2. x \in Seq({}) /\ Len(x) = 0
    BY <2>1
  <2> HIDE DEF x
  <2> QED
    BY <2>2
<1> QED
  BY <1>1, FlattenEmpty DEF Joint

LEMMA JointHead ==
  ASSUME NEW S, NEW X, NEW m \in [S -> Seq(X)], NEW p \in S, NEW q \in Seq(S)
  PROVE  IsJoined(Joint(m, <<p>> \o q), m[p], Joint(m, q))
<1> DEFINE r == <<p>> \o q
           of == [i \in DOMAIN q |-> m[q[i]]]
           all == [i \in DOMAIN r |-> m[r[i]]]
           here == m[p]
           both == <<here>> \o of
<1>1. /\ r \in Seq(S) /\ Len(r) = Len(q) + 1 /\ r[1] = p /\ Len(q) \in Nat
      /\ \A i \in 2..Len(r) : r[i] = q[i - 1] /\ i - 1 \in DOMAIN q
      /\ DOMAIN r = 1..(Len(q) + 1) /\ DOMAIN q = 1..Len(q)
  OBVIOUS
<1> HIDE DEF r
<1>2. here \in Seq(X) /\ of \in Seq(Seq(X)) /\ Len(of) = Len(q)
  BY <1>1
<1>3. all \in Seq(Seq(X)) /\ Len(all) = Len(q) + 1
  BY <1>1
<1>4. both \in Seq(Seq(X)) /\ Len(both) = Len(q) + 1 /\ both[1] = here
      /\ \A i \in 2..(Len(q) + 1) : both[i] = of[i - 1]
  <2> HIDE DEF here, of
  <2> QED
    BY <1>1, <1>2
<1>5. ASSUME NEW i \in 1..(Len(q) + 1) PROVE all[i] = both[i]
  <2>1. all[i] = m[r[i]]
    BY <1>1
  <2>2. CASE i = 1
    BY <1>1, <1>4, <2>1, <2>2
  <2>3. CASE i # 1
    <3>1. i \in 2..(Len(q) + 1) /\ r[i] = q[i - 1] /\ i - 1 \in DOMAIN q
      BY <1>1, <2>3
    <3>2. of[i - 1] = m[q[i - 1]]
      BY <3>1
    <3> HIDE DEF of, all, both
    <3> QED
      BY <1>4, <2>1, <3>1, <3>2
  <2> QED
    BY <2>2, <2>3
<1> HIDE DEF all, both
<1>6. all = both
  BY <1>3, <1>4, <1>5, SeqEqual
<1>7. Joint(m, r) = FlattenSeq(both)
  BY <1>6 DEF Joint, all
<1>8. Joint(m, q) = FlattenSeq(of)
  BY DEF Joint
<1> HIDE DEF here, of
<1>9. FlattenSeq(<<here>> \o of) = here \o FlattenSeq(of)
  BY <1>2, FlattenHead
<1> QED
  BY <1>7, <1>8, <1>9, Zenon DEF r, both, here, IsJoined

\* A cut anywhere in a part of a sequence.
LEMMA Cut ==
  ASSUME NEW S, NEW s \in Seq(S), NEW n \in 0..Len(s), NEW i \in 1..(n + 1),
         NEW e \in i..(n + 1)
  PROVE  IsJoined(SubSeq(s, i, n), SubSeq(s, i, e - 1), SubSeq(s, e, n))
<1> DEFINE x == SubSeq(s, i, n)
           a == SubSeq(s, i, e - 1)
           c == SubSeq(s, e, n)
           l == a \o c
<1>1. n \in Nat /\ n <= Len(s) /\ i \in Nat \ {0} /\ e \in Nat \ {0} /\ i <= e /\ e <= n + 1
  OBVIOUS
<1>2. /\ x \in Seq(S) /\ Len(x) = n + 1 - i /\ \A j \in 1..(n + 1 - i) : x[j] = s[i + j - 1]
      /\ a \in Seq(S) /\ Len(a) = e - i /\ \A j \in 1..(e - i) : a[j] = s[i + j - 1]
      /\ c \in Seq(S) /\ Len(c) = n + 1 - e /\ \A j \in 1..(n + 1 - e) : c[j] = s[e + j - 1]
  BY <1>1
<1> HIDE DEF x, a, c
<1>3. /\ l \in Seq(S) /\ Len(l) = Len(a) + Len(c)
      /\ \A j \in 1..Len(l) : l[j] = IF j <= Len(a) THEN a[j] ELSE c[j - Len(a)]
  <2>1. a \in Seq(S) /\ c \in Seq(S)
    BY <1>2
  <2> QED
    BY <2>1
<1> HIDE DEF l
<1>4. ASSUME NEW j \in 1..(n + 1 - i) PROVE l[j] = x[j]
  <2>1. CASE j <= e - i
    BY <1>1, <1>2, <1>3, <2>1
  <2>2. CASE ~ (j <= e - i)
    <3>1. j - (e - i) \in 1..(n + 1 - e) /\ e + (j - (e - i)) - 1 = i + j - 1
      BY <1>1, <2>2
    <3>2. c[j - (e - i)] = s[e + (j - (e - i)) - 1]
      BY <1>2, <3>1
    <3> QED
      BY <1>1, <1>2, <1>3, <2>2, <3>1, <3>2
  <2> QED
    BY <2>1, <2>2
<1>5. x = l
  <2>1. Len(x) = n + 1 - i /\ Len(l) = n + 1 - i
    BY <1>1, <1>2, <1>3
  <2>2. x \in Seq(S) /\ l \in Seq(S) /\ \A j \in 1..Len(x) : x[j] = l[j]
    BY <1>2, <1>3, <1>4, <2>1
  <2> QED
    BY <2>1, <2>2, SeqEqual
<1> QED
  BY <1>5 DEF x, a, c, l, IsJoined

\* Sequences that are not empty give at least one element each.
LEMMA FlattenLonger ==
  ASSUME NEW S, NEW seqs \in Seq(Seq(S)), \A i \in DOMAIN seqs : Len(seqs[i]) >= 1
  PROVE  Len(FlattenSeq(seqs)) >= Len(seqs)
<1> DEFINE n == Len(seqs)
<1>1. PICK g \in [0..n -> Seq(S)] : IsFlat(g, seqs) /\ FlattenSeq(seqs) = g[n]
  BY FlattenIs
<1> DEFINE T == {i \in Nat : i <= n => Len(g[i]) >= i}
<1>2. 0 \in T
  <2>1. g[0] = <<>> /\ Len(<<>>) = 0
    BY <1>1 DEF IsFlat
  <2> QED
    BY <2>1
<1>3. \A i \in Nat : i \in T => i + 1 \in T
  <2> SUFFICES ASSUME NEW i \in Nat, i \in T, i + 1 <= n PROVE Len(g[i + 1]) >= i + 1
    OBVIOUS
  <2> DEFINE j == i + 1
             x == g[i]
             y == seqs[j]
  <2>1. j \in 1..n /\ j - 1 = i /\ i \in 0..n /\ Len(g[i]) >= i
    OBVIOUS
  <2> HIDE DEF j
  <2>2. x \in Seq(S) /\ y \in Seq(S) /\ Len(y) >= 1
    <3>1. DOMAIN seqs = 1..n
      OBVIOUS
    <3>2. x \in Seq(S)
      BY <1>1, <2>1
    <3>3. y \in Seq(S)
      BY <2>1
    <3> QED
      BY <2>1, <3>1, <3>2, <3>3
  <2>3. g[j] = g[j - 1] \o y
    BY <1>1, <2>1, Zenon DEF IsFlat
  <2>4. g[j] = x \o y
    BY <2>1, <2>3, Zenon
  <2>5. Len(x) >= i
    BY <2>1
  <2> HIDE DEF x, y
  <2>6. Len(x \o y) = Len(x) + Len(y) /\ Len(x) \in Nat /\ Len(y) \in Nat
    BY <2>2
  <2>7. Len(g[j]) >= j
    BY <2>2, <2>4, <2>5, <2>6 DEF j
  <2> QED
    BY <2>7 DEF j
<1> HIDE DEF T
<1>4. n \in Nat /\ n <= n
  OBVIOUS
<1>5. n \in T
  BY <1>2, <1>3, <1>4, NatSet
<1> QED
  BY <1>1, <1>4, <1>5 DEF T

\* Sequences of one element each give those elements.
LEMMA FlattenSingles ==
  ASSUME NEW S, NEW s \in Seq(S)
  PROVE  FlattenSeq([i \in DOMAIN s |-> <<s[i]>>]) = s
<1> DEFINE n == Len(s)
           seqs == [i \in DOMAIN s |-> <<s[i]>>]
           h == [i \in 0..n |-> SubSeq(s, 1, i)]
<1>1. n \in Nat /\ seqs \in Seq(Seq(S)) /\ Len(seqs) = n /\ \A i \in 1..n : seqs[i] = <<s[i]>>
  <2>1. DOMAIN s = 1..n /\ n \in Nat
    OBVIOUS
  <2>2. \A i \in 1..n : <<s[i]>> \in Seq(S)
    OBVIOUS
  <2> QED
    BY <2>1, <2>2
<1> HIDE DEF seqs
<1>2. h[0] = <<>> /\ h[n] = s
  BY <1>1
<1>3. ASSUME NEW i \in 1..n PROVE h[i] = h[i - 1] \o seqs[i]
  <2> DEFINE l == SubSeq(s, 1, i)
             a == SubSeq(s, 1, i - 1)
             c == <<s[i]>>
             r == a \o c
  <2>1. /\ l \in Seq(S) /\ Len(l) = i /\ \A j \in 1..i : l[j] = s[j]
        /\ a \in Seq(S) /\ Len(a) = i - 1 /\ \A j \in 1..(i - 1) : a[j] = s[j]
        /\ c \in Seq(S) /\ Len(c) = 1 /\ c[1] = s[i]
    BY <1>1
  <2> HIDE DEF l, a, c
  <2>2. /\ r \in Seq(S) /\ Len(r) = Len(a) + Len(c)
        /\ \A j \in 1..Len(r) : r[j] = IF j <= Len(a) THEN a[j] ELSE c[j - Len(a)]
    <3>1. a \in Seq(S) /\ c \in Seq(S)
      BY <2>1
    <3> QED
      BY <3>1
  <2> HIDE DEF r
  <2>3. \A j \in 1..i : r[j] = l[j]
    <3> SUFFICES ASSUME NEW j \in 1..i PROVE r[j] = l[j]
      OBVIOUS
    <3>1. j \in 1..Len(r)
      BY <1>1, <2>1, <2>2
    <3>2. CASE j <= i - 1
      BY <1>1, <2>1, <2>2, <3>1, <3>2
    <3>3. CASE ~ (j <= i - 1)
      <4>1. j = i /\ j - (i - 1) = 1
        BY <1>1, <3>3
      <4>2. r[j] = c[j - (i - 1)]
        BY <2>1, <2>2, <3>1, <3>3
      <4> QED
        BY <2>1, <4>1, <4>2
    <3> QED
      BY <3>2, <3>3
  <2>4. Len(r) = i /\ Len(l) = i
    BY <1>1, <2>1, <2>2
  <2>5. l = r
    BY <2>1, <2>2, <2>3, <2>4, SeqEqual
  <2>6. h[i] = l /\ h[i - 1] = a /\ seqs[i] = c
    <3>1. i \in 0..n /\ i - 1 \in 0..n
      BY <1>1
    <3> QED
      BY <1>1, <3>1, Zenon DEF l, a, c
  <2> HIDE DEF h
  <2> QED
    BY <2>5, <2>6, Zenon DEF r
<1>4. IsFlat(h, seqs)
  <2> HIDE DEF h
  <2> QED
    BY <1>1, <1>2, <1>3, Zenon DEF IsFlat
<1> HIDE DEF h
<1>5. FlattenSeq(seqs) = h[n]
  BY <1>1, <1>4, FlattenOnly
<1> QED
  BY <1>2, <1>5 DEF seqs
=============================================================================
