----------------------------- MODULE Inductions -----------------------------
(***************************************************************************)
(* Induction over the natural numbers, and what the folds of SequencesExt  *)
(* compute, in a form the provers can use: about sets and functions, and   *)
(* never about an operator.  To prove P(n) of every n, cite Inductive for  *)
(* the set {n \in Nat : P(n)}.                                             *)
(***************************************************************************)
EXTENDS Integers, SequencesExt, SequenceTheorems, WellFoundedInduction, TLAPS

LEMMA LeastNatural ==
  ASSUME NEW T, T \subseteq Nat, T # {}
  PROVE  \E n \in T : \A m \in T : n <= m
<1> DEFINE R == {ss \in Nat \X Nat : ss[1] < ss[2]}
<1>1. IsWellFoundedOn(R, Nat)
  BY NatLessThanWellFounded DEF OpToRel
<1> HIDE DEF R
<1>2. PICK n \in T : \A m \in T : ~ (<<m, n>> \in R)
  BY <1>1, WFMin
<1>3. ASSUME NEW m \in T, m < n PROVE FALSE
  <2>1. <<m, n>> \in Nat \X Nat /\ <<m, n>>[1] = m /\ <<m, n>>[2] = n
    OBVIOUS
  <2>2. <<m, n>> \in R
    BY <1>3, <2>1 DEF R
  <2>3. QED BY <1>2, <2>2
<1>4. \A m \in T : m \in Int /\ n \in Int /\ ~(m < n)
  BY <1>3
<1>5. QED BY <1>4

LEMMA Inductive ==
  ASSUME NEW T, 0 \in T, \A n \in Nat : n \in T => n + 1 \in T
  PROVE  Nat \subseteq T
<1> SUFFICES ASSUME Nat \ T # {} PROVE FALSE
  OBVIOUS
<1>1. PICK n \in Nat \ T : \A m \in Nat \ T : n <= m
  BY LeastNatural
<1>2. n \in Nat /\ n # 0 /\ n - 1 \in Nat /\ n - 1 < n /\ (n - 1) + 1 = n
  BY <1>1
<1>3. n - 1 \in T
  BY <1>1, <1>2
<1>4. QED BY <1>1, <1>2, <1>3

LEMMA MaxOf ==
  ASSUME NEW n \in Nat, NEW s \in SUBSET (1..n), s # {}
  PROVE  /\ Max(s) \in s /\ \A m \in s : m <= Max(s)
         /\ \A x \in s : (\A m \in s : m <= x) => Max(s) = x
<1> DEFINE T == {k \in Nat : \E m \in s : k = n - m}
<1>1. PICK z \in s : TRUE
  OBVIOUS
<1>2. z \in Int /\ n - z \in Nat
  OBVIOUS
<1>3. T \subseteq Nat /\ T # {}
  BY <1>2
<1>4. PICK k \in T : \A m \in T : k <= m
  BY <1>3, LeastNatural
<1>5. PICK x \in s : k = n - x
  OBVIOUS
<1>6. \A m \in s : n - m \in Nat /\ m \in Int
  OBVIOUS
<1>7. \A m \in s : n - x <= n - m
  BY <1>4, <1>5, <1>6
<1>8. \A m \in s : x >= m
  BY <1>6, <1>7
<1>9. Max(s) \in s /\ \A m \in s : Max(s) >= m
  BY <1>8 DEF Max
<1>10. ASSUME NEW y \in s, \A m \in s : m <= y PROVE Max(s) = y
  <2>1. Max(s) <= y /\ Max(s) >= y /\ Max(s) \in Int /\ y \in Int
    BY <1>6, <1>9, <1>10
  <2>2. QED BY <2>1
<1>11. \A m \in s : m <= Max(s)
  BY <1>6, <1>9
<1>12. QED BY <1>9, <1>10, <1>11

LEMMA MinOf ==
  ASSUME NEW s, s \subseteq Nat, s # {}
  PROVE  Min(s) \in s /\ \A m \in s : Min(s) <= m
<1>1. \E x \in s : \A m \in s : x <= m
  BY LeastNatural
<1>2. QED BY <1>1 DEF Min

\* g solves the equations of a fold from the left over n elements, with
\* values in D.
Folding(g, n, D, base, step) ==
  /\ g \in [SUBSET (1..n) -> D]
  /\ \A s \in SUBSET (1..n) :
       g[s] = IF s = {} THEN base ELSE step[Max(s)][g[s \ {Max(s)}]]

\* The equations have a solution, when the values stay in D.
LEMMA FoldSolved ==
  ASSUME NEW n \in Nat, NEW D, NEW base \in D, NEW step \in [1..n -> [D -> D]]
  PROVE  \E g : Folding(g, n, D, base, step)
<1> DEFINE Solves(g, s) == g[s] = IF s = {} THEN base ELSE step[Max(s)][g[s \ {Max(s)}]]
           Solved(k) == \E g \in [SUBSET (1..k) -> D] :
                          \A s \in SUBSET (1..k) : Solves(g, s)
           T == {k \in Nat : k <= n => Solved(k)}
<1>1. Solved(0)
  <2>1. 1..0 = {}
    OBVIOUS
  <2>2. \A s \in SUBSET (1..0) : s = {}
    BY <2>1
  <2>3. [s \in SUBSET (1..0) |-> base] \in [SUBSET (1..0) -> D]
    OBVIOUS
  <2>4. QED BY <2>2, <2>3
<1>2. ASSUME NEW k \in Nat, k + 1 <= n, Solved(k) PROVE Solved(k + 1)
  <2>1. PICK g \in [SUBSET (1..k) -> D] : \A s \in SUBSET (1..k) : Solves(g, s)
    BY <1>2
  <2>2. k + 1 \in 1..n /\ k + 1 \in 1..k+1 /\ step[k+1] \in [D -> D]
    BY <1>2
  <2>3. \A s \in SUBSET (1..k+1) : s \ {k+1} \in SUBSET (1..k)
    OBVIOUS
  <2> DEFINE h == [s \in SUBSET (1..k+1) |->
                     IF k+1 \in s THEN step[k+1][g[s \ {k+1}]] ELSE g[s]]
  <2>4. \A s \in SUBSET (1..k+1) : k+1 \notin s => s \in SUBSET (1..k)
    OBVIOUS
  <2>5. h \in [SUBSET (1..k+1) -> D]
    BY <2>2, <2>3, <2>4
  <2>6. ASSUME NEW s \in SUBSET (1..k+1) PROVE Solves(h, s)
    <3>1. CASE k+1 \in s
      <4>1. Max(s) = k+1
        <5>1. k+1 \in Nat /\ s # {} /\ \A m \in s : m <= k+1
          BY <3>1
        <5>2. QED BY <3>1, <5>1, MaxOf
      <4>2. s \ {k+1} \in SUBSET (1..k) /\ s \ {k+1} \in SUBSET (1..k+1) /\ k+1 \notin s \ {k+1}
        BY <2>3
      <4>3. h[s \ {k+1}] = g[s \ {k+1}]
        BY <4>2
      <4>4. h[s] = step[k+1][g[s \ {k+1}]]
        BY <3>1
      <4> HIDE DEF h
      <4>5. QED BY <3>1, <4>1, <4>3, <4>4
    <3>2. CASE k+1 \notin s
      <4>1. s \in SUBSET (1..k) /\ h[s] = g[s] /\ Solves(g, s)
        BY <2>1, <2>4, <3>2
      <4>2. CASE s = {}
        BY <4>1, <4>2
      <4>3. CASE s # {}
        <5>1. s \ {Max(s)} \in SUBSET (1..k) /\ s \ {Max(s)} \in SUBSET (1..k+1)
          BY <4>1
        <5>2. h[s \ {Max(s)}] = g[s \ {Max(s)}]
          BY <3>2, <5>1
        <5> HIDE DEF h
        <5>3. QED BY <4>1, <4>3, <5>2
      <4>4. QED BY <4>2, <4>3
    <3>3. QED BY <3>1, <3>2
  <2> HIDE DEF h
  <2>7. QED BY <2>5, <2>6
<1>3. Solved(n)
  <2> HIDE DEF Solved
  <2>1. 0 \in T /\ \A k \in Nat : k \in T => k + 1 \in T
    BY <1>1, <1>2
  <2> HIDE DEF T
  <2>2. n \in T
    BY <2>1, Inductive
  <2>3. QED BY <2>2 DEF T
<1>4. QED BY <1>3 DEF Folding

\* A solution, taken at 1..k, is what is computed after k elements.
LEMMA FoldSteps ==
  ASSUME NEW n \in Nat, NEW k \in 1..n
  PROVE  /\ 1..k # {} /\ 1..k \in SUBSET (1..n)
         /\ Max(1..k) = k /\ (1..k) \ {Max(1..k)} = 1..k-1
<1>1. 1..k \in SUBSET (1..n) /\ k \in 1..k /\ \A m \in 1..k : m <= k
  OBVIOUS
<1>2. Max(1..k) = k
  BY <1>1, MaxOf
<1>3. QED BY <1>1, <1>2

\* Values that pass from E[k-1] to E[k] at every step end up in E[n].
LEMMA StepsStay ==
  ASSUME NEW n \in Nat, NEW g, NEW E, g[0] \in E[0],
         \A k \in 1..n : g[k-1] \in E[k-1] => g[k] \in E[k]
  PROVE  \A k \in 0..n : g[k] \in E[k]
<1> DEFINE T == {k \in Nat : k <= n => g[k] \in E[k]}
<1>1. 0 \in T
  OBVIOUS
<1>2. ASSUME NEW k \in Nat, k \in T PROVE k + 1 \in T
  <2>1. CASE k + 1 <= n
    <3>1. k + 1 \in 1..n /\ (k + 1) - 1 = k
      BY <2>1
    <3>2. g[k] \in E[k]
      BY <1>2, <2>1
    <3>3. QED BY <3>1, <3>2
  <2>2. CASE ~(k + 1 <= n)
    BY <2>2
  <2>3. QED BY <2>1, <2>2
<1> HIDE DEF T
<1>3. Nat \subseteq T
  BY <1>1, <1>2, Inductive
<1>4. QED BY <1>3 DEF T

\* The same for a fold, whose solution g is taken at 1..k after k elements.
LEMMA FoldStays ==
  ASSUME NEW n \in Nat, NEW g, NEW E, g[{}] \in E[0],
         \A k \in 1..n : g[1..k-1] \in E[k-1] => g[1..k] \in E[k]
  PROVE  g[1..n] \in E[n]
<1> DEFINE h == [k \in 0..n |-> g[1..k]]
<1>1. h[0] \in E[0]
  <2>1. 1..0 = {}
    OBVIOUS
  <2>2. QED BY <2>1
<1>2. \A k \in 1..n : h[k] = g[1..k] /\ h[k-1] = g[1..k-1]
  OBVIOUS
<1>3. h[n] = g[1..n]
  OBVIOUS
<1> HIDE DEF h
<1>4. \A k \in 0..n : h[k] \in E[k]
  BY <1>1, <1>2, StepsStay
<1>5. QED BY <1>3, <1>4

LEMMA FoldStaysIn ==
  ASSUME NEW n \in Nat, NEW g, NEW D, g[{}] \in D,
         \A k \in 1..n : g[1..k-1] \in D => g[1..k] \in D
  PROVE  g[1..n] \in D
<1> DEFINE E == [k \in 0..n |-> D]
<1>1. \A k \in 0..n : E[k] = D
  OBVIOUS
<1>2. n \in 0..n /\ 0 \in 0..n /\ \A k \in 1..n : k \in 0..n /\ k-1 \in 0..n
  OBVIOUS
<1> HIDE DEF E
<1>3. g[{}] \in E[0] /\ \A k \in 1..n : g[1..k-1] \in E[k-1] => g[1..k] \in E[k]
  BY <1>1, <1>2
<1>4. g[1..n] \in E[n]
  BY <1>3, FoldStays
<1>5. QED BY <1>1, <1>2, <1>4

\* FlattenSeq, as a function of the prefixes of q.
LEMMA FlattenFold ==
  ASSUME NEW S, NEW q \in Seq(Seq(S))
  PROVE  \E h : /\ h[0] = <<>> /\ (q # <<>> => h[Len(q)] = FlattenSeq(q))
                /\ \A k \in 1..Len(q) : h[k] = h[k-1] \o q[k]
                /\ \A k \in 0..Len(q) : h[k] \in Seq(S)
<1> DEFINE L == Len(q)
           D == Seq(S)
           step == [i \in 1..L |-> [e \in D |-> e \o q[i]]]
           R == FlattenSeq(q)
           Eq(f) == f = [i \in 1..L |-> IF i = 1 THEN q[i] ELSE f[i-1] \o q[i]]
<1>1. L \in Nat /\ \A i \in 1..L : q[i] \in D
  OBVIOUS
<1>2. <<>> \in D /\ step \in [1..L -> [D -> D]]
      /\ \A i \in 1..L, e \in D : step[i][e] = e \o q[i]
  BY <1>1
<1>3. q # <<>> => R = (CHOOSE f : Eq(f))[L]
  BY EmptySeq DEF FlattenSeq
<1> HIDE DEF step, D, R
<1>4. PICK g : Folding(g, L, D, <<>>, step)
  BY <1>1, <1>2, FoldSolved
<1> DEFINE h == [k \in 0..L |-> g[1..k]]
<1>5. h[0] = <<>>
  <2>1. 1..0 = {} /\ {} \in SUBSET (1..L)
    OBVIOUS
  <2>2. h[0] = g[1..0]
    BY <1>1
  <2>3. g[{}] = <<>>
    BY <1>4, <2>1 DEF Folding
  <2> QED BY <2>1, <2>2, <2>3
<1>6. \A k \in 0..L : h[k] = g[1..k] /\ h[k] \in D
  <2>1. \A k \in 0..L : 1..k \in SUBSET (1..L)
    BY <1>1
  <2> QED BY <1>4, <2>1 DEF Folding
<1>7. ASSUME NEW k \in 1..L PROVE h[k] = h[k-1] \o q[k]
  <2>1. 1..k # {} /\ 1..k \in SUBSET (1..L) /\ Max(1..k) = k /\ (1..k) \ {Max(1..k)} = 1..k-1
    BY <1>1, FoldSteps
  <2>2. g[1..k] = step[k][g[1..k-1]]
    BY <1>4, <2>1 DEF Folding
  <2>3. k - 1 \in 0..L /\ k \in 0..L
    BY <1>1
  <2>4. h[k] = g[1..k] /\ h[k-1] = g[1..k-1] /\ h[k-1] \in D
    BY <1>6, <2>3
  <2> QED BY <1>2, <2>2, <2>4
<1> HIDE DEF h
<1>8. \E f : Eq(f)
  <2> DEFINE f == [i \in 1..L |-> h[i]]
  <2>1. \A i \in 1..L : f[i] = IF i = 1 THEN q[i] ELSE f[i-1] \o q[i]
    <3> SUFFICES ASSUME NEW i \in 1..L PROVE f[i] = IF i = 1 THEN q[i] ELSE f[i-1] \o q[i]
      OBVIOUS
    <3>1. f[i] = h[i-1] \o q[i]
      BY <1>7
    <3>2. CASE i = 1
      <4>1. h[i-1] = <<>> /\ q[i] \in Seq(S)
        BY <1>1, <1>5, <3>2 DEF D
      <4>2. <<>> \o q[i] = q[i]
        BY <4>1, ConcatEmptySeq
      <4> QED BY <3>1, <3>2, <4>1, <4>2
    <3>3. CASE i # 1
      <4>1. i - 1 \in 1..L
        BY <1>1, <3>3
      <4> QED BY <3>1, <3>3, <4>1
    <3> QED BY <3>2, <3>3
  <2>2. Eq(f)
    BY <2>1
  <2> QED BY <2>2
<1>9. PICK f : Eq(f) /\ (q # <<>> => R = f[L])
  <2> HIDE DEF Eq
  <2> QED BY <1>3, <1>8
<1>10. \A i \in 1..L : f[i] = IF i = 1 THEN q[i] ELSE f[i-1] \o q[i]
  BY <1>9
<1> HIDE DEF Eq
<1> DEFINE T == {k \in Nat : k <= L /\ k # 0 => f[k] = h[k]}
<1>11. 0 \in T
  OBVIOUS
<1>12. ASSUME NEW k \in Nat, k \in T PROVE k + 1 \in T
  <2>1. CASE k + 1 <= L
    <3>1. k + 1 \in 1..L /\ (k + 1) - 1 = k
      BY <1>1, <2>1
    <3>2. h[k+1] = h[k] \o q[k+1]
      BY <1>7, <3>1
    <3>3. CASE k = 0
      <4>1. h[k] = <<>> /\ q[k+1] \in Seq(S)
        BY <1>1, <1>5, <3>1, <3>3 DEF D
      <4>2. <<>> \o q[k+1] = q[k+1]
        BY <4>1, ConcatEmptySeq
      <4>3. f[k+1] = q[k+1]
        BY <1>10, <3>1, <3>3
      <4> QED BY <3>2, <4>1, <4>2, <4>3
    <3>4. CASE k # 0
      <4>1. f[k+1] = f[k] \o q[k+1]
        <5>1. PICK i \in 1..L : i = k + 1 /\ i # 1 /\ i - 1 = k
          BY <3>1, <3>4
        <5>2. f[i] = f[i-1] \o q[i]
          BY <1>10, <5>1
        <5> QED BY <5>1, <5>2
      <4>2. f[k] = h[k]
        BY <1>12, <2>1, <3>4
      <4>3. f[k+1] = h[k+1]
        BY <3>2, <4>1, <4>2
      <4> QED BY <4>3
    <3> QED BY <3>3, <3>4
  <2>2. CASE ~(k + 1 <= L)
    BY <2>2
  <2> QED BY <2>1, <2>2
<1>13. Nat \subseteq T
  <2> HIDE DEF T
  <2> QED BY <1>11, <1>12, Inductive
<1>14. q # <<>> => h[L] = R
  <2>1. q # <<>> => L # 0
    BY EmptySeq
  <2> QED BY <1>1, <1>9, <1>13, <2>1
<1> QED BY <1>5, <1>6, <1>7, <1>14 DEF L, D, R
=============================================================================
