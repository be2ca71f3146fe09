-------------------------- MODULE TermSessionProofs --------------------------
(***************************************************************************)
(* Proofs about module TermSession.  What a read of the program's output   *)
(* does is a fold of folds over lines, names and words; each is proved to  *)
(* stay in a set of states in which the arrays of the debug windows go     *)
(* together, by the induction of module Inductions.                        *)
(***************************************************************************)
EXTENDS TermSession, Inductions, SequenceTheorems

-----------------------------------------------------------------------------
(* The arrays of DebugWin, with the flag and the text of the handler.      *)

ArrayOf(V) == UNION {[S -> V] : S \in SUBSET Names}

States ==
  [window : SUBSET Names, bare : SUBSET Names, cmd : ArrayOf(Kinds),
   delayed : ArrayOf(BOOLEAN), queue : ArrayOf(Seq(Words)), ok : BOOLEAN, shown : Seq(Lines)]

\* Every window that was made can be reached by its name, and every name has
\* all it needs.
Good == {d \in States : /\ d.window \ d.bare \subseteq DOMAIN d.cmd
                        /\ DOMAIN d.cmd \subseteq DOMAIN d.delayed}

\* What words for a window leave alone.
Same(d) == {e \in Good : e.cmd = d.cmd /\ e.delayed = d.delayed /\ e.shown = d.shown}

LEMMA AssignArray ==
  ASSUME NEW V, NEW f \in ArrayOf(V), NEW n \in Names, NEW v \in V
  PROVE  Assign(f, n, v) \in ArrayOf(V) /\ DOMAIN Assign(f, n, v) = DOMAIN f \cup {n}
<1>1. PICK S \in SUBSET Names : f \in [S -> V]
  BY DEF ArrayOf
<1>2. S \cup {n} \in SUBSET Names /\ Assign(f, n, v) \in [S \cup {n} -> V]
  BY <1>1 DEF Assign
<1>3. QED BY <1>1, <1>2 DEF ArrayOf

LEMMA ArrayValue ==
  ASSUME NEW V, NEW f \in ArrayOf(V)
  PROVE  /\ DOMAIN f \subseteq Names /\ \A n \in DOMAIN f : f[n] \in V
         /\ \A n, v : v \in V => [f EXCEPT ![n] = v] \in ArrayOf(V)
  BY DEF ArrayOf

LEMMA GoodFields ==
  ASSUME NEW d \in Good
  PROVE  /\ d \in States /\ d.window \ d.bare \subseteq DOMAIN d.cmd
         /\ DOMAIN d.cmd \subseteq DOMAIN d.delayed
         /\ d.window \in SUBSET Names /\ d.bare \in SUBSET Names
         /\ d.cmd \in ArrayOf(Kinds) /\ d.delayed \in ArrayOf(BOOLEAN)
         /\ d.queue \in ArrayOf(Seq(Words)) /\ d.ok \in BOOLEAN /\ d.shown \in Seq(Lines)
         /\ d = [window |-> d.window, bare |-> d.bare, cmd |-> d.cmd, delayed |-> d.delayed,
                 queue |-> d.queue, ok |-> d.ok, shown |-> d.shown]
  BY DEF Good, States

LEMMA SameSelf == ASSUME NEW d \in Good PROVE d \in Same(d)
  BY DEF Same

LEMMA SameOf ==
  ASSUME NEW d \in Good, NEW e \in Same(d)
  PROVE  Same(e) \subseteq Same(d) /\ e \in Good /\ e.cmd = d.cmd /\ e.delayed = d.delayed
  BY DEF Same

LEMMA FailSame == ASSUME NEW d \in Good PROVE Fail(d) \in Same(d)
<1>1. Fail(d) \in States
  BY DEF Fail, Good, States
<1>2. /\ Fail(d).window = d.window /\ Fail(d).bare = d.bare /\ Fail(d).cmd = d.cmd
      /\ Fail(d).delayed = d.delayed /\ Fail(d).shown = d.shown
  BY DEF Fail, Good, States
<1>3. QED BY <1>1, <1>2 DEF Same, Good

LEMMA WindowSame ==
  ASSUME NEW d \in Good, NEW W, W \subseteq d.window
  PROVE  [d EXCEPT !.window = W] \in Same(d)
<1>1. [d EXCEPT !.window = W] =
        [window |-> W, bare |-> d.bare, cmd |-> d.cmd, delayed |-> d.delayed,
         queue |-> d.queue, ok |-> d.ok, shown |-> d.shown]
  BY GoodFields
<1>2. W \ d.bare \subseteq DOMAIN d.cmd /\ W \in SUBSET Names
  BY GoodFields
<1>3. QED BY <1>1, <1>2, GoodFields DEF Same, Good, States

LEMMA QueueSame ==
  ASSUME NEW d \in Good, NEW q \in ArrayOf(Seq(Words))
  PROVE  [d EXCEPT !.queue = q] \in Same(d)
<1>1. [d EXCEPT !.queue = q] =
        [window |-> d.window, bare |-> d.bare, cmd |-> d.cmd, delayed |-> d.delayed,
         queue |-> q, ok |-> d.ok, shown |-> d.shown]
  BY GoodFields
<1>2. QED BY <1>1, GoodFields DEF Same, Good, States
-----------------------------------------------------------------------------
(* TermCmd, PlotCmd, QueueCmds.                                            *)

LEMMA TermWordSame ==
  ASSUME NEW d \in Good, NEW n, NEW w \in Words
  PROVE  TermWord(d, n, w) \in Same(d)
<1>1. [d EXCEPT !.window = d.window \ {n}] \in Same(d)
  BY WindowSame
<1>2. QED BY <1>1, FailSame, SameSelf DEF TermWord, Words

LEMMA TermFold ==
  ASSUME NEW d \in Good, NEW n, Drawn(d, n), NEW ws \in Seq(Words)
  PROVE  TermCmd(d, n, ws) \in Same(d)
<1> DEFINE L == Len(ws)
           D == Same(d)
           R == TermCmd(d, n, ws)
           Eq(g) == g = [s \in SUBSET (1..L) |->
                           IF s = {} THEN d
                           ELSE TermWord(g[s \ {Max(s)}], n, ws[Max(s)])]
           step == [i \in 1..L |-> [e \in D |-> TermWord(e, n, ws[i])]]
<1>1. L \in Nat /\ DOMAIN ws = 1..L /\ \A i \in 1..L : ws[i] \in Words
  OBVIOUS
<1>2. d \in D /\ \A e \in D, w \in Words : TermWord(e, n, w) \in D
  BY TermWordSame, SameOf, SameSelf
<1>3. R = (CHOOSE g : Eq(g))[1..L]
  <2>1. R = (CHOOSE g : g = [s \in SUBSET (DOMAIN ws) |->
                               IF s = {} THEN d
                               ELSE TermWord(g[s \ {Max(s)}], n, ws[Max(s)])])[DOMAIN ws]
    BY DEF TermCmd, FoldLeft, MapThenFoldSet
  <2>2. QED BY <1>1, <2>1
<1> HIDE DEF D, L, R
<1>4. \E g : Eq(g)
  <2>1. step \in [1..L -> [D -> D]] /\ \A i \in 1..L, e \in D : step[i][e] = TermWord(e, n, ws[i])
    BY <1>1, <1>2
  <2> HIDE DEF step
  <2>2. PICK g : Folding(g, L, D, d, step)
    BY <1>1, <1>2, <2>1, FoldSolved
  <2>3. \A s \in SUBSET (1..L) : s # {} => Max(s) \in 1..L /\ g[s \ {Max(s)}] \in D
    BY <1>1, <2>2, MaxOf DEF Folding
  <2>4. \A s \in SUBSET (1..L) :
          g[s] = IF s = {} THEN d ELSE TermWord(g[s \ {Max(s)}], n, ws[Max(s)])
    BY <2>1, <2>2, <2>3 DEF Folding
  <2>5. QED BY <2>2, <2>4 DEF Folding
<1>5. PICK g : Eq(g) /\ R = g[1..L]
  <2> HIDE DEF Eq
  <2>1. QED BY <1>3, <1>4
<1>6. \A s \in SUBSET (1..L) :
        g[s] = IF s = {} THEN d ELSE TermWord(g[s \ {Max(s)}], n, ws[Max(s)])
  BY <1>5
<1>7. R = g[1..L]
  BY <1>5
<1> HIDE DEF Eq
<1>8. g[{}] = d
  BY <1>6
<1>9. ASSUME NEW k \in 1..L PROVE g[1..k] = TermWord(g[1..k-1], n, ws[k])
  BY <1>1, <1>6, FoldSteps
<1>10. \A k \in 1..L : g[1..k-1] \in D => g[1..k] \in D
  BY <1>1, <1>2, <1>9
<1>11. g[1..L] \in D
  BY <1>1, <1>2, <1>8, <1>10, FoldStaysIn
<1>12. QED BY <1>7, <1>11 DEF R, D

\* Words for a term window are run, and those for a window that is gone are not.
LEMMA TermCmdSame ==
  ASSUME NEW d \in Good, NEW n, NEW ws \in Seq(Words)
  PROVE  TermCmd(d, n, ws) \in Same(d)
<1>1. ~Drawn(d, n) => TermCmd(d, n, ws) = d
  BY DEF TermCmd
<1>2. QED BY <1>1, TermFold, SameSelf

LEMMA DoSame ==
  ASSUME NEW d \in Good, NEW n \in DOMAIN d.cmd, NEW ws \in Seq(Words)
  PROVE  Do(d, n, ws) \in Same(d)
<1>1. d.cmd[n] \in Kinds
  BY GoodFields, ArrayValue
<1>2. TermCmd(d, n, ws) \in Same(d) /\ PlotCmd(d, n, ws) \in Same(d) /\ Fail(d) \in Same(d)
  BY TermCmdSame, FailSame, SameSelf DEF PlotCmd
<1>3. QED BY <1>1, <1>2 DEF Do, Kinds

LEMMA QueueWordSame ==
  ASSUME NEW d \in Good, NEW n \in DOMAIN d.cmd, NEW w \in Words
  PROVE  QueueWord(d, n, w) \in Same(d)
<1>1. d.queue \in ArrayOf(Seq(Words)) /\ n \in Names
  BY GoodFields, ArrayValue
<1>2. CASE w # "update" /\ d.ok
  <2> DEFINE q == IF n \in DOMAIN d.queue THEN Append(d.queue[n], w) ELSE <<w>>
  <2>1. q \in Seq(Words)
    BY <1>1, ArrayValue
  <2>2. QueueWord(d, n, w) = [d EXCEPT !.queue = Assign(d.queue, n, q)]
    BY <1>2 DEF QueueWord
  <2> HIDE DEF q
  <2>3. Assign(d.queue, n, q) \in ArrayOf(Seq(Words))
    BY <1>1, <2>1, AssignArray
  <2>4. QED BY <2>2, <2>3, QueueSame
<1>3. CASE w = "update" /\ d.ok /\ n \in DOMAIN d.queue
  <2> DEFINE e == Do(d, n, d.queue[n])
  <2>1. e \in Same(d)
    BY <1>1, <1>3, ArrayValue, DoSame
  <2>2. QueueWord(d, n, w) = IF e.ok THEN [e EXCEPT !.queue[n] = <<>>] ELSE e
    BY <1>3 DEF QueueWord
  <2> HIDE DEF e
  <2>3. e \in Good /\ e.queue \in ArrayOf(Seq(Words))
    BY <2>1, SameOf, GoodFields
  <2>4. [e EXCEPT !.queue[n] = <<>>] = [e EXCEPT !.queue = [e.queue EXCEPT ![n] = <<>>]]
    OBVIOUS
  <2>5. [e.queue EXCEPT ![n] = <<>>] \in ArrayOf(Seq(Words))
    <3>1. <<>> \in Seq(Words)
      OBVIOUS
    <3>2. QED BY <2>3, <3>1, ArrayValue
  <2>6. [e EXCEPT !.queue = [e.queue EXCEPT ![n] = <<>>]] \in Same(e)
    BY <2>3, <2>5, QueueSame
  <2>7. QED BY <2>1, <2>2, <2>4, <2>6, SameOf
<1>4. CASE \/ ~d.ok
           \/ w = "update" /\ n \notin DOMAIN d.queue
  BY <1>4, SameSelf, FailSame DEF QueueWord
<1>5. QED BY <1>2, <1>3, <1>4

LEMMA QueueFold ==
  ASSUME NEW d \in Good, NEW n \in DOMAIN d.cmd, NEW ws \in Seq(Words)
  PROVE  QueueCmds(d, n, ws) \in Same(d)
<1> DEFINE L == Len(ws)
           D == Same(d)
           R == QueueCmds(d, n, ws)
           Eq(g) == g = [s \in SUBSET (1..L) |->
                           IF s = {} THEN d
                           ELSE QueueWord(g[s \ {Max(s)}], n, ws[Max(s)])]
           step == [i \in 1..L |-> [e \in D |-> QueueWord(e, n, ws[i])]]
<1>1. L \in Nat /\ DOMAIN ws = 1..L /\ \A i \in 1..L : ws[i] \in Words
  OBVIOUS
<1>2. d \in D /\ \A e \in D, w \in Words : QueueWord(e, n, w) \in D
  BY QueueWordSame, SameOf, SameSelf
<1>3. R = (CHOOSE g : Eq(g))[1..L]
  <2>1. R = (CHOOSE g : g = [s \in SUBSET (DOMAIN ws) |->
                               IF s = {} THEN d
                               ELSE QueueWord(g[s \ {Max(s)}], n, ws[Max(s)])])[DOMAIN ws]
    BY DEF QueueCmds, FoldLeft, MapThenFoldSet
  <2>2. QED BY <1>1, <2>1
<1> HIDE DEF D, L, R
<1>4. \E g : Eq(g)
  <2>1. step \in [1..L -> [D -> D]] /\ \A i \in 1..L, e \in D : step[i][e] = QueueWord(e, n, ws[i])
    BY <1>1, <1>2
  <2> HIDE DEF step
  <2>2. PICK g : Folding(g, L, D, d, step)
    BY <1>1, <1>2, <2>1, FoldSolved
  <2>3. \A s \in SUBSET (1..L) : s # {} => Max(s) \in 1..L /\ g[s \ {Max(s)}] \in D
    BY <1>1, <2>2, MaxOf DEF Folding
  <2>4. \A s \in SUBSET (1..L) :
          g[s] = IF s = {} THEN d ELSE QueueWord(g[s \ {Max(s)}], n, ws[Max(s)])
    BY <2>1, <2>2, <2>3 DEF Folding
  <2>5. QED BY <2>2, <2>4 DEF Folding
<1>5. PICK g : Eq(g) /\ R = g[1..L]
  <2> HIDE DEF Eq
  <2>1. QED BY <1>3, <1>4
<1>6. \A s \in SUBSET (1..L) :
        g[s] = IF s = {} THEN d ELSE QueueWord(g[s \ {Max(s)}], n, ws[Max(s)])
  BY <1>5
<1>7. R = g[1..L]
  BY <1>5
<1> HIDE DEF Eq
<1>8. g[{}] = d
  BY <1>6
<1>9. ASSUME NEW k \in 1..L PROVE g[1..k] = QueueWord(g[1..k-1], n, ws[k])
  BY <1>1, <1>6, FoldSteps
<1>10. \A k \in 1..L : g[1..k-1] \in D => g[1..k] \in D
  BY <1>1, <1>2, <1>9
<1>11. g[1..L] \in D
  BY <1>1, <1>2, <1>8, <1>10, FoldStaysIn
<1>12. QED BY <1>7, <1>11 DEF R, D

LEMMA SendSame ==
  ASSUME NEW d \in Good, NEW n \in DOMAIN d.cmd, NEW ws \in Seq(Words)
  PROVE  Send(d, n, ws) \in Same(d)
  BY DoSame, QueueFold, SameSelf DEF Send
-----------------------------------------------------------------------------
(* RunCmd and term_recv.                                                   *)

LEMMA AssignKind ==
  ASSUME NEW f \in ArrayOf(Kinds), NEW n \in Names, NEW k \in Kinds
  PROVE  Assign(f, n, k) \in ArrayOf(Kinds) /\ DOMAIN Assign(f, n, k) = DOMAIN f \cup {n}
<1>1. Assign(f, n, k) \in ArrayOf(Kinds)
  BY AssignArray
<1>2. DOMAIN Assign(f, n, k) = DOMAIN f \cup {n}
  BY DEF Assign
<1>3. QED BY <1>1, <1>2

LEMMA CreateGood ==
  ASSUME NEW d \in Good, NEW n \in Names, NEW k \in Kinds, NEW b \in BOOLEAN, NEW f \in Flaws
  PROVE  /\ Create(d, Make(n, k, b, f)) \in Good
         /\ Create(d, Make(n, k, b, f)).shown = d.shown
<1> DEFINE W == d.window \cup {n}
           C == Assign(d.cmd, n, k)
           Y == Assign(d.delayed, n, b)
<1>1. /\ W \in SUBSET Names
      /\ C \in ArrayOf(Kinds) /\ DOMAIN C = DOMAIN d.cmd \cup {n}
      /\ Y \in ArrayOf(BOOLEAN) /\ DOMAIN Y = DOMAIN d.delayed \cup {n}
  <2>1. d.window \in SUBSET Names /\ d.cmd \in ArrayOf(Kinds) /\ d.delayed \in ArrayOf(BOOLEAN)
    BY GoodFields
  <2>2. C \in ArrayOf(Kinds) /\ DOMAIN C = DOMAIN d.cmd \cup {n}
    BY <2>1, AssignKind
  <2>3. Y \in ArrayOf(BOOLEAN) /\ DOMAIN Y = DOMAIN d.delayed \cup {n}
    <3>1. \A g \in ArrayOf(BOOLEAN) : /\ Assign(g, n, b) \in ArrayOf(BOOLEAN)
                                      /\ DOMAIN Assign(g, n, b) = DOMAIN g \cup {n}
      BY AssignArray
    <3>2. QED BY <2>1, <3>1
  <2>4. QED BY <2>1, <2>2, <2>3
<1>2. CASE n \in d.window
  BY <1>2 DEF Create, Make
<1>3. CASE n \notin d.window /\ f = "none"
  <2>1. Create(d, Make(n, k, b, f)) = [d EXCEPT !.window = W, !.cmd = C, !.delayed = Y]
    BY <1>3 DEF Create, Make
  <2> HIDE DEF W, C, Y
  <2> DEFINE e == [d EXCEPT !.window = W, !.cmd = C, !.delayed = Y]
  <2>2. e \in States
    BY <1>1 DEF Good, States
  <2>3. e.window = W /\ e.bare = d.bare /\ e.cmd = C /\ e.delayed = Y /\ e.shown = d.shown
    BY DEF Good, States
  <2>4. W \ d.bare \subseteq DOMAIN C /\ DOMAIN C \subseteq DOMAIN Y
    BY <1>1, GoodFields DEF W
  <2> HIDE DEF e
  <2>5. e \in Good
    BY <2>2, <2>3, <2>4 DEF Good
  <2>6. QED BY <2>1, <2>3, <2>5 DEF e
<1>4. CASE n \notin d.window /\ f = "early"
  <2>1. Create(d, Make(n, k, b, f)) = Fail(d)
    BY <1>4 DEF Create, Make
  <2>2. QED BY <2>1, FailSame DEF Same
<1>5. CASE n \notin d.window /\ f = "late"
  <2> DEFINE B == d.bare \cup {n}
             e == [d EXCEPT !.window = W, !.bare = B]
  <2>1. Create(d, Make(n, k, b, f)) = Fail(e)
    BY <1>5 DEF Create, Make
  <2>2. B \in SUBSET Names
    BY GoodFields
  <2>3. W \ B \subseteq DOMAIN d.cmd /\ DOMAIN d.cmd \subseteq DOMAIN d.delayed
    BY GoodFields
  <2> HIDE DEF W, B
  <2>4. e \in States
    BY <1>1, <2>2 DEF Good, States
  <2>5. e.window = W /\ e.bare = B /\ e.cmd = d.cmd /\ e.delayed = d.delayed /\ e.shown = d.shown
    BY DEF Good, States
  <2> HIDE DEF e
  <2>6. e \in Good
    BY <2>3, <2>4, <2>5 DEF Good
  <2>7. Fail(e) \in Good /\ Fail(e).shown = e.shown
    BY <2>6, FailSame DEF Same
  <2>8. QED BY <2>1, <2>5, <2>7
<1>6. QED BY <1>2, <1>3, <1>4, <1>5 DEF Flaws

\* The words taken as names are names of windows.
LEMMA KnownNames ==
  ASSUME NEW d \in Good, NEW ns \in Seq(Names)
  PROVE  /\ Known(d, ns) \in 0..Len(ns)
         /\ \A i \in 1..Known(d, ns) : ns[i] \in DOMAIN d.cmd
<1> DEFINE strange == {i \in DOMAIN ns : ns[i] \notin DOMAIN d.cmd}
<1>1. Len(ns) \in Nat /\ DOMAIN ns = 1..Len(ns)
  OBVIOUS
<1>2. Known(d, ns) = IF strange = {} THEN Len(ns) ELSE Min(strange) - 1
  BY DEF Known
<1>3. CASE strange = {}
  BY <1>1, <1>2, <1>3
<1>4. CASE strange # {}
  <2>1. strange \subseteq Nat /\ strange \subseteq 1..Len(ns)
    BY <1>1
  <2>2. Min(strange) \in strange /\ \A i \in strange : Min(strange) <= i
    BY <1>4, <2>1, MinOf
  <2>3. Min(strange) \in 1..Len(ns)
    BY <2>1, <2>2
  <2>4. \A i \in 1..Min(strange) - 1 : i \notin strange /\ i \in 1..Len(ns)
    <3> DEFINE m == Min(strange)
    <3>1. m \in 1..Len(ns) /\ \A i \in strange : m <= i
      BY <2>2, <2>3
    <3> HIDE DEF m, strange
    <3>2. \A i \in 1..m - 1 : i \in Int /\ i < m /\ i \in 1..Len(ns)
      BY <1>1, <3>1
    <3>3. \A i \in 1..m - 1 : i \notin strange
      BY <1>1, <3>1, <3>2
    <3>4. QED BY <3>2, <3>3 DEF m
  <2>5. QED BY <1>1, <1>2, <1>4, <2>3, <2>4
<1>5. QED BY <1>3, <1>4

LEMMA SendFold ==
  ASSUME NEW d \in Good, NEW ns \in Seq(DOMAIN d.cmd), NEW ws \in Seq(Words)
  PROVE  FoldLeft(LAMBDA e, n : Send(e, n, ws), d, ns) \in Same(d)
<1> DEFINE L == Len(ns)
           D == Same(d)
           R == FoldLeft(LAMBDA e, n : Send(e, n, ws), d, ns)
           Eq(g) == g = [s \in SUBSET (1..L) |->
                           IF s = {} THEN d ELSE Send(g[s \ {Max(s)}], ns[Max(s)], ws)]
           step == [i \in 1..L |-> [e \in D |-> Send(e, ns[i], ws)]]
<1>1. L \in Nat /\ DOMAIN ns = 1..L /\ \A i \in 1..L : ns[i] \in DOMAIN d.cmd
  OBVIOUS
<1>2. d \in D /\ \A e \in D, n \in DOMAIN d.cmd : Send(e, n, ws) \in D
  BY SendSame, SameOf, SameSelf
<1>3. R = (CHOOSE g : Eq(g))[1..L]
  <2>1. R = (CHOOSE g : g = [s \in SUBSET (DOMAIN ns) |->
                               IF s = {} THEN d
                               ELSE Send(g[s \ {Max(s)}], ns[Max(s)], ws)])[DOMAIN ns]
    BY DEF FoldLeft, MapThenFoldSet
  <2>2. QED BY <1>1, <2>1
<1> HIDE DEF D, L, R
<1>4. \E g : Eq(g)
  <2>1. step \in [1..L -> [D -> D]] /\ \A i \in 1..L, e \in D : step[i][e] = Send(e, ns[i], ws)
    BY <1>1, <1>2
  <2> HIDE DEF step
  <2>2. PICK g : Folding(g, L, D, d, step)
    BY <1>1, <1>2, <2>1, FoldSolved
  <2>3. \A s \in SUBSET (1..L) : s # {} => Max(s) \in 1..L /\ g[s \ {Max(s)}] \in D
    BY <1>1, <2>2, MaxOf DEF Folding
  <2>4. \A s \in SUBSET (1..L) :
          g[s] = IF s = {} THEN d ELSE Send(g[s \ {Max(s)}], ns[Max(s)], ws)
    BY <2>1, <2>2, <2>3 DEF Folding
  <2>5. QED BY <2>2, <2>4 DEF Folding
<1>5. PICK g : Eq(g) /\ R = g[1..L]
  <2> HIDE DEF Eq
  <2>1. QED BY <1>3, <1>4
<1>6. \A s \in SUBSET (1..L) :
        g[s] = IF s = {} THEN d ELSE Send(g[s \ {Max(s)}], ns[Max(s)], ws)
  BY <1>5
<1>7. R = g[1..L]
  BY <1>5
<1> HIDE DEF Eq
<1>8. g[{}] = d
  BY <1>6
<1>9. ASSUME NEW k \in 1..L PROVE g[1..k] = Send(g[1..k-1], ns[k], ws)
  BY <1>1, <1>6, FoldSteps
<1>10. \A k \in 1..L : g[1..k-1] \in D => g[1..k] \in D
  BY <1>1, <1>2, <1>9
<1>11. g[1..L] \in D
  BY <1>1, <1>2, <1>8, <1>10, FoldStaysIn
<1>12. R \in Same(d)
  BY <1>7, <1>11 DEF D
<1>13. QED BY <1>12 DEF R

LEMMA RunCmdGood ==
  ASSUME NEW d \in Good, NEW l \in Lines, l.is # "plain"
  PROVE  RunCmd(d, l) \in Good /\ RunCmd(d, l).shown = d.shown
<1>1. CASE \E n \in Names, k \in Kinds, b \in BOOLEAN, f \in Flaws : l = Make(n, k, b, f)
  <2>1. l.is = "make"
    BY <1>1 DEF Make
  <2>2. QED BY <1>1, <2>1, CreateGood DEF RunCmd
<1>2. CASE l.is = "say" /\ l.to \in Seq(Names) /\ l.words \in Seq(Words)
  <2> DEFINE k == Known(d, l.to)
             rest == [i \in 1..(Len(l.to) - k) |-> "other"] \o l.words
             ns == SubSeq(l.to, 1, k)
             R == RunCmd(d, l)
  <2>1. k \in 0..Len(l.to) /\ Len(l.to) \in Nat /\ \A i \in 1..k : l.to[i] \in DOMAIN d.cmd
    BY <1>2, KnownNames
  <2>2. [i \in 1..(Len(l.to) - k) |-> "other"] \in Seq(Words)
    <3>1. Len(l.to) - k \in Nat /\ "other" \in Words
      BY <2>1 DEF Words
    <3> HIDE DEF k
    <3>2. [i \in 1..(Len(l.to) - k) |-> "other"] \in [1..(Len(l.to) - k) -> Words]
      BY <3>1
    <3>3. QED BY <3>1, <3>2
  <2>3. rest \in Seq(Words)
    BY <1>2, <2>2
  <2>4. ns \in Seq(DOMAIN d.cmd)
    <3> HIDE DEF k
    <3>1. Len(ns) = k /\ \A i \in 1..k : ns[i] = l.to[i]
      BY <1>2, <2>1
    <3>2. ns \in Seq(Names)
      BY <1>2, <2>1
    <3> HIDE DEF ns
    <3>3. ns \in [1..k -> DOMAIN d.cmd]
      BY <2>1, <3>1, <3>2
    <3>4. k \in Nat
      BY <2>1
    <3>5. QED BY <3>3, <3>4
  <2> HIDE DEF rest, ns, k
  <2>5. FoldLeft(LAMBDA e, n : Send(e, n, rest), d, ns) \in Same(d)
    BY <2>3, <2>4, SendFold
  <2>6. RunCmd(d, l) \in Same(d)
    BY <1>2, <2>5 DEF RunCmd, rest, ns, k
  <2>7. QED BY <2>6 DEF Same
<1>3. QED BY <1>1, <1>2, SessionAssumption DEF Plain

LEMMA AppendConcat ==
  ASSUME NEW s \in Seq(Lines), NEW t \in Seq(Lines), NEW x \in Lines
  PROVE  Append(s \o t, x) = s \o Append(t, x)
<1>1. Append(t, x) = t \o <<x>> /\ Append(s \o t, x) = (s \o t) \o <<x>>
  BY AppendIsConcat, ConcatProperties
<1>2. QED BY <1>1, ConcatAssociative

LEMMA ConcatLines ==
  ASSUME NEW s \in Seq(Lines), NEW t \in Seq(Lines), NEW u \in Seq(Lines)
  PROVE  (s \o t) \o u = s \o (t \o u)
  BY ConcatAssociative

LEMMA ShownGrows ==
  ASSUME NEW s \in Seq(Lines), NEW ls \in Seq(Lines), NEW k \in 1..Len(ls)
  PROVE  Append(s \o SubSeq(ls, 1, k-1), ls[k]) = s \o SubSeq(ls, 1, k)
<1>1. SubSeq(ls, 1, k) = Append(SubSeq(ls, 1, k-1), ls[k])
  OBVIOUS
<1>2. SubSeq(ls, 1, k-1) \in Seq(Lines) /\ ls[k] \in Lines
  OBVIOUS
<1> DEFINE h == SubSeq(ls, 1, k-1)
           x == ls[k]
<1> HIDE DEF h, x
<1>3. h \in Seq(Lines) /\ x \in Lines
  BY <1>2 DEF h, x
<1>4. Append(s \o h, x) = s \o Append(h, x)
  BY <1>3, AppendConcat
<1>5. QED BY <1>1, <1>4 DEF h, x

\* After a line without an error the terminal shows that line, too.
LEMMA ReceiveGood ==
  ASSUME NEW s \in Good, NEW l \in Lines
  PROVE  /\ Receive(s, l) \in Good
         /\ Receive(s, l).ok => s.ok /\ Receive(s, l).shown = Append(s.shown, l)
<1> DEFINE t == [s EXCEPT !.shown = Append(s.shown, l)]
<1>1. t \in States
  BY DEF Good, States
<1>2. /\ t.window = s.window /\ t.bare = s.bare /\ t.cmd = s.cmd /\ t.delayed = s.delayed
      /\ t.shown = Append(s.shown, l)
  BY DEF Good, States
<1>3. Receive(s, l) = IF ~s.ok THEN s ELSE IF l.is = "plain" THEN t ELSE RunCmd(t, l)
  BY DEF Receive
<1> HIDE DEF t
<1>4. t \in Good
  BY <1>1, <1>2 DEF Good
<1>5. l.is # "plain" => RunCmd(t, l) \in Good /\ RunCmd(t, l).shown = t.shown
  BY <1>4, RunCmdGood
<1>6. s.ok \in BOOLEAN
  BY GoodFields
<1>7. CASE ~s.ok
  BY <1>3, <1>7
<1>8. CASE s.ok /\ l.is = "plain"
  BY <1>2, <1>3, <1>4, <1>8
<1>9. CASE s.ok /\ l.is # "plain"
  BY <1>2, <1>3, <1>5, <1>9
<1>10. QED BY <1>6, <1>7, <1>8, <1>9

\* term_recv shows all lines of a read, unless one of them was an error.
LEMMA ReceiveFold ==
  ASSUME NEW d \in Good, NEW ls \in Seq(Lines)
  PROVE  LET R == FoldLeft(Receive, d, ls)
         IN  R \in Good /\ (R.ok => R.shown = d.shown \o ls)
<1> DEFINE L == Len(ls)
           D == Good
           R == FoldLeft(Receive, d, ls)
           Eq(g) == g = [s \in SUBSET (1..L) |->
                           IF s = {} THEN d ELSE Receive(g[s \ {Max(s)}], ls[Max(s)])]
           step == [i \in 1..L |-> [e \in D |-> Receive(e, ls[i])]]
           E == [k \in 0..L |-> {e \in Good : e.ok => e.shown = d.shown \o SubSeq(ls, 1, k)}]
<1>0. d.shown \in Seq(Lines)
  BY GoodFields
<1>1. L \in Nat /\ DOMAIN ls = 1..L /\ \A i \in 1..L : ls[i] \in Lines
  OBVIOUS
<1>2. d \in D /\ \A e \in D, l \in Lines : Receive(e, l) \in D
  BY ReceiveGood
<1>3. R = (CHOOSE g : Eq(g))[1..L]
  <2>1. R = (CHOOSE g : g = [s \in SUBSET (DOMAIN ls) |->
                               IF s = {} THEN d
                               ELSE Receive(g[s \ {Max(s)}], ls[Max(s)])])[DOMAIN ls]
    BY DEF FoldLeft, MapThenFoldSet
  <2>2. QED BY <1>1, <2>1
<1>10. d \in E[0] /\ E[L] = {e \in Good : e.ok => e.shown = d.shown \o ls}
  <2>1. SubSeq(ls, 1, 0) = <<>> /\ SubSeq(ls, 1, L) = ls
    OBVIOUS
  <2>2. d.shown \o <<>> = d.shown
    BY <1>0
  <2>3. 0 \in 0..L /\ L \in 0..L
    BY <1>1
  <2>4. QED BY <2>1, <2>2, <2>3
<1>11. ASSUME NEW k \in 1..L, NEW e \in E[k-1] PROVE Receive(e, ls[k]) \in E[k]
  <2> DEFINE r == Receive(e, ls[k])
  <2>1. k \in 0..L /\ k-1 \in 0..L
    BY <1>1
  <2>2. e \in Good /\ (e.ok => e.shown = d.shown \o SubSeq(ls, 1, k-1))
    BY <1>11, <2>1
  <2>3. r \in Good /\ (r.ok => e.ok /\ r.shown = Append(e.shown, ls[k]))
    BY <1>1, <2>2, ReceiveGood
  <2>4. Append(d.shown \o SubSeq(ls, 1, k-1), ls[k]) = d.shown \o SubSeq(ls, 1, k)
    BY <1>0, ShownGrows
  <2> HIDE DEF r
  <2>5. r \in Good /\ (r.ok => r.shown = d.shown \o SubSeq(ls, 1, k))
    BY <2>2, <2>3, <2>4
  <2>6. r \in E[k]
    BY <2>1, <2>5
  <2>7. QED BY <2>6 DEF r
<1> HIDE DEF D, L, R, E
<1>4. \E g : Eq(g)
  <2>1. step \in [1..L -> [D -> D]] /\ \A i \in 1..L, e \in D : step[i][e] = Receive(e, ls[i])
    BY <1>1, <1>2
  <2> HIDE DEF step
  <2>2. PICK g : Folding(g, L, D, d, step)
    BY <1>1, <1>2, <2>1, FoldSolved
  <2>3. \A s \in SUBSET (1..L) : s # {} => Max(s) \in 1..L /\ g[s \ {Max(s)}] \in D
    BY <1>1, <2>2, MaxOf DEF Folding
  <2>4. \A s \in SUBSET (1..L) :
          g[s] = IF s = {} THEN d ELSE Receive(g[s \ {Max(s)}], ls[Max(s)])
    BY <2>1, <2>2, <2>3 DEF Folding
  <2>5. QED BY <2>2, <2>4 DEF Folding
<1>5. PICK g : Eq(g) /\ R = g[1..L]
  <2> HIDE DEF Eq
  <2>1. QED BY <1>3, <1>4
<1>6. \A s \in SUBSET (1..L) :
        g[s] = IF s = {} THEN d ELSE Receive(g[s \ {Max(s)}], ls[Max(s)])
  BY <1>5
<1>7. R = g[1..L]
  BY <1>5
<1> HIDE DEF Eq
<1>8. g[{}] = d
  BY <1>6
<1>9. ASSUME NEW k \in 1..L PROVE g[1..k] = Receive(g[1..k-1], ls[k])
  BY <1>1, <1>6, FoldSteps
<1>12. \A k \in 1..L : g[1..k-1] \in E[k-1] => g[1..k] \in E[k]
  BY <1>9, <1>11
<1>13. g[1..L] \in E[L]
  BY <1>1, <1>8, <1>10, <1>12, FoldStays
<1>14. R \in Good /\ (R.ok => R.shown = d.shown \o ls)
  BY <1>7, <1>10, <1>13
<1>15. QED BY <1>14 DEF R
-----------------------------------------------------------------------------
(* The session.                                                            *)

Arrays ==
  [window : SUBSET Names, bare : SUBSET Names, cmd : ArrayOf(Kinds),
   delayed : ArrayOf(BOOLEAN), queue : ArrayOf(Seq(Words))]

GoodArrays ==
  {d \in Arrays : d.window \ d.bare \subseteq DOMAIN d.cmd /\ DOMAIN d.cmd \subseteq DOMAIN d.delayed}

TypeOK ==
  /\ toplev \in BOOLEAN /\ timers \in Nat
  /\ runs \in Nat /\ term_pipe \in 0..runs
  /\ readable \subseteq open /\ eof \subseteq open /\ exited \subseteq open
  /\ printed \in Seq(Lines) /\ unread \in Seq(Lines) /\ shown \in Seq(Lines)
  /\ debug \in GoodArrays

\* NothingLeftBehind needs to know of the arrays what the words for windows
\* use, and OutputInOrder that a terminal that is read is there.
IInv == TypeOK /\ NothingLeftBehind /\ OutputInOrder

LEMMA DebugOfGood ==
  ASSUME NEW d \in Good
  PROVE  DebugOf(d) \in GoodArrays
<1>1. DebugOf(d) = [window |-> d.window, bare |-> d.bare, cmd |-> d.cmd,
                    delayed |-> d.delayed, queue |-> d.queue]
  BY DEF DebugOf, NoWindows
<1>2. QED BY <1>1, GoodFields DEF GoodArrays, Arrays

LEMMA GoodArraysFields ==
  ASSUME NEW d \in GoodArrays
  PROVE  /\ d.window \in SUBSET Names /\ d.bare \in SUBSET Names
         /\ d.cmd \in ArrayOf(Kinds) /\ d.delayed \in ArrayOf(BOOLEAN)
         /\ d.queue \in ArrayOf(Seq(Words))
         /\ d.window \ d.bare \subseteq DOMAIN d.cmd /\ DOMAIN d.cmd \subseteq DOMAIN d.delayed
  BY DEF GoodArrays, Arrays

\* What term_recv returns: the arrays in order, and the text, or an error.
LEMMA term_recvGood ==
  ASSUME TypeOK, NEW ls \in Seq(Lines)
  PROVE  term_recv(ls) \in Good /\ (term_recv(ls).ok => term_recv(ls).shown = shown \o ls)
<1> DEFINE d == [ok |-> TRUE, shown |-> shown, window |-> debug.window, bare |-> debug.bare,
                 cmd |-> debug.cmd, delayed |-> debug.delayed, queue |-> debug.queue]
<1>1. d \in Good /\ d.shown = shown
  BY GoodArraysFields DEF TypeOK, Good, States
<1>2. term_recv(ls) = FoldLeft(Receive, d, ls)
  BY DEF term_recv
<1> HIDE DEF d
<1>3. QED BY <1>1, <1>2, ReceiveFold

LEMMA DestroyWindowsGood ==
  ASSUME NEW d \in GoodArrays
  PROVE  DestroyWindows(d) \in GoodArrays /\ DestroyWindows(d).cmd = <<>>
<1> DEFINE e == DestroyWindows(d)
           W == d.window \ DOMAIN d.cmd
           B == d.bare \ DOMAIN d.cmd
<1>1. <<>> \in ArrayOf(Kinds) /\ DOMAIN <<>> = {}
  <2>1. <<>> \in [{} -> Kinds]
    OBVIOUS
  <2>2. QED BY <2>1 DEF ArrayOf
<1>2. W \in SUBSET Names /\ B \in SUBSET Names /\ W \ B = {}
  BY GoodArraysFields
<1>3. e = [d EXCEPT !.window = W, !.bare = B, !.cmd = <<>>]
  BY DEF DestroyWindows
<1> HIDE DEF e, W, B
<1>4. e \in Arrays
  BY <1>1, <1>2, <1>3 DEF GoodArrays, Arrays
<1>5. e.window = W /\ e.bare = B /\ e.cmd = <<>>
  BY <1>3 DEF GoodArrays, Arrays
<1>6. e \in GoodArrays
  BY <1>1, <1>2, <1>4, <1>5 DEF GoodArrays
<1>7. QED BY <1>5, <1>6 DEF e

\* Every window that was made is found by its name.
LEMMA Reached ==
  ASSUME NEW d \in GoodArrays
  PROVE  \A n \in d.window : Drawn(d, n) => n \in DOMAIN d.cmd
  BY GoodArraysFields DEF Drawn

LEMMA TakenLeft ==
  ASSUME unread \in Seq(Lines)
  PROVE  /\ Taken \in Seq(Lines) /\ Left \in Seq(Lines) /\ Taken \o Left = unread
         /\ Taken = <<>> => unread = <<>>
<1> DEFINE n == IF Len(unread) < Chunk THEN Len(unread) ELSE Chunk
<1>1. n \in 0..Len(unread) /\ (n = 0 => Len(unread) = 0)
  BY SessionAssumption
<1> HIDE DEF n
<1>2. Taken = SubSeq(unread, 1, n)
  BY DEF Taken, n
<1>3. Len(Taken) = n /\ Taken \in Seq(Lines)
  BY <1>1, <1>2
<1>4. Left = SubSeq(unread, n + 1, Len(unread))
  BY <1>3 DEF Left
<1>5. Left \in Seq(Lines)
  BY <1>1, <1>4
<1>6. Taken \o Left = unread
  <2>1. SubSeq(unread, 1, n) \o SubSeq(unread, n + 1, Len(unread)) = SubSeq(unread, 1, Len(unread))
    <3>1. /\ 1 \in 1..Len(unread)+1 /\ n \in 1-1..Len(unread)
          /\ Len(unread) \in n..Len(unread) /\ unread \in Seq(Lines)
      BY <1>1
    <3>2. QED BY <3>1, ConcatAdjacentSubSeq
  <2>2. SubSeq(unread, 1, Len(unread)) = unread
    OBVIOUS
  <2>3. QED BY <1>2, <1>4, <2>1, <2>2
<1>7. Taken = <<>> => unread = <<>>
  BY <1>1, <1>3
<1>8. QED BY <1>3, <1>5, <1>6, <1>7
-----------------------------------------------------------------------------
LEMMA InitInv == Init => IInv
<1> SUFFICES ASSUME Init PROVE IInv
  OBVIOUS
<1>1. \A V : <<>> \in ArrayOf(V)
  <2>1. \A V : <<>> \in [{} -> V]
    OBVIOUS
  <2>2. QED BY <2>1 DEF ArrayOf
<1>2. debug \in GoodArrays
  BY <1>1 DEF Init, NoWindows, GoodArrays, Arrays
<1>3. debug.cmd = <<>>
  BY DEF Init, NoWindows
<1>4. TypeOK
  <2>1. toplev \in BOOLEAN /\ timers \in Nat /\ runs \in Nat /\ term_pipe \in 0..runs
    <3>1. toplev = FALSE /\ timers = 0 /\ runs = 0 /\ term_pipe = 0
      BY DEF Init
    <3>2. 0 \in 0..0
      OBVIOUS
    <3>3. QED BY <3>1, <3>2
  <2>2. readable \subseteq open /\ eof \subseteq open /\ exited \subseteq open
    BY DEF Init
  <2>3. printed \in Seq(Lines) /\ unread \in Seq(Lines) /\ shown \in Seq(Lines)
    BY DEF Init
  <2>4. QED BY <1>2, <2>1, <2>2, <2>3 DEF TypeOK
<1>5. NothingLeftBehind
  BY <1>2, <1>3, Reached DEF Init, NothingLeftBehind
<1>6. OutputInOrder
  BY DEF Init, OutputInOrder
<1>7. QED BY <1>4, <1>5, <1>6 DEF IInv

\* Closing the terminal leaves nothing, whatever there was.
LEMMA CloseInv ==
  ASSUME IInv, close_term, toplev' \in BOOLEAN, timers' \in Nat, toplev' => timers' > 0,
         UNCHANGED <<runs, printed, shown>>,
         toplev' => shown = printed
  PROVE  IInv'
<1>1. /\ debug' \in GoodArrays /\ debug'.cmd = <<>>
      /\ \A n \in debug'.window : Drawn(debug', n) => n \in DOMAIN debug'.cmd
  BY DestroyWindowsGood, Reached DEF close_term, IInv, TypeOK
<1>2. TypeOK'
  BY <1>1 DEF close_term, Close, IInv, TypeOK, NothingLeftBehind
<1>3. NothingLeftBehind'
  BY <1>1 DEF close_term, Close, IInv, TypeOK, NothingLeftBehind
<1>4. OutputInOrder'
  <2>1. shown \o <<>> = shown
    BY ConcatEmptySeq DEF IInv, TypeOK
  <2>2. QED BY <2>1 DEF close_term, Close, OutputInOrder
<1>5. QED BY <1>2, <1>3, <1>4 DEF IInv

LEMMA ReadsInv ==
  ASSUME IInv, Reads, Shows
  PROVE  IInv'
<1> USE DEF IInv
<1>1. /\ Taken \in Seq(Lines) /\ Left \in Seq(Lines) /\ Taken \o Left = unread
  BY TakenLeft DEF TypeOK
<1> DEFINE s == term_recv(Taken)
<1>2. s \in Good /\ (s.ok => s.shown = shown \o Taken)
  BY <1>1, term_recvGood
<1>3. /\ shown' = s.shown /\ debug' = DebugOf(s)
      /\ readable' = IF s.ok THEN readable ELSE readable \ {term_pipe}
  BY DEF Shows
<1>4. /\ UNCHANGED <<toplev, timers, runs, printed, term_pipe, open, exited>>
      /\ unread' = Left /\ eof' \subseteq eof \cup {term_pipe} /\ term_pipe \in readable
  BY DEF Reads
<1> HIDE DEF s
<1>5. toplev
  BY <1>4 DEF TypeOK, NothingLeftBehind
<1>6. /\ debug' \in GoodArrays /\ shown' \in Seq(Lines)
      /\ \A n \in debug'.window : Drawn(debug', n) => n \in DOMAIN debug'.cmd
  BY <1>2, <1>3, DebugOfGood, GoodFields, Reached
<1>7. TypeOK'
  BY <1>1, <1>3, <1>4, <1>6 DEF TypeOK
<1>8. NothingLeftBehind'
  BY <1>4, <1>5, <1>6 DEF TypeOK, NothingLeftBehind
<1>9. OutputInOrder'
  <2>1. CASE s.ok
    <3>1. shown' \o unread' = shown \o unread
      <4>1. shown \in Seq(Lines) /\ (shown \o Taken) \o Left = shown \o (Taken \o Left)
        BY <1>1, ConcatLines DEF TypeOK
      <4>2. shown' = shown \o Taken /\ unread' = Left
        BY <1>2, <1>3, <1>4, <2>1
      <4>3. QED BY <1>1, <4>1, <4>2
    <3>2. QED BY <1>3, <1>4, <2>1, <3>1 DEF OutputInOrder
  <2>2. CASE ~s.ok
    BY <1>3, <1>4, <2>2 DEF OutputInOrder, TypeOK, NothingLeftBehind
  <2>3. QED BY <2>1, <2>2
<1>10. QED BY <1>7, <1>8, <1>9

LEMMA RunInv ==
  ASSUME IInv, RunInWindow
  PROVE  IInv'
<1> USE DEF IInv
<1>1. /\ debug' = debug /\ debug \in GoodArrays
      /\ \A n \in debug'.window : Drawn(debug', n) => n \in DOMAIN debug'.cmd
  BY Reached DEF RunInWindow, TypeOK
<1>2. toplev' = TRUE /\ timers' \in Nat /\ timers' > 0
  BY DEF RunInWindow, TypeOK, NothingLeftBehind
<1>3. runs' = runs + 1 /\ runs' \in Nat /\ term_pipe' \in 0..runs' /\ term_pipe \in 0..runs
  BY DEF RunInWindow, TypeOK
<1>4. open' = {term_pipe'} \ {0}
  <2>1. open = {term_pipe} \ {0}
    BY DEF NothingLeftBehind
  <2>2. open \ {term_pipe} = {} /\ runs + 1 # 0
    BY <2>1 DEF TypeOK
  <2>3. CASE term_pipe' = runs + 1 /\ open' = (open \ {term_pipe}) \cup {runs + 1}
    BY <2>2, <2>3
  <2>4. CASE term_pipe' = 0 /\ open' = open \ {term_pipe}
    BY <2>2, <2>4
  <2>5. QED BY <2>3, <2>4 DEF RunInWindow
<1>5. readable' \subseteq open' /\ eof' \subseteq open' /\ exited' \subseteq open'
  BY <1>3, <1>4 DEF RunInWindow, TypeOK, NothingLeftBehind
<1>6. shown' = <<>> /\ unread' = <<>> /\ printed' = <<>>
  BY DEF RunInWindow, term_clear
<1>7. TypeOK' /\ NothingLeftBehind'
  BY <1>1, <1>2, <1>3, <1>4, <1>5, <1>6 DEF TypeOK, NothingLeftBehind
<1>8. OutputInOrder'
  BY <1>6 DEF OutputInOrder
<1>9. QED BY <1>7, <1>8

LEMMA PrintsInv ==
  ASSUME IInv, ProgramPrints
  PROVE  IInv'
<1> USE DEF IInv
<1>1. PICK l \in Lines : printed' = Append(printed, l) /\ unread' = Append(unread, l)
  BY DEF ProgramPrints
<1>2. UNCHANGED <<toplev, timers, channels, runs, shown, debug>>
  BY DEF ProgramPrints
<1>3. TypeOK' /\ NothingLeftBehind'
  BY <1>1, <1>2 DEF TypeOK, NothingLeftBehind, channels
<1>4. shown \o Append(unread, l) = Append(shown \o unread, l)
  BY AppendConcat DEF TypeOK
<1>5. OutputInOrder'
  BY <1>1, <1>2, <1>4 DEF OutputInOrder, channels
<1>6. QED BY <1>3, <1>5

LEMMA NextInv == IInv /\ [Next]_vars => IInv'
<1> SUFFICES ASSUME IInv, [Next]_vars PROVE IInv'
  OBVIOUS
<1>1. CASE Reads /\ Shows
  BY <1>1, ReadsInv
<1>2. CASE ReadsEnd
  <2>1. /\ close_term /\ UNCHANGED <<toplev, timers, runs, printed, shown>>
        /\ term_pipe \in readable /\ Taken = <<>>
    BY <1>2 DEF ReadsEnd
  <2>2. toplev /\ timers > 0 /\ timers \in Nat /\ unread = <<>>
    BY <2>1, TakenLeft DEF IInv, TypeOK, NothingLeftBehind
  <2>3. shown = printed
    BY <2>1, <2>2, ConcatEmptySeq DEF IInv, TypeOK, OutputInOrder
  <2>4. QED BY <2>1, <2>2, <2>3, CloseInv
<1>3. CASE RunInWindow
  BY <1>3, RunInv
<1>4. CASE UserCloses \/ term_send
  BY <1>4, CloseInv DEF UserCloses, term_send, Destroy, IInv, TypeOK
<1>5. CASE term_timer
  BY <1>5 DEF term_timer, channels, IInv, TypeOK, NothingLeftBehind, OutputInOrder
<1>6. CASE ProgramPrints
  BY <1>6, PrintsInv
<1>7. CASE ProgramEnds
  BY <1>7 DEF ProgramEnds, IInv, TypeOK, NothingLeftBehind, OutputInOrder
<1>8. CASE ClosesDebugWindow
  <2>1. PICK n \in debug.window :
          debug' = [debug EXCEPT !.window = debug.window \ {n}, !.bare = debug.bare \ {n}]
    BY <1>8 DEF ClosesDebugWindow
  <2>2. /\ debug' \in GoodArrays /\ debug'.cmd = debug.cmd
        /\ \A m \in debug'.window : Drawn(debug', m) => m \in DOMAIN debug'.cmd
    <3>1. debug' \in GoodArrays /\ debug'.cmd = debug.cmd
      BY <2>1 DEF IInv, TypeOK, GoodArrays, Arrays
    <3>2. QED BY <3>1, Reached
  <2>3. UNCHANGED <<toplev, timers, channels, runs, printed, unread, shown>>
    BY <1>8 DEF ClosesDebugWindow
  <2>4. QED BY <2>2, <2>3 DEF channels, IInv, TypeOK, NothingLeftBehind, OutputInOrder
<1>9. CASE UNCHANGED vars
  BY <1>9 DEF vars, channels, IInv, TypeOK, NothingLeftBehind, OutputInOrder
<1>10. QED
  BY <1>1, <1>2, <1>3, <1>4, <1>5, <1>6, <1>7, <1>8, <1>9 DEF Next, Terminal_Data

LEMMA Invariant == Spec => []IInv
  BY InitInv, NextInv, PTL DEF Spec

\* The terminal shows, in order and once, what the program it is connected
\* to has printed and is not still in the pipe.
THEOREM OutputInOrderHolds == Spec => []OutputInOrder
<1>1. IInv => OutputInOrder
  BY DEF IInv
<1>2. QED BY <1>1, Invariant, PTL

\* Nothing of a terminal that is gone is left: its channel, its program's
\* debug windows, and the arrays they are found by.  Only a window whose
\* making failed may stay.
THEOREM NothingLeftBehindHolds == Spec => []NothingLeftBehind
<1>1. IInv => NothingLeftBehind
  BY DEF IInv
<1>2. QED BY <1>1, Invariant, PTL
=============================================================================
