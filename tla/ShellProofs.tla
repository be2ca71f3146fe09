----------------------------- MODULE ShellProofs -----------------------------
(***************************************************************************)
(* Theorems about the shell: a line runs as the words it was typed as, a   *)
(* command leaves nothing open and the user where he was, and a copy is a  *)
(* copy.  They rest on what the functions on text compute (FlattenSeq and  *)
(* Names by induction over their folds, Inductions) and on what the trees  *)
(* of the media hold after every call of the library.                      *)
(***************************************************************************)
EXTENDS Shell, Inductions

\* Characters, and the names of files and directories.
Symbol  == STRING \cup {SL, SP, NL, "null", "host", "sd", "flash", "pfs", "ram"}
DirName == {w \in Seq(Symbol) : w # <<>> /\ \A i \in 1..Len(w) : w[i] # SL}

-----------------------------------------------------------------------------
(* Names of paths.                                                         *)

LEMMA NameToIsName ==
  ASSUME NEW s \in Seq(Symbol), NEW i \in 1..Len(s), s[i] # SL
  PROVE  /\ NameTo(s, i) \in DirName
         /\ \E j \in 1..i : /\ NameTo(s, i) = SubSeq(s, j, i)
                            /\ \A k \in j..i : s[k] # SL
                            /\ \A m \in 1..i : (\A k \in m..i : s[k] # SL) => j <= m
<1> DEFINE J == {j \in 1..i : \A k \in j..i : s[k] # SL}
           j == Min(J)
<1>1. i \in J /\ J \subseteq Nat
  OBVIOUS
<1>2. j \in J /\ \A m \in J : j <= m
  BY <1>1, MinOf
<1>3. NameTo(s, i) = SubSeq(s, j, i)
  BY DEF NameTo
<1> HIDE DEF j
<1>4. j \in 1..i /\ \A k \in j..i : s[k] # SL
  BY <1>2
<1>5. NameTo(s, i) \in DirName
  <2>1. \A k \in j..i : s[k] \in Symbol
    BY <1>4
  <2>2. /\ SubSeq(s, j, i) \in Seq(Symbol)
        /\ Len(SubSeq(s, j, i)) = i - j + 1
        /\ \A k \in 1..i-j+1 : SubSeq(s, j, i)[k] = s[j+k-1]
    BY <1>4, <2>1, SubSeqProperties
  <2>3. \A k \in 1..i-j+1 : j+k-1 \in j..i
    BY <1>4
  <2>4. SubSeq(s, j, i) # <<>>
    BY <1>4, <2>2
  <2> QED BY <1>3, <1>4, <2>2, <2>3, <2>4 DEF DirName
<1>6. \A m \in 1..i : (\A k \in m..i : s[k] # SL) => j <= m
  BY <1>2
<1> QED BY <1>3, <1>4, <1>5, <1>6

\* The names of s, as they are found from its first character to its last.
LEMMA NamesFold ==
  ASSUME NEW s \in Seq(Symbol)
  PROVE  \E h : /\ h[0] = <<>> /\ h[Len(s)] = Names(s)
                /\ \A k \in 1..Len(s) :
                     h[k] = IF NameEnds(s, k) THEN Append(h[k-1], NameTo(s, k)) ELSE h[k-1]
                /\ \A k \in 0..Len(s) : h[k] \in Seq(DirName)
<1> DEFINE L == Len(s)
           D == Seq(DirName)
           R == Names(s)
           Ix == [i \in 1..L |-> i]
           Eq(g) == g = [q \in SUBSET (1..L) |->
                           IF q = {} THEN <<>>
                           ELSE IF NameEnds(s, Ix[Max(q)])
                                THEN Append(g[q \ {Max(q)}], NameTo(s, Ix[Max(q)]))
                                ELSE g[q \ {Max(q)}]]
           step == [i \in 1..L |-> [e \in D |-> IF NameEnds(s, i) THEN Append(e, NameTo(s, i)) ELSE e]]
<1>1. L \in Nat /\ DOMAIN s = 1..L /\ <<>> \in D
  OBVIOUS
<1>2. \A i \in 1..L, e \in D : NameEnds(s, i) => Append(e, NameTo(s, i)) \in D
  BY NameToIsName DEF NameEnds
<1>3. R = (CHOOSE g : Eq(g))[1..L]
  <2>1. R = (CHOOSE g : g = [q \in SUBSET (DOMAIN [i \in DOMAIN s |-> i]) |->
                               IF q = {} THEN <<>>
                               ELSE IF NameEnds(s, [i \in DOMAIN s |-> i][Max(q)])
                                    THEN Append(g[q \ {Max(q)}], NameTo(s, [i \in DOMAIN s |-> i][Max(q)]))
                                    ELSE g[q \ {Max(q)}]])[DOMAIN [i \in DOMAIN s |-> i]]
    BY DEF Names, FoldLeftDomain, FoldLeft, MapThenFoldSet
  <2>2. DOMAIN [i \in DOMAIN s |-> i] = 1..L /\ [i \in DOMAIN s |-> i] = Ix
    BY <1>1
  <2> HIDE DEF R
  <2> QED BY <2>1, <2>2
<1>4. \A i \in 1..L : Ix[i] = i
  OBVIOUS
<1> HIDE DEF D, L, R, Ix
<1>5. \E g : Eq(g)
  <2>1. step \in [1..L -> [D -> D]]
        /\ \A i \in 1..L, e \in D :
             step[i][e] = IF NameEnds(s, i) THEN Append(e, NameTo(s, i)) ELSE e
    BY <1>2
  <2> HIDE DEF step
  <2>2. PICK g : Folding(g, L, D, <<>>, step)
    BY <1>1, <2>1, FoldSolved
  <2>3. \A q \in SUBSET (1..L) : q # {} => Max(q) \in 1..L /\ g[q \ {Max(q)}] \in D
    BY <1>1, <2>2, MaxOf DEF Folding
  <2>4. \A q \in SUBSET (1..L) :
          g[q] = IF q = {} THEN <<>>
                 ELSE IF NameEnds(s, Ix[Max(q)])
                      THEN Append(g[q \ {Max(q)}], NameTo(s, Ix[Max(q)]))
                      ELSE g[q \ {Max(q)}]
    <3> SUFFICES ASSUME NEW q \in SUBSET (1..L), q # {}
                 PROVE  g[q] = IF NameEnds(s, Ix[Max(q)])
                               THEN Append(g[q \ {Max(q)}], NameTo(s, Ix[Max(q)]))
                               ELSE g[q \ {Max(q)}]
      BY <2>2 DEF Folding
    <3>1. g[q] = step[Max(q)][g[q \ {Max(q)}]]
      BY <2>2 DEF Folding
    <3>2. Max(q) \in 1..L /\ g[q \ {Max(q)}] \in D /\ Ix[Max(q)] = Max(q)
      BY <1>4, <2>3
    <3> QED BY <2>1, <3>1, <3>2
  <2>5. QED BY <2>2, <2>4 DEF Folding
<1>6. PICK g : Eq(g) /\ R = g[1..L]
  <2> HIDE DEF Eq
  <2>1. QED BY <1>3, <1>5
<1>7. \A q \in SUBSET (1..L) :
        g[q] = IF q = {} THEN <<>>
               ELSE IF NameEnds(s, Ix[Max(q)])
                    THEN Append(g[q \ {Max(q)}], NameTo(s, Ix[Max(q)]))
                    ELSE g[q \ {Max(q)}]
  BY <1>6
<1>8. R = g[1..L]
  BY <1>6
<1> HIDE DEF Eq
<1> DEFINE h == [k \in 0..L |-> g[1..k]]
<1>9. h[0] = <<>> /\ h[L] = R
  <2>1. 1..0 = {}
    OBVIOUS
  <2>2. h[0] = g[{}] /\ h[L] = g[1..L]
    BY <1>1, <2>1
  <2>3. {} \in SUBSET (1..L)
    OBVIOUS
  <2> QED BY <1>7, <1>8, <2>2, <2>3
<1>10. ASSUME NEW k \in 1..L
       PROVE h[k] = IF NameEnds(s, k) THEN Append(h[k-1], NameTo(s, k)) ELSE h[k-1]
  <2>1. h[k] = g[1..k] /\ h[k-1] = g[1..k-1]
    BY <1>1
  <2>2. 1..k # {} /\ 1..k \in SUBSET (1..L) /\ Max(1..k) = k /\ (1..k) \ {Max(1..k)} = 1..k-1
        /\ Ix[k] = k
    BY <1>1, <1>4, FoldSteps
  <2> HIDE DEF h
  <2> QED BY <1>7, <2>1, <2>2
<1> HIDE DEF h
<1>11. \A k \in 0..L : h[k] \in D
  <2> DEFINE E == [k \in 0..L |-> D]
  <2>1. \A k \in 0..L : E[k] = D
    OBVIOUS
  <2>2. 0 \in 0..L /\ \A k \in 1..L : k \in 0..L /\ k-1 \in 0..L
    BY <1>1
  <2> HIDE DEF E
  <2>3. h[0] \in E[0]
    BY <1>1, <1>9, <2>1, <2>2
  <2>4. ASSUME NEW k \in 1..L, h[k-1] \in E[k-1] PROVE h[k] \in E[k]
    BY <1>2, <1>10, <2>1, <2>2, <2>4
  <2>5. \A k \in 0..L : h[k] \in E[k]
    BY <1>1, <2>3, <2>4, StepsStay
  <2> QED BY <2>1, <2>5
<1> QED BY <1>9, <1>10, <1>11 DEF L, D, R

LEMMA NamesAreNames ==
  ASSUME NEW s \in Seq(Symbol)
  PROVE  Names(s) \in Seq(DirName)
<1>1. Len(s) \in 0..Len(s)
  OBVIOUS
<1> QED BY <1>1, NamesFold

\* A name after the names there are.
LEMMA NamesJoin ==
  ASSUME NEW t \in Seq(Symbol), NEW w \in DirName
  PROVE  /\ t \o (<<SL>> \o w) \in Seq(Symbol)
         /\ Names(t \o (<<SL>> \o w)) = Append(Names(t), w)
<1> DEFINE u == <<SL>> \o w
           s == t \o u
           T == Len(t)
           W == Len(w)
           N == Len(s)
<1>1. /\ w \in Seq(Symbol) /\ W \in Nat /\ W >= 1 /\ T \in Nat
      /\ \A k \in 1..W : w[k] # SL
  BY EmptySeq DEF DirName
<1>2. u \in Seq(Symbol) /\ Len(u) = W + 1 /\ u[1] = SL /\ \A k \in 1..W : u[k+1] = w[k]
  <2>1. <<SL>> \in Seq(Symbol) /\ Len(<<SL>>) = 1 /\ <<SL>>[1] = SL
    BY DEF Symbol
  <2>2. /\ u \in Seq(Symbol) /\ Len(u) = 1 + W
        /\ \A i \in 1..1+W : u[i] = IF i <= 1 THEN <<SL>>[i] ELSE w[i-1]
    BY <1>1, <2>1, ConcatProperties
  <2>3. \A k \in 1..W : k+1 \in 1..1+W /\ ~(k+1 <= 1) /\ (k+1)-1 = k
    BY <1>1
  <2> HIDE DEF u
  <2> QED BY <1>1, <2>1, <2>2, <2>3
<1> HIDE DEF u
<1>3. /\ s \in Seq(Symbol) /\ N = T + (W + 1)
      /\ \A i \in 1..N : s[i] = IF i <= T THEN t[i] ELSE u[i-T]
  <2>1. /\ s \in Seq(Symbol) /\ Len(s) = Len(t) + Len(u)
        /\ \A i \in 1..Len(t) + Len(u) : s[i] = IF i <= Len(t) THEN t[i] ELSE u[i-Len(t)]
    BY <1>2, ConcatProperties
  <2> HIDE DEF s
  <2>2. N = T + (W + 1) /\ N = Len(t) + Len(u)
    BY <1>2, <2>1
  <2> QED BY <2>1, <2>2
<1>4. \A i \in 1..T : s[i] = t[i]
  BY <1>1, <1>3
<1>5. s[T+1] = SL /\ \A k \in 1..W : s[T+1+k] = w[k]
  <2>1. T+1 \in 1..N /\ ~(T+1 <= T) /\ (T+1)-T = 1
    BY <1>1, <1>3
  <2>2. \A k \in 1..W : T+1+k \in 1..N /\ ~(T+1+k <= T) /\ (T+1+k)-T = k+1
    BY <1>1, <1>3
  <2> HIDE DEF s, T, W, N
  <2> QED BY <1>2, <1>3, <2>1, <2>2
<1> HIDE DEF N, T, W
<1>6. ASSUME NEW i \in 1..T
      PROVE  /\ NameEnds(s, i) <=> NameEnds(t, i)
             /\ NameEnds(t, i) => NameTo(s, i) = NameTo(t, i)
  <2>1. i # N /\ i \in 1..N /\ (i = T => s[i+1] = SL) /\ (i # T => i+1 \in 1..T)
    <3> HIDE DEF s
    <3> QED BY <1>1, <1>3, <1>5
  <2>2. NameEnds(s, i) <=> NameEnds(t, i)
    BY <1>4, <2>1 DEF NameEnds, N, T
  <2>3. SUFFICES ASSUME t[i] # SL PROVE NameTo(s, i) = NameTo(t, i)
    BY <2>2 DEF NameEnds
  <2>4. s[i] # SL /\ i \in 1..Len(s) /\ i \in 1..Len(t)
    BY <1>4, <2>1, <2>3 DEF N, T
  <2>5. PICK j \in 1..i : /\ NameTo(s, i) = SubSeq(s, j, i)
                          /\ \A k \in j..i : s[k] # SL
                          /\ \A m \in 1..i : (\A k \in m..i : s[k] # SL) => j <= m
    BY <1>3, <2>4, NameToIsName
  <2>6. PICK l \in 1..i : /\ NameTo(t, i) = SubSeq(t, l, i)
                          /\ \A k \in l..i : t[k] # SL
                          /\ \A m \in 1..i : (\A k \in m..i : t[k] # SL) => l <= m
    BY <2>3, <2>4, NameToIsName
  <2>7. \A m \in 1..i : \A k \in m..i : s[k] = t[k]
    <3>1. \A m \in 1..i : \A k \in m..i : k \in 1..T
      BY <1>1
    <3> QED BY <1>4, <3>1
  <2> HIDE DEF s
  <2>8. j <= l /\ l <= j
    BY <2>5, <2>6, <2>7
  <2>9. j = l
    BY <2>8
  <2>10. SubSeq(s, j, i) = SubSeq(t, j, i)
    <3>1. j \in 1..Len(t) /\ i \in 1..Len(t)
      BY <1>1, <2>4
    <3> QED BY <1>2, <3>1, SubSeqOfConcat1 DEF s
  <2> QED BY <2>5, <2>6, <2>9, <2>10
<1>7. ASSUME NEW k \in T+1..N-1 PROVE ~NameEnds(s, k)
  <2>1. k = T+1 \/ (k - T \in 1..W /\ k = T+1+(k-T-1) /\ k+1 = T+1+(k-T) /\ k # N)
    BY <1>1, <1>3
  <2> HIDE DEF s
  <2>2. CASE k = T+1
    BY <1>5, <2>2 DEF NameEnds
  <2>3. CASE k - T \in 1..W /\ k+1 = T+1+(k-T) /\ k # N
    <3>1. s[k+1] = w[k-T]
      BY <1>5, <2>3
    <3>2. s[k+1] # SL
      BY <1>1, <2>3, <3>1
    <3> QED BY <2>3, <3>2 DEF NameEnds, N
  <2> QED BY <2>1, <2>2, <2>3
<1>8. NameEnds(s, N) /\ NameTo(s, N) = w
  <2>1. N \in 1..N /\ N = T+1+W /\ T+2 \in 1..N /\ T+1 \in 1..N /\ W \in 1..W
    BY <1>1, <1>3
  <2>2. s[N] # SL
    <3> HIDE DEF s
    <3>1. s[N] = w[W]
      BY <1>5, <2>1
    <3> QED BY <1>1, <2>1, <3>1
  <2>3. PICK j \in 1..N : /\ NameTo(s, N) = SubSeq(s, j, N)
                          /\ \A k \in j..N : s[k] # SL
                          /\ \A m \in 1..N : (\A k \in m..N : s[k] # SL) => j <= m
    BY <1>3, <2>1, <2>2, NameToIsName DEF N
  <2> HIDE DEF s
  <2>4. \A k \in T+2..N : s[k] # SL
    <3> SUFFICES ASSUME NEW k \in T+2..N PROVE s[k] # SL
      OBVIOUS
    <3>1. PICK l \in 1..W : k = T+1+l
      <4>1. k-T-1 \in 1..W /\ k = T+1+(k-T-1)
        BY <1>1, <2>1
      <4> QED BY <4>1
    <3>2. s[k] = w[l]
      BY <1>5, <3>1
    <3> QED BY <1>1, <3>2
  <2>5. j <= T+2
    BY <2>1, <2>3, <2>4
  <2>6. ~(j <= T+1)
    BY <1>1, <1>5, <2>1, <2>3
  <2>7. j = T+2
    BY <1>1, <2>5, <2>6
  <2>8. SubSeq(s, T+2, N) = w
    <3>1. \A k \in T+2..N : s[k] \in Symbol
      BY <1>1, <1>3, <2>1 DEF N
    <3>2. T+2 \in Int /\ N \in Int /\ N - (T+2) + 1 = W /\ T+2 <= N
      BY <1>1, <2>1
    <3>3. /\ SubSeq(s, T+2, N) \in Seq(Symbol) /\ Len(SubSeq(s, T+2, N)) = W
          /\ \A k \in 1..W : SubSeq(s, T+2, N)[k] = s[T+2+k-1]
      BY <3>1, <3>2, SubSeqProperties
    <3>4. \A k \in 1..W : T+2+k-1 = T+1+k
      BY <1>1
    <3>5. \A k \in 1..W : SubSeq(s, T+2, N)[k] = w[k]
      BY <1>5, <3>3, <3>4
    <3> QED BY <1>1, <3>3, <3>5, SeqEqual DEF W
  <2>9. NameEnds(s, N)
    BY <2>2 DEF NameEnds, N
  <2> QED BY <2>3, <2>7, <2>8, <2>9
<1> HIDE DEF s
<1>9. PICK h : /\ h[0] = <<>> /\ h[N] = Names(s)
               /\ \A k \in 1..N :
                    h[k] = IF NameEnds(s, k) THEN Append(h[k-1], NameTo(s, k)) ELSE h[k-1]
  BY <1>3, NamesFold DEF N
<1>10. PICK g : /\ g[0] = <<>> /\ g[T] = Names(t)
                /\ \A k \in 1..T :
                     g[k] = IF NameEnds(t, k) THEN Append(g[k-1], NameTo(t, k)) ELSE g[k-1]
  BY NamesFold DEF T
<1> DEFINE A == {k \in Nat : k <= N-1 => h[k] = IF k <= T THEN g[k] ELSE g[T]}
<1>11. 0 \in A
  BY <1>1, <1>9, <1>10
<1>12. ASSUME NEW k \in Nat, k \in A PROVE k + 1 \in A
  <2>1. SUFFICES ASSUME k + 1 <= N-1 PROVE h[k+1] = IF k+1 <= T THEN g[k+1] ELSE g[T]
    OBVIOUS
  <2>2. PICK l \in 1..N : l = k+1 /\ l-1 = k /\ N \in Nat
    BY <1>1, <1>3, <2>1
  <2>3. h[l] = IF NameEnds(s, l) THEN Append(h[l-1], NameTo(s, l)) ELSE h[l-1]
    BY <1>9
  <2>4. h[k] = IF k <= T THEN g[k] ELSE g[T]
    BY <1>12, <2>1, <2>2
  <2>5. CASE k + 1 <= T
    <3>1. l \in 1..T /\ k <= T
      BY <1>1, <2>2, <2>5
    <3>2. g[l] = IF NameEnds(t, l) THEN Append(g[l-1], NameTo(t, l)) ELSE g[l-1]
      BY <1>10, <3>1
    <3>3. h[l-1] = g[l-1]
      BY <2>2, <2>4, <3>1
    <3>4. h[l] = g[l]
      BY <1>6, <2>3, <3>1, <3>2, <3>3
    <3> QED BY <2>2, <2>5, <3>4
  <2>6. CASE ~(k + 1 <= T)
    <3>1. l \in T+1..N-1 /\ (k <= T => k = T)
      BY <1>1, <2>1, <2>2, <2>6
    <3>2. h[l] = h[k]
      BY <1>7, <2>2, <2>3, <3>1
    <3>3. h[k] = g[T]
      BY <2>4, <3>1
    <3> QED BY <2>2, <2>6, <3>2, <3>3
  <2> QED BY <2>5, <2>6
<1>13. Nat \subseteq A
  <2> HIDE DEF A
  <2> QED BY <1>11, <1>12, Inductive
<1>14. h[N-1] = g[T]
  <2>1. N-1 \in Nat /\ N-1 <= N-1 /\ (N-1 <= T => N-1 = T)
    BY <1>1, <1>3
  <2>2. h[N-1] = IF N-1 <= T THEN g[N-1] ELSE g[T]
    BY <1>13, <2>1
  <2> QED BY <2>1, <2>2
<1>15. N \in 1..N
  BY <1>1, <1>3
<1>16. h[N] = Append(h[N-1], w)
  BY <1>8, <1>9, <1>15
<1>17. Names(s) = Append(Names(t), w)
  BY <1>9, <1>10, <1>14, <1>16
<1> QED BY <1>3, <1>17 DEF s, u

LEMMA NamesOfNone == Names(<<>>) = <<>> /\ Names(<<SL>>) = <<>>
<1>1. <<>> \in Seq(Symbol) /\ Len(<<>>) = 0
  OBVIOUS
<1>2. Names(<<>>) = <<>>
  BY <1>1, NamesFold
<1>3. <<SL>> \in Seq(Symbol) /\ Len(<<SL>>) = 1 /\ <<SL>>[1] = SL
  BY DEF Symbol
<1>4. ~NameEnds(<<SL>>, 1)
  BY <1>3 DEF NameEnds
<1>5. Names(<<SL>>) = <<>>
  <2>1. PICK h : /\ h[0] = <<>> /\ h[Len(<<SL>>)] = Names(<<SL>>)
                 /\ \A k \in 1..Len(<<SL>>) :
                      h[k] = IF NameEnds(<<SL>>, k) THEN Append(h[k-1], NameTo(<<SL>>, k)) ELSE h[k-1]
    BY <1>3, NamesFold
  <2>2. h[1] = h[0]
    <3>1. 1 \in 1..Len(<<SL>>) /\ 1-1 = 0
      BY <1>3
    <3> QED BY <1>4, <2>1, <3>1
  <2> QED BY <1>3, <2>1, <2>2
<1> QED BY <1>2, <1>5

\* getcwd writes a path that chdir reads as the same directory.
LEMMA NamesOfText ==
  ASSUME NEW p \in Seq(DirName)
  PROVE  /\ Text(p) \in Seq(Symbol) /\ Text(p) # <<>> /\ Head(Text(p)) = SL
         /\ Names(Text(p)) = p
<1> DEFINE L == Len(p)
           q == [i \in DOMAIN p |-> <<SL>> \o p[i]]
<1>1. /\ L \in Nat /\ DOMAIN p = 1..L /\ \A i \in 1..L : p[i] \in DirName /\ p[i] \in Seq(Symbol)
  <2>1. L \in Nat /\ DOMAIN p = 1..L /\ \A i \in 1..L : p[i] \in DirName
    OBVIOUS
  <2> QED BY <2>1 DEF DirName
<1>2. <<SL>> \in Seq(Symbol) /\ <<SL>> # <<>> /\ Head(<<SL>>) = SL /\ Len(<<SL>>) = 1 /\ <<SL>>[1] = SL
  BY DEF Symbol
<1>3. \A i \in 1..L : <<SL>> \o p[i] \in Seq(Symbol)
  BY <1>1, <1>2, ConcatProperties
<1>4. q \in Seq(Seq(Symbol)) /\ Len(q) = L /\ \A i \in 1..L : q[i] = <<SL>> \o p[i]
  BY <1>1, <1>3
<1>5. p # <<>> => Text(p) = FlattenSeq(q)
  BY DEF Text
<1> HIDE DEF q
<1>6. PICK h : /\ h[0] = <<>> /\ (q # <<>> => h[Len(q)] = FlattenSeq(q))
               /\ \A k \in 1..Len(q) : h[k] = h[k-1] \o q[k]
               /\ \A k \in 0..Len(q) : h[k] \in Seq(Symbol)
  BY <1>4, FlattenFold
<1> DEFINE A == {k \in Nat : k <= L => /\ Names(h[k]) = SubSeq(p, 1, k)
                                       /\ k # 0 => h[k] # <<>> /\ Head(h[k]) = SL}
<1>7. 0 \in A
  <2>1. SubSeq(p, 1, 0) = <<>>
    BY SubSeqEmpty
  <2> QED BY <1>6, <2>1, NamesOfNone
<1>8. ASSUME NEW k \in Nat, k \in A PROVE k + 1 \in A
  <2>1. SUFFICES ASSUME k + 1 <= L
                 PROVE  /\ Names(h[k+1]) = SubSeq(p, 1, k+1)
                        /\ h[k+1] # <<>> /\ Head(h[k+1]) = SL
    OBVIOUS
  <2>2. PICK l \in 1..L : l = k+1 /\ l-1 = k /\ k \in 0..L
    BY <1>1, <2>1
  <2>3. h[l] = h[k] \o (<<SL>> \o p[l]) /\ h[k] \in Seq(Symbol)
    BY <1>4, <1>6, <2>2
  <2>4. Names(h[l]) = Append(Names(h[k]), p[l])
    BY <1>1, <2>3, NamesJoin
  <2>5. Names(h[k]) = SubSeq(p, 1, k) /\ (k # 0 => h[k] # <<>> /\ Head(h[k]) = SL)
    BY <1>8, <2>1
  <2>6. Append(SubSeq(p, 1, k), p[k+1]) = SubSeq(p, 1, k+1)
    BY <1>1, <2>2
  <2>7. h[l] # <<>> /\ Head(h[l]) = SL
    <3>1. CASE k = 0
      <4>1. h[l] = <<SL>> \o p[l] /\ p[l] \in Seq(Symbol)
        <5>1. h[k] = <<>> /\ <<SL>> \o p[l] \in Seq(Symbol)
          BY <1>3, <1>6, <3>1
        <5> QED BY <1>1, <2>3, <5>1, ConcatEmptySeq
      <4>2. Len(<<SL>> \o p[l]) >= 1 /\ (<<SL>> \o p[l])[1] = SL
        BY <1>2, <4>1, ConcatProperties
      <4> HIDE DEF q
      <4>3. \A v : v \in Seq(Symbol) /\ Len(v) >= 1 => v # <<>> /\ Head(v) = v[1]
        OBVIOUS
      <4> QED BY <1>3, <4>1, <4>2, <4>3
    <3>2. CASE k # 0
      <4>1. h[k] # <<>> /\ Head(h[k]) = SL /\ <<SL>> \o p[l] \in Seq(Symbol)
        BY <1>3, <2>5, <3>2
      <4>2. \A u, v \in Seq(Symbol) : u # <<>> => u \o v # <<>> /\ Head(u \o v) = Head(u)
        OBVIOUS
      <4> QED BY <2>3, <4>1, <4>2
    <3> QED BY <3>1, <3>2
  <2> QED BY <2>2, <2>4, <2>5, <2>6, <2>7
<1>9. Nat \subseteq A
  <2> HIDE DEF A
  <2> QED BY <1>7, <1>8, Inductive
<1>10. CASE p = <<>>
  BY <1>2, <1>10, NamesOfNone DEF Text
<1>11. CASE p # <<>>
  <2>1. L # 0 /\ L <= L /\ L \in 0..L /\ q # <<>>
    <3>1. L # 0
      BY <1>11, EmptySeq
    <3> QED BY <1>1, <1>4, <3>1
  <2>2. Names(h[L]) = SubSeq(p, 1, L) /\ h[L] # <<>> /\ Head(h[L]) = SL
    BY <1>1, <1>9, <2>1
  <2>3. h[L] = Text(p) /\ h[L] \in Seq(Symbol)
    BY <1>4, <1>5, <1>6, <1>11, <2>1
  <2>4. SubSeq(p, 1, L) = p
    BY SubSeqFull
  <2> QED BY <2>2, <2>3, <2>4
<1> QED BY <1>10, <1>11

LEMMA PathOfText ==
  ASSUME NEW p \in Seq(DirName)
  PROVE  Path(Text(p)) = p
BY NamesOfText DEF Path

-----------------------------------------------------------------------------
(* Reading a command.                                                      *)

LEMMA ConcatParts ==
  ASSUME NEW S, NEW b \in Seq(S), NEW t \in Seq(S)
  PROVE  /\ SubSeq(b \o t, 1, Len(b)) = b
         /\ SubSeq(b \o t, Len(b) + 1, Len(b \o t)) = t
<1> DEFINE s == b \o t
           B == Len(b)
           T == Len(t)
<1>1. /\ s \in Seq(S) /\ Len(s) = B + T /\ B \in Nat /\ T \in Nat
      /\ \A i \in 1..B+T : s[i] = IF i <= B THEN b[i] ELSE t[i-B]
      /\ \A i \in 1..B+T : s[i] \in S
  BY ConcatProperties
<1> HIDE DEF s, B, T
<1>2. SubSeq(s, 1, B) = b
  <2>1. /\ SubSeq(s, 1, B) \in Seq(S) /\ Len(SubSeq(s, 1, B)) = B
        /\ \A i \in 1..B : SubSeq(s, 1, B)[i] = s[i]
    <3>1. \A i \in 1..B : s[i] \in S
      BY <1>1
    <3>2. 1 \in Int /\ B \in Int /\ B - 1 + 1 = B /\ (~(1 <= B) => B = 0) /\ \A i \in 1..B : 1+i-1 = i
      BY <1>1
    <3> QED BY <3>1, <3>2, SubSeqProperties
  <2>2. \A i \in 1..B : SubSeq(s, 1, B)[i] = b[i]
    BY <1>1, <2>1
  <2> QED BY <2>1, <2>2, SeqEqual DEF B
<1>3. SubSeq(s, B+1, B+T) = t
  <2>1. /\ SubSeq(s, B+1, B+T) \in Seq(S) /\ Len(SubSeq(s, B+1, B+T)) = T
        /\ \A i \in 1..T : SubSeq(s, B+1, B+T)[i] = s[B+i]
    <3>1. \A i \in B+1..B+T : s[i] \in S
      BY <1>1
    <3>2. B+1 \in Int /\ B+T \in Int /\ (B+T) - (B+1) + 1 = T /\ (~(B+1 <= B+T) => T = 0)
          /\ \A i \in 1..T : B+1+i-1 = B+i
      BY <1>1
    <3> QED BY <3>1, <3>2, SubSeqProperties
  <2>2. \A i \in 1..T : SubSeq(s, B+1, B+T)[i] = t[i]
    <3>1. \A i \in 1..T : B+i \in 1..B+T /\ ~(B+i <= B) /\ (B+i)-B = i
      BY <1>1
    <3> QED BY <1>1, <2>1, <3>1
  <2> QED BY <2>1, <2>2, SeqEqual DEF T
<1> QED BY <1>1, <1>2, <1>3 DEF s, B

\* Blanks are skipped, and nothing else.
LEMMA SkipsBlanks ==
  ASSUME NEW b \in Seq(Symbol), \A i \in 1..Len(b) : IsBlank(b[i]),
         NEW t \in Seq(Symbol), t = <<>> \/ ~IsBlank(t[1])
  PROVE  SkipBlanks(b \o t) = t
<1> DEFINE s == b \o t
           I == {i \in 1..Len(s) : ~IsBlank(s[i])}
           i == IF I # {} THEN Min(I) ELSE 0
<1>1. /\ Len(s) = Len(b) + Len(t) /\ Len(b) \in Nat /\ Len(t) \in Nat /\ s \in Seq(Symbol)
      /\ \A k \in 1..Len(s) : s[k] = IF k <= Len(b) THEN b[k] ELSE t[k-Len(b)]
  BY ConcatProperties
<1>2. SkipBlanks(s) = IF i = 0 THEN <<>> ELSE SubSeq(s, i, Len(s))
  BY DEF SkipBlanks, SelectInSeq
<1>3. SubSeq(s, Len(b) + 1, Len(s)) = t
  BY ConcatParts
<1> HIDE DEF s
<1>4. \A k \in I : k > Len(b)
  BY <1>1
<1>5. CASE t = <<>>
  <2>1. Len(t) = 0
    BY <1>5
  <2>2. I = {}
    BY <1>1, <1>4, <2>1
  <2> QED BY <1>2, <1>5, <2>2 DEF s
<1>6. CASE t # <<>>
  <2>1. Len(t) >= 1 /\ ~IsBlank(t[1])
    BY <1>1, <1>6, EmptySeq
  <2>2. Len(b)+1 \in 1..Len(s) /\ ~(Len(b)+1 <= Len(b)) /\ (Len(b)+1)-Len(b) = 1
    BY <1>1, <2>1
  <2>3. Len(b)+1 \in I
    BY <1>1, <2>1, <2>2
  <2>4. I \subseteq Nat
    OBVIOUS
  <2>5. Min(I) \in I /\ Min(I) <= Len(b)+1
    BY <2>3, <2>4, MinOf
  <2>6. Min(I) = Len(b)+1
    <3>1. Min(I) > Len(b) /\ Min(I) \in Nat
      BY <1>4, <2>4, <2>5
    <3> QED BY <1>1, <2>5, <3>1
  <2>7. i = Len(b)+1 /\ i # 0
    <3>1. I # {} /\ Len(b)+1 # 0
      BY <1>1, <2>3
    <3> HIDE DEF I
    <3> QED BY <2>6, <3>1
  <2> HIDE DEF i
  <2> QED BY <1>2, <1>3, <2>7 DEF s
<1> QED BY <1>5, <1>6

\* A word ends at the first blank behind it.
LEMMA EndsAtBlank ==
  ASSUME NEW w \in Seq(Symbol), \A i \in 1..Len(w) : ~IsBlank(w[i]),
         NEW c \in Symbol, IsBlank(c), NEW t \in Seq(Symbol)
  PROVE  LET s == w \o (<<c>> \o t) IN
         Before(s, FirstBlank(s)) = w /\ After(s, FirstBlank(s)) = t
<1> DEFINE u == <<c>> \o t
           s == w \o u
           I == {i \in 1..Len(s) : IsBlank(s[i])}
           W == Len(w)
<1>1. u \in Seq(Symbol) /\ Len(u) = 1 + Len(t) /\ u[1] = c /\ Len(t) \in Nat /\ W \in Nat
  OBVIOUS
<1>2. SubSeq(u, 2, Len(u)) = t
  <2>1. <<c>> \in Seq(Symbol) /\ Len(<<c>>) + 1 = 2
    OBVIOUS
  <2> QED BY <2>1, ConcatParts
<1> HIDE DEF u
<1>3. /\ s \in Seq(Symbol) /\ Len(s) = W + Len(u)
      /\ \A k \in 1..Len(s) : s[k] = IF k <= W THEN w[k] ELSE u[k-W]
  <2>1. /\ s \in Seq(Symbol) /\ Len(s) = Len(w) + Len(u)
        /\ \A k \in 1..Len(w)+Len(u) : s[k] = IF k <= Len(w) THEN w[k] ELSE u[k-Len(w)]
    BY <1>1, ConcatProperties
  <2> HIDE DEF s
  <2> QED BY <2>1
<1>4. FirstBlank(s) = IF I # {} THEN Min(I) ELSE 0
  BY DEF FirstBlank, SelectInSeq
<1>5. SubSeq(s, 1, W) = w
  BY <1>1, ConcatParts
<1> HIDE DEF s, W
<1>6. W+1 \in I
  <2>1. W+1 \in 1..Len(s) /\ ~(W+1 <= W) /\ (W+1)-W = 1
    BY <1>1, <1>3
  <2> QED BY <1>1, <1>3, <2>1
<1>7. \A k \in I : k > W
  BY <1>3, <1>1 DEF W
<1>8. Min(I) = W+1
  <2>1. I \subseteq Nat
    OBVIOUS
  <2>2. Min(I) \in I /\ Min(I) <= W+1
    BY <1>6, <2>1, MinOf
  <2>3. Min(I) > W /\ Min(I) \in Nat
    BY <1>7, <2>1, <2>2
  <2> QED BY <1>1, <2>2, <2>3
<1>9. FirstBlank(s) = W+1 /\ W+1 # 0 /\ (W+1)-1 = W /\ (W+1)+1 = W+2
  BY <1>1, <1>4, <1>6, <1>8
<1>10. Before(s, FirstBlank(s)) = w
  BY <1>5, <1>9 DEF Before
<1>11. SubSeq(s, W+2, Len(s)) = t
  <2>1. CASE t = <<>>
    <3>1. Len(s) < W+2 /\ Len(s) \in Int /\ W+2 \in Int
      <4>1. Len(t) = 0
        BY <2>1
      <4> QED BY <1>1, <1>3, <4>1
    <3> QED BY <2>1, <3>1, SubSeqEmpty
  <2>2. CASE t # <<>>
    <3>1. Len(t) >= 1
      BY <1>1, <2>2, EmptySeq
    <3>2. W+2 \in W+1..W+Len(u) /\ Len(s) \in W+1..W+Len(u) /\ (W+2)-W = 2 /\ Len(s)-W = Len(u)
      BY <1>1, <1>3, <3>1
    <3>3. SubSeq(w \o u, W+2, Len(s)) = SubSeq(u, (W+2)-W, Len(s)-W)
      BY <1>1, <3>2, SubSeqOfConcat2 DEF W
    <3> QED BY <1>2, <3>2, <3>3 DEF s
  <2> QED BY <2>1, <2>2
<1>12. After(s, FirstBlank(s)) = t
  BY <1>9, <1>11 DEF After
<1> QED BY <1>10, <1>12 DEF s, u

\* A line ends at its first newline.
LEMMA EndsAtNewline ==
  ASSUME NEW w \in Seq(Symbol \ {NL})
  PROVE  LET s == w \o <<NL>> IN
         LineEnd(s) = Len(s) /\ Len(s) = Len(w) + 1 /\ Before(s, LineEnd(s)) = w
<1> DEFINE s == w \o <<NL>>
           I == {i \in 1..Len(s) : s[i] = NL}
           W == Len(w)
<1>1. /\ w \in Seq(Symbol) /\ W \in Nat /\ \A i \in 1..W : w[i] # NL
  <2>1. W \in Nat /\ \A i \in 1..W : w[i] \in Symbol \ {NL}
    OBVIOUS
  <2>2. w \in Seq(Symbol)
    BY SeqMonotonic
  <2> QED BY <2>1, <2>2
<1>2. <<NL>> \in Seq(Symbol) /\ Len(<<NL>>) = 1 /\ <<NL>>[1] = NL
  BY DEF Symbol
<1>3. /\ Len(s) = W + 1
      /\ \A k \in 1..W+1 : s[k] = IF k <= W THEN w[k] ELSE <<NL>>[k-W]
  <2>1. /\ Len(s) = Len(w) + Len(<<NL>>)
        /\ \A k \in 1..Len(w)+Len(<<NL>>) : s[k] = IF k <= Len(w) THEN w[k] ELSE <<NL>>[k-Len(w)]
    BY <1>1, <1>2, ConcatProperties
  <2> HIDE DEF s
  <2> QED BY <1>2, <2>1
<1>4. LineEnd(s) = IF I # {} THEN Min(I) ELSE 0
  BY DEF LineEnd, SelectInSeq
<1>5. SubSeq(s, 1, W) = w
  BY <1>1, <1>2, ConcatParts
<1> HIDE DEF s, W
<1>6. W+1 \in I
  <2>1. W+1 \in 1..W+1 /\ ~(W+1 <= W) /\ (W+1)-W = 1
    BY <1>1
  <2>2. s[W+1] = NL
    BY <1>2, <1>3, <2>1
  <2> QED BY <1>3, <2>1, <2>2
<1>7. \A k \in I : k > W
  BY <1>1, <1>3
<1>8. Min(I) = W+1
  <2>1. I \subseteq Nat
    OBVIOUS
  <2>2. Min(I) \in I /\ Min(I) <= W+1
    BY <1>6, <2>1, MinOf
  <2>3. Min(I) > W /\ Min(I) \in Nat
    BY <1>7, <2>1, <2>2
  <2> QED BY <1>1, <2>2, <2>3
<1>9. LineEnd(s) = W+1 /\ W+1 # 0 /\ (W+1)-1 = W
  BY <1>1, <1>4, <1>6, <1>8
<1>10. Before(s, LineEnd(s)) = w
  BY <1>5, <1>9 DEF Before
<1> QED BY <1>3, <1>9, <1>10 DEF s, W

\* Concatenation, with nothing known of it but its laws.
Cat(u, v) == u \o v
OneBlank  == <<SP>>
Word(w)   == w # <<>> /\ \A i \in 1..Len(w) : ~IsBlank(w[i])
Blanks(b) == \A i \in 1..Len(b) : IsBlank(b[i])
AtWord(t) == t = <<>> \/ ~IsBlank(t[1])

LEMMA CatLaws ==
  ASSUME NEW S
  PROVE  /\ \A x, y \in Seq(S) : Cat(x, y) \in Seq(S)
         /\ \A x, y, z \in Seq(S) : Cat(Cat(x, y), z) = Cat(x, Cat(y, z))
         /\ \A x \in Seq(S) : Cat(x, <<>>) = x
<1>1. ASSUME NEW x \in Seq(S), NEW y \in Seq(S) PROVE Cat(x, y) \in Seq(S)
  BY ConcatProperties DEF Cat
<1>2. ASSUME NEW x \in Seq(S), NEW y \in Seq(S), NEW z \in Seq(S)
      PROVE  Cat(Cat(x, y), z) = Cat(x, Cat(y, z))
  BY ConcatAssociative DEF Cat
<1>3. ASSUME NEW x \in Seq(S) PROVE Cat(x, <<>>) = x
  BY ConcatEmptySeq DEF Cat
<1> QED BY <1>1, <1>2, <1>3

\* A word, the blanks behind it, and what comes next.
LEMMA ReadsWord ==
  ASSUME NEW w \in Seq(Symbol), Word(w), NEW b \in Seq(Symbol), Blanks(b),
         NEW t \in Seq(Symbol), AtWord(t),
         NEW s, s = Cat(w, Cat(OneBlank, Cat(b, t)))
  PROVE  /\ s \in Seq(Symbol) /\ s # <<>> /\ AtWord(s) /\ SkipBlanks(s) = s
         /\ Before(s, FirstBlank(s)) = w
         /\ SkipBlanks(After(s, FirstBlank(s))) = t
<1> DEFINE r == b \o t
<1>1. r \in Seq(Symbol) /\ SP \in Symbol /\ IsBlank(SP)
  BY ConcatProperties DEF Symbol, IsBlank
<1>2. SkipBlanks(r) = t
  BY SkipsBlanks DEF Blanks, AtWord
<1>3. s = w \o (<<SP>> \o r)
  BY DEF Cat, OneBlank
<1> HIDE DEF r
<1>4. Before(w \o (<<SP>> \o r), FirstBlank(w \o (<<SP>> \o r))) = w
      /\ After(w \o (<<SP>> \o r), FirstBlank(w \o (<<SP>> \o r))) = r
  BY <1>1, EndsAtBlank DEF Word
<1>5. s \in Seq(Symbol) /\ s # <<>> /\ s[1] = w[1]
  <2>1. <<SP>> \o r \in Seq(Symbol)
    BY <1>1
  <2>2. \A v \in Seq(Symbol) : w \o v \in Seq(Symbol) /\ w \o v # <<>> /\ (w \o v)[1] = w[1]
    BY DEF Word
  <2> QED BY <1>3, <2>1, <2>2
<1>6. ~IsBlank(s[1])
  <2>1. 1 \in 1..Len(w)
    BY EmptySeq DEF Word
  <2> QED BY <1>5, <2>1 DEF Word
<1>7. SkipBlanks(s) = s
  <2>1. <<>> \in Seq(Symbol) /\ \A i \in 1..Len(<<>>) : IsBlank(<<>>[i])
    OBVIOUS
  <2>2. SkipBlanks(<<>> \o s) = s
    BY <1>5, <1>6, <2>1, SkipsBlanks
  <2>3. <<>> \o s = s
    BY <1>5, ConcatEmptySeq
  <2> QED BY <2>2, <2>3
<1> QED BY <1>2, <1>3, <1>4, <1>5, <1>6, <1>7 DEF AtWord

LEMMA ReadsNothing ==
  /\ SkipBlanks(<<>>) = <<>> /\ FirstBlank(<<>>) = 0 /\ LineEnd(<<>>) = 0
  /\ Before(<<>>, 0) = <<>> /\ After(<<>>, 0) = <<>>
<1>1. Len(<<>>) = 0 /\ 1..0 = {} /\ <<>> \in Seq(Symbol)
  OBVIOUS
<1>2. SkipBlanks(<<>>) = <<>>
  <2>1. \A i \in 1..Len(<<>>) : IsBlank(<<>>[i])
    BY <1>1
  <2>2. SkipBlanks(<<>> \o <<>>) = <<>>
    BY <1>1, <2>1, SkipsBlanks
  <2>3. <<>> \o <<>> = <<>>
    BY <1>1, ConcatEmptySeq
  <2> QED BY <2>2, <2>3
<1>3. FirstBlank(<<>>) = 0
  <2>1. {i \in 1..Len(<<>>) : IsBlank(<<>>[i])} = {}
    BY <1>1
  <2> QED BY <2>1 DEF FirstBlank, SelectInSeq
<1>4. LineEnd(<<>>) = 0
  <2>1. {i \in 1..Len(<<>>) : <<>>[i] = NL} = {}
    BY <1>1
  <2> QED BY <2>1 DEF LineEnd, SelectInSeq
<1>5. Before(<<>>, 0) = <<>> /\ After(<<>>, 0) = <<>>
  BY DEF Before, After
<1> QED BY <1>2, <1>3, <1>4, <1>5

LEMMA SeqIn ==
  ASSUME NEW S, NEW T, NEW s \in Seq(S), \A i \in 1..Len(s) : s[i] \in T
  PROVE  s \in Seq(T)
<1>1. Len(s) \in Nat /\ s \in [1..Len(s) -> S] /\ DOMAIN s = 1..Len(s)
  BY LenProperties
<1>2. s \in [1..Len(s) -> T]
  BY <1>1
<1> QED BY <1>1, <1>2, SeqDef

\* What the user types: words, and the gaps between them.
LEMMA TypedWords ==
  ASSUME NEW ws \in Typed
  PROVE  /\ Len(ws) \in 1..3 /\ DOMAIN ws = 1..Len(ws)
         /\ \A i \in 1..Len(ws) :
              /\ ws[i] \in Seq(Symbol \ {NL}) /\ ws[i] \in Seq(Symbol) /\ ws[i] # <<>>
              /\ ~IsBlank(ws[i][1])
              /\ i # 3 => \A j \in 1..Len(ws[i]) : ~IsBlank(ws[i][j])
<1>1. /\ ws \in Seq(Seq(STRING)) /\ Len(ws) \in 1..3
      /\ \A i \in DOMAIN ws : /\ ws[i] # <<>> /\ ~IsBlank(ws[i][1])
                              /\ \A j \in DOMAIN ws[i] : ws[i][j] # NL /\ (ws[i][j] = SP => i = 3)
  BY ShellAssumption
<1>2. DOMAIN ws = 1..Len(ws) /\ \A i \in 1..Len(ws) : ws[i] \in Seq(STRING)
  BY <1>1
<1>3. ASSUME NEW i \in 1..Len(ws)
      PROVE  /\ ws[i] \in Seq(Symbol \ {NL}) /\ ws[i] \in Seq(Symbol)
             /\ i # 3 => \A j \in 1..Len(ws[i]) : ~IsBlank(ws[i][j])
  <2>1. ws[i] \in Seq(STRING) /\ DOMAIN ws[i] = 1..Len(ws[i])
    BY <1>2
  <2>2. \A j \in 1..Len(ws[i]) : ws[i][j] # NL /\ (ws[i][j] = SP => i = 3)
    BY <1>1, <1>2, <2>1
  <2>3. \A j \in 1..Len(ws[i]) : ws[i][j] \in Symbol \ {NL}
    <3>1. \A j \in 1..Len(ws[i]) : ws[i][j] \in STRING
      BY <2>1
    <3> QED BY <2>2, <3>1 DEF Symbol
  <2>4. ws[i] \in Seq(Symbol \ {NL})
    BY <2>1, <2>3, SeqIn
  <2>5. ws[i] \in Seq(Symbol)
    <3>1. \A j \in 1..Len(ws[i]) : ws[i][j] \in Symbol
      BY <2>3
    <3> QED BY <2>1, <3>1, SeqIn
  <2> QED BY <2>2, <2>4, <2>5 DEF IsBlank
<1> QED BY <1>1, <1>2, <1>3

LEMMA GapIsBlank ==
  ASSUME NEW g \in Gaps
  PROVE  /\ g \in Seq(Symbol) /\ g \in Seq(Symbol \ {NL})
         /\ \E b \in Seq(Symbol) : g = <<SP>> \o b /\ \A i \in 1..Len(b) : IsBlank(b[i])
<1>1. g \in Seq({SP}) /\ g # <<>>
  BY ShellAssumption
<1>2. \A i \in 1..Len(g) : g[i] = SP
  BY <1>1
<1>3. SP \in Symbol /\ SP \in Symbol \ {NL}
  BY DEF Symbol, SP, NL
<1>4. g \in Seq(Symbol) /\ g \in Seq(Symbol \ {NL})
  <2>1. \A i \in 1..Len(g) : g[i] \in Symbol /\ g[i] \in Symbol \ {NL}
    BY <1>2, <1>3
  <2> QED BY <1>1, <2>1, SeqIn
<1>5. \E b \in Seq(Symbol) : g = <<SP>> \o b /\ \A i \in 1..Len(b) : IsBlank(b[i])
  <2> DEFINE b == Tail(g)
  <2>1. b \in Seq(Symbol) /\ g = <<g[1]>> \o b /\ 1 \in 1..Len(g)
    BY <1>1, <1>4
  <2>2. b \in Seq({SP})
    BY <1>1
  <2> HIDE DEF b
  <2>3. \A i \in 1..Len(b) : b[i] = SP
    BY <2>2
  <2> QED BY <1>2, <2>1, <2>3 DEF IsBlank
<1> QED BY <1>4, <1>5

\* The line that words and gaps make.
LEMMA LineShape ==
  ASSUME NEW ws \in Typed, NEW g \in Gaps
  PROVE  \E f \in Seq(Symbol \ {NL}) :
           /\ LineOf(ws, g) = f \o <<NL>>
           /\ Len(ws) = 1 => f = ws[1] \o g
           /\ Len(ws) = 2 => f = (ws[1] \o g) \o (ws[2] \o g)
           /\ Len(ws) = 3 => f = ((ws[1] \o g) \o (ws[2] \o g)) \o ws[3]
<1> DEFINE S == Symbol \ {NL}
           L == Len(ws)
           q == [i \in DOMAIN ws |-> IF i < 3 THEN ws[i] \o g ELSE ws[i]]
           f == FlattenSeq(q)
<1>1. L \in 1..3 /\ DOMAIN ws = 1..L /\ g \in Seq(S) /\ \A i \in 1..L : ws[i] \in Seq(S)
  BY TypedWords, GapIsBlank
<1>2. LineOf(ws, g) = f \o <<NL>>
  BY DEF LineOf
<1> HIDE DEF S, L
<1>3. \A i \in 1..L : ws[i] \o g \in Seq(S)
  BY <1>1, ConcatProperties
<1>4. /\ q \in Seq(Seq(S)) /\ Len(q) = L
      /\ \A i \in 1..L : q[i] = IF i < 3 THEN ws[i] \o g ELSE ws[i]
  BY <1>1, <1>3
<1> HIDE DEF q
<1>5. PICK h : /\ h[0] = <<>> /\ (q # <<>> => h[L] = f)
               /\ \A k \in 1..L : h[k] = h[k-1] \o q[k]
               /\ \A k \in 0..L : h[k] \in Seq(S)
  BY <1>4, FlattenFold
<1>6. q # <<>> /\ 1 \in 1..L /\ L \in 0..L
  <2>1. L # 0 /\ 1 \in 1..L /\ L \in 0..L
    BY <1>1
  <2> QED BY <1>4, <2>1
<1> HIDE DEF f
<1>7. h[L] = f /\ f \in Seq(S)
  BY <1>5, <1>6
<1>8. h[1] = ws[1] \o g
  <2>1. ws[1] \o g \in Seq(S)
    BY <1>3, <1>6
  <2>2. q[1] = ws[1] \o g
    <3>1. q[1] = IF 1 < 3 THEN ws[1] \o g ELSE ws[1]
      BY <1>4, <1>6
    <3> QED BY <3>1
  <2>3. h[1] = h[0] \o q[1]
    <3>1. 1-1 = 0
      OBVIOUS
    <3>2. h[1] = h[1-1] \o q[1]
      BY <1>5, <1>6
    <3> QED BY <3>1, <3>2
  <2> QED BY <1>5, <2>1, <2>2, <2>3, ConcatEmptySeq
<1>9. L >= 2 => h[2] = (ws[1] \o g) \o (ws[2] \o g)
  <2> SUFFICES ASSUME L >= 2 PROVE h[2] = (ws[1] \o g) \o (ws[2] \o g)
    OBVIOUS
  <2>1. 2 \in 1..L /\ 2-1 = 1
    BY <1>1
  <2>2. h[2] = h[2-1] \o q[2] /\ q[2] = IF 2 < 3 THEN ws[2] \o g ELSE ws[2]
    BY <1>4, <1>5, <2>1
  <2>3. 2 < 3
    OBVIOUS
  <2> QED BY <1>8, <2>1, <2>2, <2>3
<1>10. L = 3 => h[3] = ((ws[1] \o g) \o (ws[2] \o g)) \o ws[3]
  <2> SUFFICES ASSUME L = 3 PROVE h[3] = ((ws[1] \o g) \o (ws[2] \o g)) \o ws[3]
    OBVIOUS
  <2>1. 3 \in 1..L /\ 3-1 = 2 /\ L >= 2
    OBVIOUS
  <2>2. h[3] = h[2] \o q[3] /\ q[3] = ws[3]
    BY <1>4, <1>5, <2>1
  <2> QED BY <1>9, <2>1, <2>2
<1>11. /\ L = 1 => f = ws[1] \o g
       /\ L = 2 => f = (ws[1] \o g) \o (ws[2] \o g)
       /\ L = 3 => f = ((ws[1] \o g) \o (ws[2] \o g)) \o ws[3]
  <2>1. L = 1 => h[L] = h[1]
    OBVIOUS
  <2>2. L = 2 => h[L] = h[2] /\ L >= 2
    OBVIOUS
  <2>3. L = 3 => h[L] = h[3]
    OBVIOUS
  <2> QED BY <1>7, <1>8, <1>9, <1>10, <2>1, <2>2, <2>3
<1> QED BY <1>2, <1>7, <1>11 DEF L, S

LEMMA ParsedFrom ==
  ASSUME NEW s, NEW w, NEW a1, NEW x, NEW a2, NEW y,
         SkipBlanks(s) = s, Before(s, FirstBlank(s)) = w,
         SkipBlanks(After(s, FirstBlank(s))) = a1, Before(a1, FirstBlank(a1)) = x,
         SkipBlanks(After(a1, FirstBlank(a1))) = a2, Before(a2, LineEnd(a2)) = y
  PROVE  /\ parse_cmd(s).op = w
         /\ parse_cmd(s).arg1 = IF x = <<>> THEN NULL ELSE x
         /\ parse_cmd(s).arg2 = IF y = <<>> THEN NULL ELSE y
<1>1. parse_cmd(s) = [op |-> w, arg1 |-> IF x = <<>> THEN NULL ELSE x,
                      arg2 |-> IF y = <<>> THEN NULL ELSE y]
  BY DEF parse_cmd
<1> QED BY <1>1

LEMMA Regroup ==
  ASSUME NEW u \in Seq(Symbol), NEW v \in Seq(Symbol), NEW w \in Seq(Symbol),
         NEW b \in Seq(Symbol), NEW n \in Seq(Symbol)
  PROVE  LET up == Cat(u, Cat(OneBlank, b))
             vp == Cat(v, Cat(OneBlank, b))
             bn == Cat(Cat(b, n), <<>>)
         IN  /\ Cat(up, n) = Cat(u, Cat(OneBlank, bn))
             /\ Cat(Cat(up, vp), n) = Cat(u, Cat(OneBlank, Cat(b, Cat(v, Cat(OneBlank, bn)))))
             /\ Cat(Cat(Cat(up, vp), w), n)
                  = Cat(u, Cat(OneBlank, Cat(b, Cat(v, Cat(OneBlank, Cat(b, Cat(w, n)))))))
<1>1. /\ \A x, y \in Seq(Symbol) : Cat(x, y) \in Seq(Symbol)
      /\ \A x, y, z \in Seq(Symbol) : Cat(Cat(x, y), z) = Cat(x, Cat(y, z))
      /\ \A x \in Seq(Symbol) : Cat(x, <<>>) = x
  BY CatLaws
<1>0. OneBlank \in Seq(Symbol)
  BY DEF OneBlank, Symbol
<1>2. ASSUME NEW x \in Seq(Symbol), NEW y \in Seq(Symbol)
      PROVE  Cat(Cat(x, Cat(OneBlank, b)), y) = Cat(x, Cat(OneBlank, Cat(b, y)))
  <2>1. Cat(OneBlank, b) \in Seq(Symbol)
    BY <1>0, <1>1
  <2>2. Cat(Cat(x, Cat(OneBlank, b)), y) = Cat(x, Cat(Cat(OneBlank, b), y))
    BY <1>1, <2>1
  <2> QED BY <1>0, <1>1, <2>2
<1> DEFINE up == Cat(u, Cat(OneBlank, b))
           vp == Cat(v, Cat(OneBlank, b))
           bn == Cat(Cat(b, n), <<>>)
<1>3. up \in Seq(Symbol) /\ vp \in Seq(Symbol) /\ Cat(w, n) \in Seq(Symbol) /\ Cat(up, vp) \in Seq(Symbol)
  BY <1>0, <1>1
<1>4. bn = Cat(b, n)
  BY <1>1
<1>5. ASSUME NEW y \in Seq(Symbol) PROVE Cat(Cat(up, vp), y) = Cat(u, Cat(OneBlank, Cat(b, Cat(v, Cat(OneBlank, Cat(b, y))))))
  <2>1. Cat(vp, y) = Cat(v, Cat(OneBlank, Cat(b, y))) /\ Cat(vp, y) \in Seq(Symbol)
    BY <1>1, <1>2, <1>3
  <2>2. Cat(up, Cat(vp, y)) = Cat(u, Cat(OneBlank, Cat(b, Cat(vp, y))))
    BY <1>2, <2>1
  <2>3. Cat(Cat(up, vp), y) = Cat(up, Cat(vp, y))
    BY <1>1, <1>3
  <2> QED BY <2>1, <2>2, <2>3
<1>6. Cat(up, n) = Cat(u, Cat(OneBlank, bn))
  BY <1>2, <1>4
<1>7. Cat(Cat(up, vp), n) = Cat(u, Cat(OneBlank, Cat(b, Cat(v, Cat(OneBlank, bn)))))
  BY <1>4, <1>5
<1>8. Cat(Cat(Cat(up, vp), w), n) = Cat(u, Cat(OneBlank, Cat(b, Cat(v, Cat(OneBlank, Cat(b, Cat(w, n)))))))
  <2>1. Cat(Cat(Cat(up, vp), w), n) = Cat(Cat(up, vp), Cat(w, n))
    BY <1>1, <1>3
  <2> QED BY <1>3, <1>5, <2>1
<1> QED BY <1>6, <1>7, <1>8

\* What is typed is what is read.
LEMMA ParsesLine ==
  ASSUME NEW ws \in Typed, NEW g \in Gaps
  PROVE  LET c == parse_cmd(LineOf(ws, g)) IN <<c.op, c.arg1, c.arg2>> = Meant(ws)
<1> DEFINE s == LineOf(ws, g)
           nl == <<NL>>
           none == <<>>
           p == parse_cmd(s)
           L == Len(ws)
           u == ws[1]
           v == ws[2]
           w == ws[3]
<1>1. nl \in Seq(Symbol) /\ none \in Seq(Symbol) /\ IsBlank(NL) /\ AtWord(none)
  BY DEF Symbol, IsBlank, AtWord
<1>2. PICK b \in Seq(Symbol) : g = Cat(OneBlank, b) /\ Blanks(b)
  BY GapIsBlank DEF Cat, OneBlank, Blanks
<1> DEFINE bn == Cat(b, nl)
<1>3. bn \in Seq(Symbol) /\ Blanks(bn)
  <2>1. /\ bn \in Seq(Symbol) /\ Len(bn) = Len(b) + 1 /\ Len(b) \in Nat
        /\ \A i \in 1..Len(b) : bn[i] = b[i]
        /\ bn[Len(b)+1] = NL
    BY <1>1 DEF Cat
  <2> HIDE DEF bn
  <2>2. \A i \in 1..Len(bn) : i \in 1..Len(b) \/ i = Len(b)+1
    BY <2>1
  <2> QED BY <1>1, <1>2, <2>1, <2>2 DEF Blanks
<1>4. PICK f \in Seq(Symbol \ {NL}) :
        /\ s = Cat(f, nl)
        /\ L = 1 => f = Cat(u, g)
        /\ L = 2 => f = Cat(Cat(u, g), Cat(v, g))
        /\ L = 3 => f = Cat(Cat(Cat(u, g), Cat(v, g)), w)
  BY LineShape DEF Cat
<1>5. /\ L \in 1..3 /\ DOMAIN ws = 1..L
      /\ \A i \in 1..L :
           /\ ws[i] \in Seq(Symbol \ {NL}) /\ ws[i] \in Seq(Symbol) /\ ws[i] # <<>>
           /\ ~IsBlank(ws[i][1])
           /\ i # 3 => \A j \in 1..Len(ws[i]) : ~IsBlank(ws[i][j])
  BY TypedWords
<1>6. \A m : m = [i \in 1..3 |-> IF i \in DOMAIN ws THEN ws[i] ELSE NULL] =>
             m = <<m[1], m[2], m[3]>>
  OBVIOUS
<1>7. /\ L = 1 => Meant(ws) = <<u, NULL, NULL>>
      /\ L = 2 => Meant(ws) = <<u, v, NULL>>
      /\ L = 3 => Meant(ws) = <<u, v, w>>
  <2>1. Meant(ws) = <<Meant(ws)[1], Meant(ws)[2], Meant(ws)[3]>>
        /\ \A i \in 1..3 : Meant(ws)[i] = IF i \in 1..L THEN ws[i] ELSE NULL
    BY <1>5, <1>6 DEF Meant
  <2>2. 1 \in 1..3 /\ 2 \in 1..3 /\ 3 \in 1..3 /\ 1 \in 1..L /\ (2 \in 1..L <=> L # 1)
        /\ (3 \in 1..L <=> L = 3)
    BY <1>5
  <2> QED BY <2>1, <2>2
<1>8. /\ u \in Seq(Symbol) /\ Word(u)
      /\ L # 1 => v \in Seq(Symbol) /\ Word(v)
      /\ L = 3 => w \in Seq(Symbol) /\ w \in Seq(Symbol \ {NL}) /\ w # <<>> /\ ~IsBlank(w[1])
  <2>1. 1 \in 1..L /\ (L # 1 => 2 \in 1..L) /\ (L = 3 => 3 \in 1..L) /\ 1 # 3 /\ 2 # 3
    BY <1>5
  <2> QED BY <1>5, <2>1 DEF Word
<1> HIDE DEF s, p, L, nl, none, bn, u, v, w
<1>9. CASE L = 1
  <2>1. s = Cat(u, Cat(OneBlank, Cat(bn, none)))
    <3>1. s = Cat(Cat(u, Cat(OneBlank, b)), nl)
      BY <1>2, <1>4, <1>9
    <3>2. Cat(Cat(u, Cat(OneBlank, b)), nl) = Cat(u, Cat(OneBlank, Cat(Cat(b, nl), none)))
      BY <1>1, <1>8, Regroup DEF none
    <3> QED BY <3>1, <3>2 DEF bn
  <2>2. /\ SkipBlanks(s) = s /\ Before(s, FirstBlank(s)) = u
        /\ SkipBlanks(After(s, FirstBlank(s))) = none
    BY <1>1, <1>3, <1>8, <2>1, ReadsWord
  <2>3. p.op = u /\ p.arg1 = NULL /\ p.arg2 = NULL
    BY <2>2, ReadsNothing, ParsedFrom DEF p, none
  <2> QED BY <1>7, <1>9, <2>3 DEF p, s
<1>10. CASE L = 2
  <2> DEFINE a == Cat(v, Cat(OneBlank, Cat(bn, none)))
  <2>1. v \in Seq(Symbol) /\ Word(v)
    BY <1>8, <1>10
  <2>2. /\ a \in Seq(Symbol) /\ AtWord(a)
        /\ Before(a, FirstBlank(a)) = v /\ SkipBlanks(After(a, FirstBlank(a))) = none
    BY <1>1, <1>3, <2>1, ReadsWord
  <2>3. s = Cat(u, Cat(OneBlank, Cat(b, a)))
    <3>1. s = Cat(Cat(Cat(u, Cat(OneBlank, b)), Cat(v, Cat(OneBlank, b))), nl)
      BY <1>2, <1>4, <1>10
    <3>2. Cat(Cat(Cat(u, Cat(OneBlank, b)), Cat(v, Cat(OneBlank, b))), nl)
            = Cat(u, Cat(OneBlank, Cat(b, Cat(v, Cat(OneBlank, Cat(Cat(b, nl), none))))))
      BY <1>1, <1>8, <2>1, Regroup DEF none
    <3> QED BY <3>1, <3>2 DEF bn
  <2> HIDE DEF a
  <2>4. /\ SkipBlanks(s) = s /\ Before(s, FirstBlank(s)) = u
        /\ SkipBlanks(After(s, FirstBlank(s))) = a
    BY <1>2, <1>8, <2>2, <2>3, ReadsWord
  <2>5. p.op = u /\ p.arg1 = v /\ p.arg2 = NULL
    BY <2>1, <2>2, <2>4, ReadsNothing, ParsedFrom DEF p, none, Word
  <2> QED BY <1>7, <1>10, <2>5 DEF p, s
<1>11. CASE L = 3
  <2> DEFINE c == Cat(w, nl)
             a == Cat(v, Cat(OneBlank, Cat(b, c)))
  <2>1. /\ v \in Seq(Symbol) /\ Word(v)
        /\ w \in Seq(Symbol) /\ w \in Seq(Symbol \ {NL}) /\ w # <<>> /\ ~IsBlank(w[1])
    BY <1>8, <1>11
  <2>2. c \in Seq(Symbol) /\ AtWord(c)
    <3>1. \A x, y \in Seq(Symbol) : x # <<>> => x \o y \in Seq(Symbol) /\ (x \o y)[1] = x[1]
      OBVIOUS
    <3> QED BY <1>1, <2>1, <3>1 DEF Cat, AtWord
  <2>3. Before(c, LineEnd(c)) = w
    BY <2>1, EndsAtNewline DEF nl, Cat
  <2> HIDE DEF c
  <2>4. /\ a \in Seq(Symbol) /\ AtWord(a)
        /\ Before(a, FirstBlank(a)) = v /\ SkipBlanks(After(a, FirstBlank(a))) = c
    BY <1>2, <2>1, <2>2, ReadsWord
  <2>5. s = Cat(u, Cat(OneBlank, Cat(b, a)))
    <3>1. s = Cat(Cat(Cat(Cat(u, Cat(OneBlank, b)), Cat(v, Cat(OneBlank, b))), w), nl)
      BY <1>2, <1>4, <1>11
    <3>2. Cat(Cat(Cat(Cat(u, Cat(OneBlank, b)), Cat(v, Cat(OneBlank, b))), w), nl)
            = Cat(u, Cat(OneBlank, Cat(b, Cat(v, Cat(OneBlank, Cat(b, Cat(w, nl)))))))
      BY <1>1, <1>8, <2>1, Regroup
    <3> QED BY <3>1, <3>2 DEF c
  <2> HIDE DEF a
  <2>6. /\ SkipBlanks(s) = s /\ Before(s, FirstBlank(s)) = u
        /\ SkipBlanks(After(s, FirstBlank(s))) = a
    BY <1>2, <1>8, <2>4, <2>5, ReadsWord
  <2>7. p.op = u /\ p.arg1 = v /\ p.arg2 = w
    BY <2>1, <2>3, <2>4, <2>6, ParsedFrom DEF p, Word
  <2> QED BY <1>7, <1>11, <2>7 DEF p, s
<1> QED BY <1>5, <1>9, <1>10, <1>11 DEF L
-----------------------------------------------------------------------------
(* A line runs as the words that were meant.                               *)

\* The user's words wait with the line they were typed as, and no longer.
Intended ==
  meant # Cut =>
    /\ at = "prompt" /\ line # <<>> =>
         \E ws \in Typed, g \in Gaps : line = LineOf(ws, g) /\ meant = Meant(ws)
    /\ at # "prompt" => line = <<>>

\* What a step does to the line and to the words meant by it.
LEMMA Steps ==
  ASSUME Next
  PROVE  \/ Types \/ Prompt
         \/ at \notin {"prompt", "gone"} /\ Done
         \/ UNCHANGED <<line, meant>> /\ at \notin {"prompt", "gone"} /\ at' \notin {"prompt", "run"}
         \/ UNCHANGED <<line, meant, cmd, at>>
         \/ Leave
<1>1. CASE Command
  <2>1. CASE Cd \/ Del \/ Mkdir \/ Rmdir \/ Ren \/ do_mount \/ do_mountfat \/ do_umount \/ do_mkfs
    BY <2>1 DEF Cd, Del, Mkdir, Rmdir, Ren, do_mount, do_mountfat, do_umount, do_mkfs, Simple, Running
  <2>2. CASE Exec \/ OtherCommand
    BY <2>2 DEF Exec, OtherCommand, Running
  <2>3. CASE do_dir \/ ListEnd
    BY <2>3 DEF do_dir, ListEnd, Running
  <2>4. CASE do_copy
    BY <2>4 DEF do_copy, Running
  <2>5. CASE OpenDest \/ CopyByte \/ CopyEnd
    BY <2>5 DEF OpenDest, CopyByte, CopyEnd, CloseBoth
  <2> QED BY <1>1, <2>1, <2>2, <2>3, <2>4, <2>5 DEF Command
<1>2. CASE ReadError
  BY <1>2 DEF ReadError, CloseBoth
<1>3. CASE HostChanges
  BY <1>3 DEF HostChanges
<1> QED BY <1>1, <1>2, <1>3 DEF Next

LEMMA IntendedStep ==
  ASSUME Intended, RunsWhatWasMeant, [Next]_vars
  PROVE  Intended' /\ RunsWhatWasMeant'
<1>1. CASE Prompt
  <2> DEFINE end == LineEnd(line)
             n == IF end < LineSize THEN end ELSE LineSize - 1
  <2>1. CASE n < end \/ meant = Cut
    BY <1>1, <2>1 DEF Prompt, Intended, RunsWhatWasMeant
  <2>2. CASE ~(n < end) /\ meant # Cut
    <3>1. PICK ws \in Typed, g \in Gaps : line = LineOf(ws, g) /\ meant = Meant(ws)
      BY <1>1, <2>2 DEF Prompt, Intended
    <3>2. line \in Seq(Symbol) /\ end = Len(line) /\ Len(line) \in Nat
      <4>1. PICK f \in Seq(Symbol \ {NL}) : line = f \o <<NL>>
        BY <3>1, LineShape
      <4>2. NL \in Symbol /\ f \in Seq(Symbol)
        BY SeqIn DEF Symbol
      <4> QED BY <4>1, <4>2, EndsAtNewline
    <3>3. n = Len(line)
      BY <2>2, <3>2, ShellAssumption
    <3>4. SubSeq(line, 1, n) = line /\ SubSeq(line, n + 1, Len(line)) = <<>>
      BY <3>2, <3>3
    <3>5. line' = <<>> /\ cmd' = parse_cmd(line) /\ meant' = Meant(ws) /\ at' \in {"prompt", "run"}
      BY <1>1, <2>2, <3>1, <3>4 DEF Prompt
    <3>6. <<cmd'.op, cmd'.arg1, cmd'.arg2>> = Meant(ws)
      BY <3>1, <3>5, ParsesLine
    <3> QED BY <3>5, <3>6 DEF Intended, RunsWhatWasMeant
  <2> QED BY <2>1, <2>2
<1>2. CASE Types
  BY <1>2 DEF Types, Intended, RunsWhatWasMeant
<1>3. CASE at \notin {"prompt", "gone"} /\ Done
  BY <1>3 DEF Done, Intended, RunsWhatWasMeant
<1>4. CASE UNCHANGED <<line, meant>> /\ at \notin {"prompt", "gone"} /\ at' \notin {"prompt", "run"}
  BY <1>4 DEF Intended, RunsWhatWasMeant
<1>5. CASE UNCHANGED <<line, meant, cmd, at>>
  BY <1>5 DEF Intended, RunsWhatWasMeant
<1>6. CASE Leave
  BY <1>6 DEF Leave, Intended, RunsWhatWasMeant
<1>7. CASE UNCHANGED vars
  BY <1>5, <1>7 DEF vars
<1> QED BY <1>1, <1>2, <1>3, <1>4, <1>5, <1>6, <1>7, Steps

\* fgets and parse_cmd: a line that fits cmdbuf runs as the words it was typed
\* as, the last of them with the blanks it has.
THEOREM RunsWhatWasMeantHolds == Spec => []RunsWhatWasMeant
<1>1. Init => Intended /\ RunsWhatWasMeant
  BY DEF Init, Intended, RunsWhatWasMeant
<1> QED BY <1>1, IntendedStep, PTL DEF Spec
-----------------------------------------------------------------------------
(* What the variables hold.                                                *)

TreeOK(t) == DOMAIN t \subseteq Seq(Seq(Symbol)) /\ \A q \in DOMAIN t : t[q] \in Seq(Int)

DisksOK ==
  /\ DOMAIN disks = DOMAIN Media /\ mounted \subseteq DOMAIN disks
  /\ \A m \in DOMAIN disks : TreeOK(disks[m])

\* What the variables hold.
TypeOK ==
  /\ line \in Seq(Symbol) /\ tempname \in Seq(Symbol) /\ tempdir \in Seq(Symbol)
  /\ cwd \in Seq(DirName) /\ home \in Seq(DirName) /\ quiet \in BOOLEAN
  /\ at \in {"prompt", "run", "list", "fopen", "copy", "gone"}
  /\ at = "run" => cmd.arg1 \in Seq(Symbol) /\ cmd.arg2 \in Seq(Symbol)
  /\ at \in {"fopen", "copy"} =>
       /\ cmd = [op |-> cmd.op, src |-> cmd.src, arg2 |-> cmd.arg2, pos |-> cmd.pos]
       /\ cmd.src \in Seq(DirName) /\ cmd.arg2 \in Seq(Symbol) /\ cmd.pos \in Nat
  /\ DisksOK

\* What is open, and the directory the command began in.
InUse ==
  /\ at \in {"prompt", "run", "gone"} => open = {}
  /\ at = "list" => \A h \in open : h.mode = "dir"
  /\ at = "fopen" => open = {Reads(cmd.src)}
  /\ at = "copy" => open \subseteq {Reads(cmd.src), Writes(Path(cmd.arg2))}
  /\ at \in {"run", "fopen", "copy"} => cwd = home
  /\ at = "list" /\ Len(Text(home)) < PATH_MAX => tempdir = Text(home)

\* What has been copied, as long as nothing went wrong.
Copied ==
  /\ at = "fopen" => cmd.pos = 0 /\ (quiet => IsFile(cmd.src))
  /\ at = "copy" /\ quiet /\ cmd.arg2 # NULL /\ Path(cmd.arg2) # cmd.src =>
       /\ IsFile(cmd.src) /\ cmd.pos <= Len(File(cmd.src))
       /\ File(Path(cmd.arg2)) = SubSeq(File(cmd.src), 1, cmd.pos)

LEMMA SubSeqIn ==
  ASSUME NEW S, NEW s \in Seq(S), NEW i \in Nat \ {0}, NEW j \in Nat, j <= Len(s)
  PROVE  SubSeq(s, i, j) \in Seq(S)
BY SubSeqProperties

LEMMA PartsIn ==
  ASSUME NEW s \in Seq(Symbol)
  PROVE  SkipBlanks(s) \in Seq(Symbol)
<1> DEFINE I == {k \in 1..Len(s) : ~IsBlank(s[k])}
           i == IF I # {} THEN Min(I) ELSE 0
<1>1. SkipBlanks(s) = IF i = 0 THEN <<>> ELSE SubSeq(s, i, Len(s))
  BY DEF SkipBlanks, SelectInSeq
<1>2. i \in 0..Len(s)
  <2>1. CASE I = {}
    BY <2>1
  <2>2. CASE I # {}
    <3>1. I \subseteq 1..Len(s) /\ I \subseteq Nat
      OBVIOUS
    <3>2. Min(I) \in I
      BY <2>2, <3>1, MinOf
    <3> QED BY <2>2, <3>1, <3>2
  <2> QED BY <2>1, <2>2
<1> HIDE DEF i
<1> QED BY <1>1, <1>2, SubSeqIn

LEMMA CutsIn ==
  ASSUME NEW s \in Seq(Symbol)
  PROVE  /\ Before(s, FirstBlank(s)) \in Seq(Symbol) /\ After(s, FirstBlank(s)) \in Seq(Symbol)
         /\ Before(s, LineEnd(s)) \in Seq(Symbol)
<1>1. ASSUME NEW I \in SUBSET (1..Len(s)), NEW i, i = IF I # {} THEN Min(I) ELSE 0
      PROVE  Before(s, i) \in Seq(Symbol) /\ After(s, i) \in Seq(Symbol)
  <2>1. CASE I = {}
    <3>1. i = 0 /\ <<>> \in Seq(Symbol)
      BY <1>1, <2>1
    <3> QED BY <3>1 DEF Before, After
  <2>2. CASE I # {}
    <3>1. i \in 1..Len(s)
      <4>1. I \subseteq Nat /\ i = Min(I)
        BY <1>1, <2>2
      <4>2. Min(I) \in I
        BY <2>2, <4>1, MinOf
      <4> QED BY <4>1, <4>2
    <3>2. i - 1 \in Nat /\ i - 1 <= Len(s) /\ i + 1 \in Nat \ {0} /\ i # 0 /\ 1 \in Nat \ {0}
          /\ Len(s) \in Nat /\ Len(s) <= Len(s)
      BY <3>1
    <3>3. SubSeq(s, 1, i - 1) \in Seq(Symbol) /\ SubSeq(s, i + 1, Len(s)) \in Seq(Symbol)
      BY <3>2, SubSeqIn
    <3> QED BY <3>2, <3>3 DEF Before, After
  <2> QED BY <2>1, <2>2
<1> DEFINE A == {k \in 1..Len(s) : IsBlank(s[k])}
           B == {k \in 1..Len(s) : s[k] = NL}
<1>2. FirstBlank(s) = IF A # {} THEN Min(A) ELSE 0
  BY DEF FirstBlank, SelectInSeq
<1>3. LineEnd(s) = IF B # {} THEN Min(B) ELSE 0
  BY DEF LineEnd, SelectInSeq
<1>4. A \in SUBSET (1..Len(s)) /\ B \in SUBSET (1..Len(s))
  OBVIOUS
<1> HIDE DEF A, B
<1> QED BY <1>1, <1>2, <1>3, <1>4

LEMMA ParsedIn ==
  ASSUME NEW s \in Seq(Symbol)
  PROVE  parse_cmd(s).arg1 \in Seq(Symbol) /\ parse_cmd(s).arg2 \in Seq(Symbol)
<1> DEFINE c  == SkipBlanks(s)
           a1 == SkipBlanks(After(c, FirstBlank(c)))
           a2 == SkipBlanks(After(a1, FirstBlank(a1)))
           b1 == Before(a1, FirstBlank(a1))
           b2 == Before(a2, LineEnd(a2))
<1>1. /\ parse_cmd(s).arg1 = IF b1 = <<>> THEN NULL ELSE b1
      /\ parse_cmd(s).arg2 = IF b2 = <<>> THEN NULL ELSE b2
  BY DEF parse_cmd
<1>2. c \in Seq(Symbol)
  BY PartsIn
<1>3. a1 \in Seq(Symbol)
  <2>1. After(c, FirstBlank(c)) \in Seq(Symbol)
    BY <1>2, CutsIn
  <2> QED BY <2>1, PartsIn
<1>4. a2 \in Seq(Symbol)
  <2>1. After(a1, FirstBlank(a1)) \in Seq(Symbol)
    BY <1>3, CutsIn
  <2> QED BY <2>1, PartsIn
<1>5. b1 \in Seq(Symbol) /\ b2 \in Seq(Symbol)
  BY <1>3, <1>4, CutsIn
<1>6. NULL \in Seq(Symbol)
  BY DEF NULL, Symbol
<1> HIDE DEF b1, b2
<1> QED BY <1>1, <1>5, <1>6

LEMMA PathIn ==
  ASSUME cwd \in Seq(DirName), NEW s \in Seq(Symbol)
  PROVE  Path(s) \in Seq(DirName)
<1>1. Names(s) \in Seq(DirName)
  BY NamesAreNames
<1>2. cwd \o Names(s) \in Seq(DirName)
  BY <1>1
<1> QED BY <1>1, <1>2 DEF Path

LEMMA GetcwdIn ==
  ASSUME cwd \in Seq(DirName), NEW b \in Seq(Symbol)
  PROVE  getcwd(b) \in Seq(Symbol)
BY NamesOfText DEF getcwd

LEMMA IntoIn ==
  ASSUME NEW d \in Seq(Symbol), NEW s \in Seq(Symbol)
  PROVE  Into(d, s) \subseteq Seq(Symbol)
<1>1. ASSUME NEW b \in Basenames(s) PROVE b \in Seq(Symbol)
  <2>1. ASSUME NEW i \in DOMAIN s, b = SubSeq(s, i + 1, Len(s)) PROVE b \in Seq(Symbol)
    <3>1. i + 1 \in Nat \ {0} /\ Len(s) \in Nat /\ Len(s) <= Len(s)
      OBVIOUS
    <3> QED BY <2>1, <3>1, SubSeqIn
  <2> QED BY <1>1, <2>1 DEF Basenames
<1>2. ASSUME NEW n \in Seq(Symbol)
      PROVE  SubSeq(n, 1, IF Len(n) < PATH_MAX THEN Len(n) ELSE PATH_MAX - 1) \in Seq(Symbol)
  <2> DEFINE j == IF Len(n) < PATH_MAX THEN Len(n) ELSE PATH_MAX - 1
  <2>1. j \in Nat /\ j <= Len(n) /\ 1 \in Nat \ {0}
    BY ShellAssumption
  <2> HIDE DEF j
  <2>2. SubSeq(n, 1, j) \in Seq(Symbol)
    BY <2>1, SubSeqIn
  <2> QED BY <2>2 DEF j
<1>3. ASSUME NEW b \in Basenames(s) PROVE d \o <<SL>> \o b \in Seq(Symbol)
  <2>1. SL \in Symbol /\ b \in Seq(Symbol)
    BY <1>1 DEF Symbol
  <2> QED BY <2>1
<1> QED BY <1>2, <1>3 DEF Into
-----------------------------------------------------------------------------
(* The trees of the media.                                                 *)

LEMMA DirNamesAreNames ==
  ASSUME NEW p \in Seq(DirName)
  PROVE  p \in Seq(Seq(Symbol))
<1>1. \A i \in 1..Len(p) : p[i] \in DirName
  OBVIOUS
<1>2. \A i \in 1..Len(p) : p[i] \in Seq(Symbol)
  BY <1>1 DEF DirName
<1> QED BY <1>2, SeqIn

LEMMA StringsAreNames ==
  ASSUME NEW p \in Seq(Seq(STRING))
  PROVE  p \in Seq(Seq(Symbol))
<1>1. ASSUME NEW n \in Seq(STRING) PROVE n \in Seq(Symbol)
  <2>1. \A i \in 1..Len(n) : n[i] \in Symbol
    BY DEF Symbol
  <2> QED BY <2>1, SeqIn
<1>2. \A i \in 1..Len(p) : p[i] \in Seq(Symbol)
  BY <1>1
<1> QED BY <1>2, SeqIn

LEMMA HoldsAreInts ==
  ASSUME NEW x \in Seq(Nat) \cup {Dir}
  PROVE  x \in Seq(Int)
<1>1. CASE x \in Seq(Nat)
  <2>1. \A i \in 1..Len(x) : x[i] \in Int
    BY <1>1
  <2> QED BY <1>1, <2>1, SeqIn
<1>2. CASE x = Dir
  BY <1>2 DEF Dir
<1> QED BY <1>1, <1>2

\* Two places with the same medium and the same path in it are the same place.
LEMMA SamePlace ==
  ASSUME NEW p \in Seq(Seq(Symbol)), NEW q \in Seq(Seq(Symbol)), p # <<>>, q # <<>>,
         Head(p) = Head(q), Tail(p) = Tail(q)
  PROVE  p = q
<1>1. p = <<Head(p)>> \o Tail(p) /\ q = <<Head(q)>> \o Tail(q)
  BY HeadTailProperties
<1> QED BY <1>1

LEMMA PutPuts ==
  ASSUME DisksOK, NEW p \in Seq(Seq(Symbol)), p # <<>>, Head(p) \in DOMAIN disks,
         NEW x \in Seq(Int), Put(p, x), UNCHANGED mounted
  PROVE  /\ DisksOK'
         /\ disks'[Head(p)][Tail(p)] = x
         /\ \A q \in Seq(Seq(Symbol)) :
              IsFile(q) /\ q # p => /\ Head(q) \in mounted' /\ Tail(q) \in DOMAIN disks'[Head(q)]
                                    /\ disks'[Head(q)][Tail(q)] = File(q)
<1> DEFINE h == Head(p)
           t == disks[h]
           u == [q \in DOMAIN t \cup {Tail(p)} |-> IF q = Tail(p) THEN x ELSE t[q]]
<1>1. Tail(p) \in Seq(Seq(Symbol))
  BY HeadTailProperties
<1>2. disks' = [disks EXCEPT ![h] = u]
  BY DEF Put
<1>3. DOMAIN u = DOMAIN t \cup {Tail(p)} /\ u[Tail(p)] = x /\ \A q \in DOMAIN t : q # Tail(p) => u[q] = t[q]
  OBVIOUS
<1>4. TreeOK(t)
  BY DEF DisksOK
<1> HIDE DEF u, t, h
<1>5. TreeOK(u)
  BY <1>1, <1>3, <1>4 DEF TreeOK
<1>6. DOMAIN disks' = DOMAIN disks /\ disks'[h] = u /\ \A m \in DOMAIN disks : m # h => disks'[m] = disks[m]
  BY <1>2 DEF h
<1>7. DisksOK'
  BY <1>5, <1>6 DEF DisksOK, TreeOK
<1>8. ASSUME NEW q \in Seq(Seq(Symbol)), IsFile(q), q # p
      PROVE  /\ Head(q) \in mounted' /\ Tail(q) \in DOMAIN disks'[Head(q)]
             /\ disks'[Head(q)][Tail(q)] = File(q)
  <2>1. q # <<>> /\ Head(q) \in mounted /\ Tail(q) \in DOMAIN disks[Head(q)] /\ Head(q) \in DOMAIN disks
    BY <1>8 DEF IsFile, Here, DisksOK
  <2>2. CASE Head(q) = h
    <3>1. Tail(q) # Tail(p)
      BY <1>8, <2>1, <2>2, SamePlace DEF h
    <3> QED BY <1>3, <1>6, <2>1, <2>2, <3>1 DEF File, t
  <2>3. CASE Head(q) # h
    BY <1>6, <2>1, <2>3 DEF File
  <2> QED BY <2>2, <2>3
<1> QED BY <1>3, <1>6, <1>7, <1>8 DEF h

LEMMA DropDrops ==
  ASSUME DisksOK, NEW p, Drop(p), UNCHANGED mounted
  PROVE  DisksOK'
<1> DEFINE h == Head(p)
           t == disks[h]
           u == [q \in DOMAIN t \ ({Tail(p)} \cup Below(p)) |-> t[q]]
<1>1. disks' = [disks EXCEPT ![h] = u]
  BY DEF Drop
<1>2. DOMAIN u \subseteq DOMAIN t /\ \A q \in DOMAIN u : u[q] = t[q]
  OBVIOUS
<1> HIDE DEF u
<1>3. h \in DOMAIN disks => TreeOK(u)
  BY <1>2 DEF TreeOK, DisksOK
<1>4. /\ DOMAIN disks' = DOMAIN disks
      /\ \A m \in DOMAIN disks : disks'[m] = IF m = h THEN u ELSE disks[m]
  BY <1>1
<1> HIDE DEF h
<1> QED BY <1>3, <1>4 DEF DisksOK, TreeOK

\* What is left of q after n of its elements.
Rest(q, n) == SubSeq(q, n + 1, Len(q))

\* What is left of q after its prefix a, wherever it went, goes behind a again.
LEMMA PrefixAndRest ==
  ASSUME NEW S, NEW a \in Seq(S), NEW q \in Seq(S), IsPrefix(a, q),
         NEW b \in Seq(S)
  PROVE  /\ Cat(b, Rest(q, Len(a))) \in Seq(S)
         /\ Cat(a, Rest(Cat(b, Rest(q, Len(a))), Len(b))) = q
<1> DEFINE y == SubSeq(q, Len(a) + 1, Len(q))
           x == b \o y
           z == SubSeq(x, Len(b) + 1, Len(x))
<1>1. /\ Len(a) \in Nat /\ Len(q) \in Nat /\ Len(b) \in Nat /\ Len(a) <= Len(q)
      /\ SubSeq(a, 1, Len(a)) = SubSeq(q, 1, Len(a))
  BY DEF IsPrefix
<1>2. \A i \in 1..Len(a) : a[i] = q[i]
  <2>1. \A i \in 1..Len(a) : SubSeq(a, 1, Len(a))[i] = a[i] /\ SubSeq(q, 1, Len(a))[i] = q[i]
    BY <1>1
  <2> QED BY <1>1, <2>1
<1>3. y \in Seq(S) /\ Len(y) = Len(q) - Len(a) /\ \A i \in 1..Len(y) : y[i] = q[Len(a) + i]
  BY <1>1
<1> HIDE DEF y
<1>4. /\ x \in Seq(S) /\ Len(x) = Len(b) + Len(y)
      /\ \A i \in 1..Len(y) : x[Len(b) + i] = y[i]
  <2>1. /\ x \in Seq(S) /\ Len(x) = Len(b) + Len(y)
        /\ \A k \in 1..Len(b) + Len(y) : x[k] = IF k <= Len(b) THEN b[k] ELSE y[k - Len(b)]
    BY <1>3, ConcatProperties
  <2> HIDE DEF x
  <2>2. ASSUME NEW i \in 1..Len(y) PROVE x[Len(b) + i] = y[i]
    <3>1. Len(b) + i \in 1..Len(x) /\ ~(Len(b) + i <= Len(b)) /\ (Len(b) + i) - Len(b) = i
      BY <1>1, <1>3, <2>1
    <3> QED BY <2>1, <3>1
  <2> QED BY <2>1, <2>2
<1> HIDE DEF x
<1>5. z \in Seq(S) /\ Len(z) = Len(y) /\ \A i \in 1..Len(z) : z[i] = x[Len(b) + i]
  <2>1. Len(b) + 1 \in Int /\ Len(x) \in Int /\ Len(x) \in Nat /\ Len(y) \in Nat
    BY <1>1, <1>3, <1>4
  <2>2. \A i \in Len(b)+1..Len(x) : x[i] \in S
    BY <1>1, <1>4, <2>1
  <2>3. /\ z \in Seq(S)
        /\ Len(z) = IF Len(b) + 1 <= Len(x) THEN Len(x) - (Len(b) + 1) + 1 ELSE 0
        /\ \A i \in 1..Len(x) - (Len(b) + 1) + 1 : z[i] = x[(Len(b) + 1) + i - 1]
    BY <2>1, <2>2, SubSeqProperties
  <2> HIDE DEF z
  <2>4. Len(z) = Len(y) /\ Len(x) - (Len(b) + 1) + 1 = Len(y)
    BY <1>1, <1>4, <2>1, <2>3
  <2>5. \A i \in 1..Len(y) : (Len(b) + 1) + i - 1 = Len(b) + i
    BY <1>1, <2>1
  <2> QED BY <2>3, <2>4, <2>5
<1> HIDE DEF z
<1>6. z = y
  BY <1>3, <1>4, <1>5, SeqEqual
<1>7. a \o y = q
  <2>1. /\ a \o y \in Seq(S) /\ Len(a \o y) = Len(q)
        /\ \A i \in 1..Len(q) : (a \o y)[i] = IF i <= Len(a) THEN a[i] ELSE y[i - Len(a)]
    BY <1>1, <1>3
  <2>2. \A i \in 1..Len(q) : ~(i <= Len(a)) => i - Len(a) \in 1..Len(y) /\ Len(a) + (i - Len(a)) = i
    BY <1>1, <1>3
  <2>3. \A i \in 1..Len(q) : (a \o y)[i] = q[i]
    BY <1>1, <1>2, <1>3, <2>1, <2>2
  <2> QED BY <2>1, <2>3, SeqEqual
<1> QED BY <1>4, <1>6, <1>7 DEF x, y, z, Cat, Rest

LEMMA MoveMoves ==
  ASSUME DisksOK, NEW a \in Seq(Seq(Symbol)), NEW b \in Seq(Seq(Symbol)), Move(a, b),
         UNCHANGED mounted
  PROVE  DisksOK'
<1> DEFINE S == Seq(Symbol)
           h == Head(a)
           t == disks[h]
           A == Tail(a)
           B == Tail(b)
           old == {A} \cup Below(a)
           was(q) == A \o SubSeq(q, Len(b), Len(q))
           to(q) == B \o SubSeq(q, Len(a), Len(q))
           new == {to(q) : q \in old}
           u == [q \in (DOMAIN t \ old) \cup new |-> IF q \in new THEN t[was(q)] ELSE t[q]]
<1>1. disks' = [disks EXCEPT ![h] = u]
  BY DEF Move
<1>2. a # <<>> /\ b # <<>> /\ h \in DOMAIN disks /\ A \in DOMAIN t
  BY DEF Move, Here, IsFree, DisksOK
<1>3. A \in Seq(S) /\ B \in Seq(S) /\ Len(a) = Len(A) + 1 /\ Len(b) = Len(B) + 1
  BY <1>2, HeadTailProperties
<1>4. TreeOK(t)
  BY <1>2 DEF DisksOK
<1>5. ASSUME NEW q \in old PROVE q \in DOMAIN t /\ q \in Seq(S) /\ IsPrefix(A, q)
  <2>1. q \in DOMAIN t
    BY <1>2 DEF Below
  <2>2. q = A \/ IsPrefix(A, q)
    BY DEF Below, IsStrictPrefix
  <2>3. IsPrefix(A, A)
    BY <1>3 DEF IsPrefix
  <2> QED BY <1>4, <2>1, <2>2, <2>3 DEF TreeOK
<1> HIDE DEF h, t, A, B, old
<1>6. ASSUME NEW q \in old PROVE to(q) \in Seq(S) /\ was(to(q)) = q
  <2>1. q \in Seq(S) /\ IsPrefix(A, q)
    BY <1>5
  <2>2. to(q) = Cat(B, Rest(q, Len(A)))
    BY <1>3 DEF Cat, Rest
  <2>3. \A x : was(x) = Cat(A, Rest(x, Len(B)))
    BY <1>3 DEF Cat, Rest
  <2> HIDE DEF S, to, was
  <2> QED BY <1>3, <2>1, <2>2, <2>3, PrefixAndRest
<1> HIDE DEF to, was
<1>7. \A q \in new : q \in Seq(S) /\ was(q) \in DOMAIN t
  BY <1>5, <1>6
<1> HIDE DEF new
<1>8. /\ DOMAIN u = (DOMAIN t \ old) \cup new
      /\ \A q \in DOMAIN u : u[q] = IF q \in new THEN t[was(q)] ELSE t[q]
  OBVIOUS
<1> HIDE DEF u
<1>9. TreeOK(u)
  BY <1>4, <1>7, <1>8 DEF TreeOK
<1>10. /\ DOMAIN disks' = DOMAIN disks
       /\ \A m \in DOMAIN disks : disks'[m] = IF m = h THEN u ELSE disks[m]
  BY <1>1
<1> QED BY <1>9, <1>10 DEF DisksOK, TreeOK

LEMMA FreePlace ==
  ASSUME DisksOK, NEW p \in Seq(Seq(Symbol)), IsFree(p)
  PROVE  p # <<>> /\ Head(p) \in DOMAIN disks
<1>1. Len(p) > 1 /\ Len(p) \in Nat /\ IsDir(Front(p))
  BY DEF IsFree
<1>2. Front(p) # <<>> /\ Head(Front(p)) = Head(p)
  <2>1. \A k \in 1..Len(p)-1 : p[k] \in Seq(Symbol)
    BY <1>1
  <2>2. /\ Front(p) \in Seq(Seq(Symbol)) /\ Len(Front(p)) = Len(p) - 1
        /\ \A k \in 1..Len(p)-1 : Front(p)[k] = p[k]
    BY <1>1, <2>1 DEF Front
  <2> QED BY <1>1, <2>2
<1>3. Head(p) \in mounted
  BY <1>1, <1>2 DEF IsDir, Here
<1> QED BY <1>1, <1>3 DEF DisksOK

\* Copying, deleting, renaming, mounting and formatting, and what another
\* program does, leave trees of names with files and directories in them.
LEMMA DisksStep ==
  ASSUME TypeOK, [Next]_vars
  PROVE  DisksOK'
<1>1. cwd \in Seq(DirName) /\ DisksOK
  BY DEF TypeOK
<1>2. ASSUME UNCHANGED <<mounted, disks>> PROVE DisksOK'
  BY <1>1, <1>2 DEF DisksOK, TreeOK
<1>3. Dir \in Seq(Int) /\ <<>> \in Seq(Int)
  BY HoldsAreInts
<1>4. CASE Del \/ Mkdir \/ Rmdir \/ Ren
  <2> DEFINE p == Path(cmd.arg1)
             q == Path(cmd.arg2)
  <2>1. at = "run"
    BY <1>4 DEF Del, Mkdir, Rmdir, Ren, Simple, Running
  <2>2. p \in Seq(Seq(Symbol)) /\ q \in Seq(Seq(Symbol))
    BY <1>1, <2>1, PathIn, DirNamesAreNames DEF TypeOK
  <2>3. \/ UNCHANGED <<mounted, disks>>
        \/ UNCHANGED mounted /\ (Drop(p) \/ (IsFree(p) /\ Put(p, Dir)) \/ Move(p, q))
    BY <1>4 DEF Del, Mkdir, Rmdir, Ren, Simple, Tree, lib
  <2> HIDE DEF p, q
  <2>4. UNCHANGED mounted /\ IsFree(p) /\ Put(p, Dir) => DisksOK'
    BY <1>1, <1>3, <2>2, FreePlace, PutPuts
  <2>5. UNCHANGED mounted /\ Drop(p) => DisksOK'
    BY <1>1, DropDrops
  <2>6. UNCHANGED mounted /\ Move(p, q) => DisksOK'
    BY <1>1, <2>2, MoveMoves
  <2> QED BY <1>2, <2>3, <2>4, <2>5, <2>6
<1>5. CASE do_mount \/ do_mountfat \/ do_umount
  <2>1. disks' = disks /\ mounted' \subseteq mounted \cup Built \cup DOMAIN disks
    BY <1>5 DEF do_mount, do_mountfat, do_umount, Simple, Mounted, lib
  <2>2. Built \subseteq DOMAIN disks
    BY <1>1, ShellAssumption DEF DisksOK
  <2> QED BY <1>1, <2>1, <2>2 DEF DisksOK, TreeOK
<1>6. CASE do_mkfs
  <2>1. TreeOK(Blank)
    <3>1. <<>> \in Seq(Seq(Symbol))
      OBVIOUS
    <3> QED BY <1>3, <3>1 DEF TreeOK, Blank
  <2>2. mounted' = mounted
        /\ \/ disks' = disks
           \/ disks' = [m \in DOMAIN disks |-> IF m \in {<<"flash">>, <<"pfs">>} /\ cmd.arg1 = <<SL>> \o m
                                               THEN Blank ELSE disks[m]]
    BY <1>6 DEF do_mkfs, Simple, Tree, lib
  <2>3. CASE disks' = [m \in DOMAIN disks |-> IF m \in {<<"flash">>, <<"pfs">>} /\ cmd.arg1 = <<SL>> \o m
                                              THEN Blank ELSE disks[m]]
    <3>1. DOMAIN disks' = DOMAIN disks /\ \A m \in DOMAIN disks : disks'[m] = Blank \/ disks'[m] = disks[m]
      BY <2>3
    <3> HIDE <2>3
    <3>2. \A m \in DOMAIN disks' : TreeOK(disks'[m])
      BY <1>1, <2>1, <3>1 DEF DisksOK
    <3> QED BY <1>1, <2>2, <3>1, <3>2 DEF DisksOK, TreeOK
  <2> QED BY <1>2, <2>2, <2>3
<1>7. CASE OpenDest
  <2> DEFINE p == Path(cmd.arg2)
  <2>1. at = "fopen"
    BY <1>7 DEF OpenDest
  <2>2. p \in Seq(Seq(Symbol))
    BY <1>1, <2>1, PathIn, DirNamesAreNames DEF TypeOK
  <2>3. UNCHANGED <<mounted, disks>> \/ (UNCHANGED mounted /\ IsFree(p) /\ Put(p, <<>>))
    BY <1>7 DEF OpenDest, lib
  <2> QED BY <1>1, <1>2, <1>3, <2>2, <2>3, FreePlace, PutPuts
<1>8. CASE CopyByte
  <2> DEFINE p == Path(cmd.arg2)
             x == Append(File(p), File(cmd.src)[cmd.pos + 1])
  <2>1. at = "copy"
    BY <1>8 DEF CopyByte
  <2>2. p \in Seq(Seq(Symbol)) /\ cmd.pos \in Nat
    BY <1>1, <2>1, PathIn, DirNamesAreNames DEF TypeOK
  <2>3. /\ IsFile(cmd.src) /\ cmd.pos < Len(File(cmd.src))
        /\ \/ UNCHANGED <<mounted, disks>>
           \/ UNCHANGED mounted /\ IsFile(p) /\ Put(p, x)
    BY <1>8 DEF CopyByte, lib
  <2>4. CASE UNCHANGED mounted /\ IsFile(p) /\ Put(p, x)
    <3>1. p # <<>> /\ Head(p) \in DOMAIN disks /\ File(p) \in Seq(Int) /\ File(cmd.src) \in Seq(Int)
      BY <1>1, <2>3, <2>4 DEF IsFile, Here, File, DisksOK, TreeOK
    <3>2. x \in Seq(Int)
      BY <2>2, <2>3, <3>1
    <3> QED BY <1>1, <2>2, <2>4, <3>1, <3>2, PutPuts
  <2> QED BY <1>2, <2>3, <2>4
<1>9. CASE HostChanges
  <2>1. PICK f \in HostFiles :
          LET p == <<Host>> \o f.path IN
          UNCHANGED mounted /\ (Drop(p) \/ Put(p, f.holds))
    BY <1>9 DEF HostChanges
  <2> DEFINE p == <<Host>> \o f.path
  <2>2. f.path \in Seq(Seq(Symbol)) /\ f.holds \in Seq(Int)
    <3>1. f.path \in Seq(Seq(STRING)) /\ f.holds \in Seq(Nat) \cup {Dir}
      BY ShellAssumption
    <3> QED BY <3>1, StringsAreNames, HoldsAreInts
  <2>3. Host \in Seq(Symbol)
    BY DEF Host, Symbol
  <2>4. p \in Seq(Seq(Symbol)) /\ p # <<>> /\ Head(p) = Host
    BY <2>2, <2>3
  <2>5. Host \in DOMAIN disks
    BY <1>1, ShellAssumption DEF DisksOK
  <2> HIDE DEF p
  <2> QED BY <1>1, <2>1, <2>2, <2>4, <2>5, PutPuts, DropDrops DEF p
<1>10. CASE Types \/ Prompt \/ Cd \/ Exec \/ OtherCommand \/ do_dir \/ ListEnd \/ do_copy \/ CopyEnd
            \/ ReadError \/ Leave \/ UNCHANGED vars
  <2>1. UNCHANGED lib
    BY <1>10
    DEF Types, Prompt, Cd, Exec, OtherCommand, do_dir, ListEnd, do_copy, CopyEnd, ReadError,
        CloseBoth, Leave, vars
  <2> QED BY <1>2, <2>1 DEF lib
<1> QED
  BY <1>4, <1>5, <1>6, <1>7, <1>8, <1>9, <1>10 DEF Next, Command

LEMMA TypeInit == Init => TypeOK
<1> SUFFICES ASSUME Init PROVE TypeOK
  OBVIOUS
<1>1. <<>> \in Seq(Symbol) /\ <<>> \in Seq(DirName) /\ <<Host>> \in Seq(DirName)
  <2>1. Host \in Seq(Symbol) /\ Host # <<>> /\ \A i \in 1..Len(Host) : Host[i] # SL
    BY DEF Host, Symbol, SL
  <2> QED BY <2>1 DEF DirName
<1>2. DisksOK
  <2>1. disks = Media /\ mounted \subseteq {Host} /\ Host \in DOMAIN Media
    BY ShellAssumption DEF Init
  <2>2. \A m \in DOMAIN Media : TreeOK(Media[m])
    <3>1. SUFFICES ASSUME NEW m \in DOMAIN Media PROVE TreeOK(Media[m])
      OBVIOUS
    <3>2. DOMAIN Media[m] \subseteq Seq(Seq(STRING))
          /\ \A q \in DOMAIN Media[m] : Media[m][q] \in Seq(Nat) \cup {Dir}
      BY ShellAssumption
    <3> QED BY <3>2, StringsAreNames, HoldsAreInts DEF TreeOK
  <2> QED BY <2>1, <2>2 DEF DisksOK
<1>3. cwd \in Seq(DirName)
  BY <1>1 DEF Init
<1> QED BY <1>1, <1>2, <1>3 DEF Init, TypeOK

\* The record of a copy, and the next byte of it.
LEMMA NextByte ==
  ASSUME TypeOK, CopyByte
  PROVE  /\ cmd' = [op |-> cmd.op, src |-> cmd.src, arg2 |-> cmd.arg2, pos |-> cmd.pos + 1]
         /\ cmd'.op = cmd.op /\ cmd'.src = cmd.src /\ cmd'.arg2 = cmd.arg2
         /\ cmd'.pos = cmd.pos + 1 /\ cmd.pos \in Nat
<1>1. /\ cmd = [op |-> cmd.op, src |-> cmd.src, arg2 |-> cmd.arg2, pos |-> cmd.pos]
      /\ cmd.pos \in Nat
      /\ cmd' = [cmd EXCEPT !.pos = cmd.pos + 1]
  BY DEF TypeOK, CopyByte
<1>2. \A o, s, a, n, k :
        [[op |-> o, src |-> s, arg2 |-> a, pos |-> n] EXCEPT !.pos = k]
          = [op |-> o, src |-> s, arg2 |-> a, pos |-> k]
  OBVIOUS
<1>3. cmd' = [op |-> cmd.op, src |-> cmd.src, arg2 |-> cmd.arg2, pos |-> cmd.pos + 1]
  BY <1>1, <1>2, Zenon
<1>4. \A o, s, a, n : LET c == [op |-> o, src |-> s, arg2 |-> a, pos |-> n] IN
        c.op = o /\ c.src = s /\ c.arg2 = a /\ c.pos = n
  OBVIOUS
<1> QED BY <1>1, <1>3, <1>4, Zenon

LEMMA TypeStep ==
  ASSUME TypeOK, [Next]_vars
  PROVE  TypeOK'
<1>1. DisksOK'
  BY DisksStep
<1>2. /\ line \in Seq(Symbol) /\ tempname \in Seq(Symbol) /\ tempdir \in Seq(Symbol)
      /\ cwd \in Seq(DirName) /\ home \in Seq(DirName) /\ quiet \in BOOLEAN
      /\ at \in {"prompt", "run", "list", "fopen", "copy", "gone"}
      /\ <<>> \in Seq(DirName) /\ <<>> \in Seq(Symbol) /\ NULL \in Seq(Symbol)
  BY DEF TypeOK, NULL, Symbol
<1>3. CASE Types
  <2>1. PICK ws \in Typed, g \in Gaps : line' = LineOf(ws, g)
    BY <1>3 DEF Types
  <2>2. line' \in Seq(Symbol)
    <3>1. PICK f \in Seq(Symbol \ {NL}) : LineOf(ws, g) = f \o <<NL>>
      BY LineShape
    <3>2. NL \in Symbol /\ f \in Seq(Symbol)
      BY SeqIn DEF Symbol
    <3> QED BY <2>1, <3>1, <3>2
  <2> QED BY <1>1, <1>2, <1>3, <2>2 DEF Types, TypeOK, temp
<1>4. CASE Prompt
  <2> DEFINE end == LineEnd(line)
             n == IF end < LineSize THEN end ELSE LineSize - 1
  <2>1. /\ line # <<>> /\ line' = SubSeq(line, n + 1, Len(line))
        /\ cmd' = parse_cmd(SubSeq(line, 1, n))
        /\ at' \in {"prompt", "run"} /\ home' = cwd /\ quiet' = TRUE
        /\ tempname' = tempname /\ tempdir' = tempdir /\ cwd' = cwd
    BY <1>4 DEF Prompt, temp
  <2>2. end \in 0..Len(line) /\ Len(line) \in Nat
    <3> DEFINE I == {i \in 1..Len(line) : line[i] = NL}
    <3>1. end = IF I # {} THEN Min(I) ELSE 0
      BY DEF LineEnd, SelectInSeq
    <3>2. I \subseteq Nat /\ I \subseteq 1..Len(line) /\ Len(line) \in Nat
      BY <1>2
    <3> HIDE DEF I
    <3>3. I # {} => Min(I) \in I
      BY <3>2, MinOf
    <3> HIDE DEF end
    <3>4. CASE I = {}
      BY <3>1, <3>2, <3>4
    <3>5. CASE I # {}
      <4>1. end = Min(I)
        BY <3>1, <3>5
      <4>2. end \in I
        BY <3>3, <3>5, <4>1
      <4>3. end \in 1..Len(line)
        BY <3>2, <4>2
      <4> QED BY <3>2, <4>3
    <3> QED BY <3>4, <3>5
  <2>3. n \in Nat /\ n <= Len(line) /\ n + 1 \in Nat \ {0} /\ Len(line) <= Len(line) /\ 1 \in Nat \ {0}
    BY <2>2, ShellAssumption
  <2> HIDE DEF n
  <2>4. line' \in Seq(Symbol) /\ SubSeq(line, 1, n) \in Seq(Symbol)
    BY <1>2, <2>1, <2>2, <2>3, SubSeqIn
  <2>5. cmd'.arg1 \in Seq(Symbol) /\ cmd'.arg2 \in Seq(Symbol)
    BY <2>1, <2>4, ParsedIn
  <2> QED BY <1>1, <1>2, <2>1, <2>4, <2>5 DEF TypeOK
<1>5. CASE Cd
  <2>1. cmd.arg1 \in Seq(Symbol) /\ at' = "prompt" /\ line' = line /\ home' = <<>>
        /\ tempname' = tempname /\ quiet' = quiet
    BY <1>5 DEF TypeOK, Cd, Running, Done
  <2>2. tempdir' = tempdir \/ tempdir' = getcwd(tempdir)
    BY <1>5 DEF Cd
  <2>3. cwd' = cwd \/ cwd' = Path(cmd.arg1)
    BY <1>5 DEF Cd, chdir
  <2>4. tempdir' \in Seq(Symbol) /\ cwd' \in Seq(DirName)
    BY <1>2, <2>1, <2>2, <2>3, GetcwdIn, PathIn
  <2> QED BY <1>1, <1>2, <2>1, <2>4 DEF TypeOK
<1>6. CASE Del \/ Mkdir \/ Rmdir \/ Ren \/ do_mount \/ do_mountfat \/ do_umount \/ do_mkfs
           \/ OtherCommand
  <2>1. at' = "prompt" /\ line' = line /\ home' = <<>> /\ cwd' = cwd
        /\ tempname' = tempname /\ tempdir' = tempdir /\ quiet' \in {quiet, FALSE}
    BY <1>6
    DEF Del, Mkdir, Rmdir, Ren, do_mount, do_mountfat, do_umount, do_mkfs, OtherCommand, Simple,
        Done, temp
  <2> QED BY <1>1, <1>2, <2>1 DEF TypeOK
<1>7. CASE do_dir
  <2> DEFINE filename == IF cmd.arg1 = NULL THEN tempname' ELSE cmd.arg1
  <2>1. cmd.arg1 \in Seq(Symbol)
    BY <1>7 DEF TypeOK, do_dir, Running
  <2>2. tempname' \in Seq(Symbol)
    BY <1>2, <1>7, GetcwdIn DEF do_dir
  <2>3. Path(filename) \in Seq(DirName) /\ getcwd(tempdir) \in Seq(Symbol)
    BY <1>2, <2>1, <2>2, GetcwdIn, PathIn
  <2>4. /\ line' = line /\ home' \in {home, <<>>} /\ quiet' \in {quiet, FALSE}
        /\ at' \in {"prompt", "list"}
        /\ tempdir' \in {tempdir, getcwd(tempdir)} /\ cwd' \in {cwd, Path(filename)}
    BY <1>7 DEF do_dir, Done
  <2> HIDE DEF filename
  <2> QED BY <1>1, <1>2, <2>2, <2>3, <2>4 DEF TypeOK
<1>8. CASE ListEnd
  <2>1. Path(tempdir) \in Seq(DirName)
    BY <1>2, PathIn
  <2>2. /\ line' = line /\ home' = <<>> /\ quiet' = quiet /\ at' = "prompt"
        /\ tempdir' = tempdir /\ tempname' = tempname /\ cwd' \in {cwd, Path(tempdir)}
    BY <1>8 DEF ListEnd, Done, temp, chdir
  <2> QED BY <1>1, <1>2, <2>1, <2>2 DEF TypeOK
<1>9. CASE do_copy
  <2>1. cmd.arg1 \in Seq(Symbol) /\ cmd.arg2 \in Seq(Symbol)
    BY <1>9 DEF TypeOK, do_copy, Running
  <2>2. Dest \in Seq(Symbol)
    BY <1>2, <2>1 DEF Dest
  <2>3. Into(Dest, cmd.arg1) \subseteq Seq(Symbol) /\ Path(cmd.arg1) \in Seq(DirName)
    BY <1>2, <2>1, <2>2, IntoIn, PathIn
  <2>4. /\ line' = line /\ home' \in {home, <<>>} /\ quiet' \in {quiet, FALSE}
        /\ cwd' = cwd /\ tempdir' = tempdir
        /\ at' \in {"prompt", "fopen"} /\ tempname' \in {tempname} \cup Into(Dest, cmd.arg1)
        /\ at' = "fopen" => \E dest \in Into(Dest, cmd.arg1) \cup {Dest} :
             cmd' = [op |-> cmd.op, src |-> Path(cmd.arg1), arg2 |-> dest, pos |-> 0]
    BY <1>9 DEF do_copy, Done, temp
  <2>5. ASSUME NEW dest \in Seq(Symbol),
               cmd' = [op |-> cmd.op, src |-> Path(cmd.arg1), arg2 |-> dest, pos |-> 0]
        PROVE  /\ cmd' = [op |-> cmd'.op, src |-> cmd'.src, arg2 |-> cmd'.arg2, pos |-> cmd'.pos]
               /\ cmd'.src \in Seq(DirName) /\ cmd'.arg2 \in Seq(Symbol) /\ cmd'.pos \in Nat
    BY <2>3, <2>5
  <2>6. at' = "fopen" => \E dest \in Seq(Symbol) :
          cmd' = [op |-> cmd.op, src |-> Path(cmd.arg1), arg2 |-> dest, pos |-> 0]
    BY <2>2, <2>3, <2>4
  <2>7. at' = "fopen" =>
          /\ cmd' = [op |-> cmd'.op, src |-> cmd'.src, arg2 |-> cmd'.arg2, pos |-> cmd'.pos]
          /\ cmd'.src \in Seq(DirName) /\ cmd'.arg2 \in Seq(Symbol) /\ cmd'.pos \in Nat
    BY <2>5, <2>6
  <2>8. tempname' \in Seq(Symbol)
    BY <1>2, <2>3, <2>4
  <2>9. at' # "copy" /\ at' # "run"
    BY <2>4
  <2> QED BY <1>1, <1>2, <2>4, <2>7, <2>8, <2>9 DEF TypeOK
<1>10. CASE OpenDest
  <2>1. /\ line' = line /\ home' \in {home, <<>>} /\ quiet' \in {quiet, FALSE}
        /\ cwd' = cwd /\ tempdir' = tempdir /\ tempname' = tempname
        /\ at' \in {"prompt", "copy"} /\ (at' = "copy" => cmd' = cmd) /\ at = "fopen"
    BY <1>10 DEF OpenDest, Done, temp
  <2> QED BY <1>1, <1>2, <2>1 DEF TypeOK
<1>11. CASE CopyByte
  <2>1. /\ line' = line /\ home' = home /\ quiet' \in {quiet, FALSE}
        /\ cwd' = cwd /\ tempdir' = tempdir /\ tempname' = tempname /\ at = "copy" /\ at' = at
    BY <1>11 DEF CopyByte, temp
  <2>2. /\ cmd' = [op |-> cmd'.op, src |-> cmd'.src, arg2 |-> cmd'.arg2, pos |-> cmd'.pos]
        /\ cmd'.src = cmd.src /\ cmd'.arg2 = cmd.arg2 /\ cmd'.pos \in Nat
    BY <1>11, NextByte
  <2>3. cmd.src \in Seq(DirName) /\ cmd.arg2 \in Seq(Symbol)
    BY <2>1 DEF TypeOK
  <2> QED BY <1>1, <1>2, <2>1, <2>2, <2>3 DEF TypeOK
<1>12. CASE CopyEnd \/ ReadError
  <2>1. /\ line' = line /\ home' = <<>> /\ quiet' \in {quiet, FALSE}
        /\ cwd' = cwd /\ tempdir' = tempdir /\ tempname' = tempname /\ at' = "prompt"
    BY <1>12 DEF CopyEnd, ReadError, CloseBoth, Done, temp
  <2> QED BY <1>1, <1>2, <2>1 DEF TypeOK
<1>13. CASE Exec \/ Leave
  <2>1. /\ line' = line /\ home' = home /\ quiet' = quiet
        /\ cwd' = cwd /\ tempdir' = tempdir /\ tempname' = tempname /\ at' = "gone"
    BY <1>13 DEF Exec, Leave, temp
  <2> QED BY <1>1, <1>2, <2>1 DEF TypeOK
<1>14. CASE HostChanges \/ UNCHANGED vars
  <2>1. /\ line' = line /\ home' = home /\ quiet' \in BOOLEAN /\ cmd' = cmd
        /\ cwd' = cwd /\ tempdir' = tempdir /\ tempname' = tempname /\ at' = at
    BY <1>2, <1>14 DEF HostChanges, vars, temp
  <2> QED BY <1>1, <1>2, <2>1 DEF TypeOK
<1> QED
  BY <1>3, <1>4, <1>5, <1>6, <1>7, <1>8, <1>9, <1>10, <1>11, <1>12, <1>13, <1>14
  DEF Next, Command

LEMMA TypeCorrect == Spec => []TypeOK
BY TypeInit, TypeStep, PTL DEF Spec
-----------------------------------------------------------------------------
(* Nothing stays open, and the user stays where he was.                    *)

LEMMA InUseStep ==
  ASSUME TypeOK, InUse, [Next]_vars
  PROVE  InUse'
<1>1. CASE /\ at \in {"prompt", "run"} /\ at' \in {"prompt", "run", "gone"}
           /\ open' = open /\ (at' = "run" => cwd' = home')
  BY <1>1 DEF InUse
<1>2. CASE Types \/ Prompt \/ Exec \/ Leave
  <2>1. /\ at \in {"prompt", "run"} /\ at' \in {"prompt", "run", "gone"}
        /\ open' = open /\ (at' = "run" => cwd' = home')
    BY <1>2 DEF Types, Prompt, Exec, Leave, Running
  <2> QED BY <1>1, <2>1
<1>3. CASE Cd \/ Del \/ Mkdir \/ Rmdir \/ Ren \/ do_mount \/ do_mountfat \/ do_umount \/ do_mkfs
           \/ OtherCommand
  <2>1. at = "run" /\ at' = "prompt" /\ open' = open
    BY <1>3
    DEF Cd, Del, Mkdir, Rmdir, Ren, do_mount, do_mountfat, do_umount, do_mkfs, OtherCommand,
        Simple, Running, Done
  <2> QED BY <1>1, <2>1
<1>4. CASE do_dir
  <2>1. at = "run" /\ open = {} /\ cwd = home
    BY <1>4 DEF InUse, do_dir, Running
  <2>2. \/ at' = "prompt" /\ open' = open
        \/ /\ at' = "list" /\ home' = home /\ tempdir' = getcwd(tempdir)
           /\ \E p : open' = open \cup {DirHandle(p)}
    BY <1>4 DEF do_dir, Done
  <2>3. \A p : DirHandle(p).mode = "dir"
    BY DEF DirHandle
  <2>4. Len(Text(home)) < PATH_MAX => getcwd(tempdir) = Text(home)
    BY <2>1 DEF getcwd
  <2> QED BY <2>1, <2>2, <2>3, <2>4 DEF InUse
<1>5. CASE ListEnd
  <2>1. at' = "prompt" /\ \A h \in open : h.mode = "dir"
    BY <1>5 DEF ListEnd, Done, InUse
  <2>2. open' = {}
    BY <1>5, <2>1 DEF ListEnd
  <2> QED BY <2>1, <2>2 DEF InUse
<1>6. CASE do_copy
  <2>1. at = "run" /\ open = {} /\ cwd = home
    BY <1>6 DEF InUse, do_copy, Running
  <2>2. \/ at' = "prompt" /\ open' = open
        \/ /\ at' = "fopen" /\ home' = home /\ cwd' = cwd
           /\ \E src, d : /\ open' = open \cup {Reads(src)}
                          /\ cmd' = [op |-> cmd.op, src |-> src, arg2 |-> d, pos |-> 0]
    BY <1>6 DEF do_copy, Done
  <2>3. ASSUME NEW src, NEW d, open' = open \cup {Reads(src)},
               cmd' = [op |-> cmd.op, src |-> src, arg2 |-> d, pos |-> 0]
        PROVE  open' = {Reads(cmd'.src)}
    BY <2>1, <2>3
  <2>4. Reads(cmd.src)' = Reads(cmd'.src)
    BY DEF Reads
  <2> QED BY <2>1, <2>2, <2>3, <2>4 DEF InUse
<1>7. CASE OpenDest
  <2>1. at = "fopen" /\ open = {Reads(cmd.src)} /\ cwd = home
    BY <1>7 DEF InUse, OpenDest
  <2>2. \/ at' = "prompt" /\ open' = open \ {Reads(cmd.src)}
        \/ /\ at' = "copy" /\ home' = home /\ cwd' = cwd /\ cmd' = cmd
           /\ open' \in {open, open \cup {Writes(Path(cmd.arg2))}}
    BY <1>7 DEF OpenDest, Done, Close
  <2>3. cmd' = cmd /\ cwd' = cwd =>
          Reads(cmd.src)' = Reads(cmd.src) /\ Writes(Path(cmd.arg2))' = Writes(Path(cmd.arg2))
    BY DEF Reads, Writes, Path
  <2> QED BY <2>1, <2>2, <2>3 DEF InUse
<1>8. CASE CopyByte
  <2>1. at = "copy" /\ at' = "copy" /\ open' = open /\ home' = home /\ cwd' = cwd
    BY <1>8 DEF CopyByte
  <2>2. cmd'.src = cmd.src /\ cmd'.arg2 = cmd.arg2
    BY <1>8, NextByte
  <2>3. Reads(cmd.src)' = Reads(cmd.src) /\ Writes(Path(cmd.arg2))' = Writes(Path(cmd.arg2))
    BY <2>1, <2>2 DEF Reads, Writes, Path
  <2> QED BY <2>1, <2>3 DEF InUse
<1>9. CASE CopyEnd \/ ReadError
  <2>1. at' = "prompt" /\ open \subseteq {Reads(cmd.src), Writes(Path(cmd.arg2))}
        /\ open' = open \ {Reads(cmd.src), Writes(Path(cmd.arg2))}
    BY <1>9 DEF CopyEnd, ReadError, CloseBoth, Done, Close, InUse
  <2> QED BY <2>1 DEF InUse
<1>10. CASE HostChanges \/ UNCHANGED vars
  <2>1. /\ at' = at /\ open' = open /\ home' = home /\ cwd' = cwd /\ cmd' = cmd
        /\ tempdir' = tempdir
    BY <1>10 DEF HostChanges, vars, temp
  <2>2. Reads(cmd.src)' = Reads(cmd.src) /\ Writes(Path(cmd.arg2))' = Writes(Path(cmd.arg2))
        /\ Text(home)' = Text(home)
    BY <2>1 DEF Reads, Writes, Path, Text
  <2> QED BY <2>1, <2>2 DEF InUse
<1> QED
  BY <1>2, <1>3, <1>4, <1>5, <1>6, <1>7, <1>8, <1>9, <1>10 DEF Next, Command

\* A command leaves the current directory as it was, but for cd and for a
\* listing that cannot find the way back.
LEMMA StaysThere ==
  ASSUME TypeOK, InUse, Next, at \notin {"prompt", "gone"}, at' = "prompt"
  PROVE  \/ cmd.op = <<"cd">> \/ ~IsDir(home)
         \/ Len(Text(home)) >= PATH_MAX
         \/ cwd' = home
<1>1. CASE at = "run" /\ cwd' = cwd
  BY <1>1 DEF InUse
<1>2. CASE Cd
  BY <1>2 DEF Cd, Running
<1>3. CASE Del \/ Mkdir \/ Rmdir \/ Ren \/ do_mount \/ do_mountfat \/ do_umount \/ do_mkfs
           \/ OtherCommand
  <2>1. at = "run" /\ cwd' = cwd
    BY <1>3
    DEF Del, Mkdir, Rmdir, Ren, do_mount, do_mountfat, do_umount, do_mkfs, OtherCommand,
        Simple, Running
  <2> QED BY <1>1, <2>1
<1>4. CASE do_dir \/ do_copy
  <2>1. at = "run" /\ cwd' = cwd
    BY <1>4 DEF do_dir, do_copy, Running
  <2> QED BY <1>1, <2>1
<1>5. CASE ListEnd
  <2>1. SUFFICES ASSUME IsDir(home), Len(Text(home)) < PATH_MAX PROVE cwd' = home
    <3>1. Len(Text(home)) \in Nat /\ PATH_MAX \in Nat
      <4>1. Text(home) \in Seq(Symbol)
        BY NamesOfText DEF TypeOK
      <4> QED BY <4>1, ShellAssumption
    <3> QED BY <3>1
  <2>2. tempdir = Text(home) /\ home \in Seq(DirName)
    BY <1>5, <2>1 DEF ListEnd, InUse, TypeOK
  <2>3. Path(tempdir) = home
    BY <2>2, PathOfText
  <2> QED BY <1>5, <2>1, <2>3 DEF ListEnd, chdir
<1>6. CASE OpenDest \/ CopyEnd \/ ReadError
  BY <1>6 DEF OpenDest, CopyEnd, ReadError, CloseBoth, InUse
<1>7. CASE Types \/ Prompt \/ Leave \/ Exec \/ CopyByte \/ HostChanges
  BY <1>7 DEF Types, Prompt, Leave, Exec, CopyByte, HostChanges
<1> QED
  BY <1>2, <1>3, <1>4, <1>5, <1>6, <1>7 DEF Next, Command

\* Every way out of do_dir and do_copy: no file and no directory stays open,
\* and but for cd the user is where he was, unless the name of that directory
\* does not fit tempdir, or it is not there any more.
THEOREM LeavesNothingHolds == Spec => LeavesNothing
<1>1. Init => InUse
  BY DEF Init, InUse
<1>2. TypeOK /\ InUse /\ [Next]_vars => InUse'
  BY InUseStep
<1>3. TypeOK /\ InUse /\ [Next]_vars =>
        [at \notin {"prompt", "gone"} /\ at' = "prompt" =>
           /\ open' = {}
           /\ \/ cmd.op = <<"cd">> \/ ~quiet' \/ ~IsDir(home)
              \/ Len(Text(home)) >= PATH_MAX
              \/ cwd' = home]_vars
  <2>1. SUFFICES ASSUME TypeOK, InUse, Next, at \notin {"prompt", "gone"}, at' = "prompt"
                 PROVE  /\ open' = {}
                        /\ \/ cmd.op = <<"cd">> \/ ~IsDir(home)
                           \/ Len(Text(home)) >= PATH_MAX
                           \/ cwd' = home
    OBVIOUS
  <2>2. InUse'
    BY <2>1, InUseStep
  <2>3. open' = {}
    BY <2>1, <2>2 DEF InUse
  <2> QED BY <2>1, <2>3, StaysThere
<1> QED BY <1>1, <1>2, <1>3, TypeCorrect, PTL DEF Spec, LeavesNothing
-----------------------------------------------------------------------------
(* A copy is a copy.                                                       *)

LEMMA CopiedStep ==
  ASSUME TypeOK, Copied, [Next]_vars
  PROVE  Copied'
<1>1. CASE at' \notin {"fopen", "copy"}
  BY <1>1 DEF Copied
<1>2. CASE ~quiet' /\ at' # "fopen"
  BY <1>2 DEF Copied
<1>3. CASE UNCHANGED <<at, cmd, cwd, mounted, disks, quiet>>
  <2>1. /\ IsFile(cmd.src)' <=> IsFile(cmd.src)
        /\ File(cmd.src)' = File(cmd.src) /\ Path(cmd.arg2)' = Path(cmd.arg2)
        /\ File(Path(cmd.arg2))' = File(Path(cmd.arg2))
    BY <1>3 DEF IsFile, Here, File, Path
  <2> QED BY <1>3, <2>1 DEF Copied
<1>4. CASE do_copy
  <2>1. SUFFICES ASSUME at' = "fopen" PROVE Copied'
    BY <1>1, <1>4 DEF do_copy, Done
  <2>2. \E src, d : IsFile(src) /\ cmd' = [op |-> cmd.op, src |-> src, arg2 |-> d, pos |-> 0]
    BY <1>4, <2>1 DEF do_copy, Done
  <2>3. cmd'.pos = 0 /\ IsFile(cmd'.src)
    BY <2>2
  <2>4. mounted' = mounted /\ disks' = disks
    BY <1>4 DEF do_copy, lib
  <2>5. IsFile(cmd.src)'
    BY <2>3, <2>4 DEF IsFile, Here, File
  <2> QED BY <2>1, <2>3, <2>5 DEF Copied
<1>5. CASE OpenDest
  <2> DEFINE p == Path(cmd.arg2)
  <2>1. at = "fopen" /\ at' \in {"prompt", "copy"}
    BY <1>5 DEF OpenDest, Done
  <2>2. SUFFICES ASSUME at' = "copy", quiet', cmd'.arg2 # NULL, Path(cmd.arg2)' # cmd'.src
                 PROVE  /\ IsFile(cmd.src)' /\ (cmd.pos <= Len(File(cmd.src)))'
                        /\ (File(Path(cmd.arg2)) = SubSeq(File(cmd.src), 1, cmd.pos))'
    BY <2>1 DEF Copied
  <2>3. cmd' = cmd /\ cwd' = cwd /\ quiet' = quiet /\ IsFree(p) /\ Put(p, <<>>)
        /\ mounted' = mounted
    BY <1>5, <2>2 DEF OpenDest, Done
  <2>4. p' = p
    BY <2>3 DEF Path
  <2>5. IsFile(cmd.src) /\ cmd.pos = 0
    BY <2>1, <2>2, <2>3 DEF Copied
  <2>6. p \in Seq(Seq(Symbol)) /\ cmd.src \in Seq(Seq(Symbol)) /\ DisksOK
    BY <2>1, PathIn, DirNamesAreNames DEF TypeOK
  <2>7. p # cmd.src
    BY <2>2, <2>3, <2>4
  <2> HIDE DEF p
  <2>8. p # <<>> /\ Head(p) \in DOMAIN disks /\ <<>> \in Seq(Int)
    BY <2>3, <2>6, FreePlace
  <2>9. /\ disks'[Head(p)][Tail(p)] = <<>>
        /\ Head(cmd.src) \in mounted' /\ Tail(cmd.src) \in DOMAIN disks'[Head(cmd.src)]
        /\ disks'[Head(cmd.src)][Tail(cmd.src)] = File(cmd.src)
    BY <2>3, <2>5, <2>6, <2>7, <2>8, PutPuts
  <2>10. File(cmd.src) \in Seq(Int)
    BY <2>5, <2>6 DEF IsFile, Here, File, DisksOK, TreeOK
  <2>11. File(cmd.src)' = File(cmd.src) /\ File(p)' = <<>> /\ IsFile(cmd.src)'
    BY <2>3, <2>4, <2>5, <2>9 DEF File, IsFile, Here
  <2>12. Len(File(cmd.src)) \in Nat /\ SubSeq(File(cmd.src), 1, 0) = <<>>
    BY <2>10
  <2> QED BY <2>3, <2>5, <2>11, <2>12 DEF p
<1>6. CASE CopyByte
  <2> DEFINE p == Path(cmd.arg2)
             F == File(cmd.src)
             x == Append(File(p), F[cmd.pos + 1])
  <2>1. at = "copy" /\ at' = "copy" /\ cwd' = cwd
    BY <1>6 DEF CopyByte
  <2>2. SUFFICES ASSUME quiet', cmd'.arg2 # NULL, Path(cmd.arg2)' # cmd'.src
                 PROVE  /\ IsFile(cmd.src)' /\ (cmd.pos <= Len(File(cmd.src)))'
                        /\ (File(Path(cmd.arg2)) = SubSeq(File(cmd.src), 1, cmd.pos))'
    BY <2>1 DEF Copied
  <2>3. /\ cmd'.src = cmd.src /\ cmd'.arg2 = cmd.arg2 /\ cmd'.pos = cmd.pos + 1
        /\ cmd.pos \in Nat
    BY <1>6, NextByte
  <2>4. /\ quiet' = quiet /\ IsFile(p) /\ Put(p, x) /\ mounted' = mounted
        /\ IsFile(cmd.src) /\ cmd.pos < Len(F)
    BY <1>6, <2>2, <2>3 DEF CopyByte
  <2>5. p' = p
    BY <2>1, <2>3 DEF Path
  <2>6. p \in Seq(Seq(Symbol)) /\ cmd.src \in Seq(Seq(Symbol)) /\ DisksOK
    BY <2>1, PathIn, DirNamesAreNames DEF TypeOK
  <2>7. p # cmd.src
    BY <2>2, <2>3, <2>5
  <2>8. cmd.pos <= Len(F) /\ File(p) = SubSeq(F, 1, cmd.pos)
    BY <2>1, <2>2, <2>3, <2>4, <2>7 DEF Copied
  <2> HIDE DEF p
  <2>9. p # <<>> /\ Head(p) \in DOMAIN disks /\ F \in Seq(Int)
    BY <2>4, <2>6 DEF IsFile, Here, File, DisksOK, TreeOK
  <2> HIDE DEF F
  <2>10. x \in Seq(Int) /\ x = SubSeq(F, 1, cmd.pos + 1)
    BY <2>3, <2>4, <2>8, <2>9
  <2> HIDE DEF x
  <2>11. /\ disks'[Head(p)][Tail(p)] = x
         /\ Head(cmd.src) \in mounted' /\ Tail(cmd.src) \in DOMAIN disks'[Head(cmd.src)]
         /\ disks'[Head(cmd.src)][Tail(cmd.src)] = F
    BY <2>4, <2>6, <2>7, <2>9, <2>10, PutPuts DEF F
  <2>12. File(cmd.src)' = F /\ File(p)' = x
    BY <2>3, <2>5, <2>11 DEF File
  <2>13. IsFile(cmd.src)'
    BY <2>3, <2>4, <2>11, <2>12 DEF IsFile, Here, F
  <2>14. cmd.pos + 1 <= Len(F)
    BY <2>3, <2>4, <2>9
  <2> QED BY <2>3, <2>10, <2>12, <2>13, <2>14 DEF p
<1>7. CASE HostChanges
  <2>1. at' = at /\ cmd' = cmd /\ (at # "prompt" => ~quiet')
    BY <1>7 DEF HostChanges
  <2> QED BY <2>1 DEF Copied
<1>8. CASE \/ Types \/ Prompt \/ Cd \/ Del \/ Mkdir \/ Rmdir \/ Ren \/ do_mount \/ do_mountfat
           \/ do_umount \/ do_mkfs \/ Exec \/ OtherCommand \/ do_dir \/ ListEnd \/ CopyEnd
           \/ ReadError \/ Leave
  <2>1. at' \notin {"fopen", "copy"}
    BY <1>8
    DEF Types, Prompt, Cd, Del, Mkdir, Rmdir, Ren, do_mount, do_mountfat, do_umount, do_mkfs,
        Exec, OtherCommand, do_dir, ListEnd, CopyEnd, ReadError, CloseBoth, Leave, Simple, Done
  <2> QED BY <1>1, <2>1
<1>9. CASE UNCHANGED vars
  BY <1>3, <1>9 DEF vars, lib
<1> QED BY <1>4, <1>5, <1>6, <1>7, <1>8, <1>9 DEF Next, Command

LEMMA CopyIsWhole ==
  ASSUME TypeOK, Copied, Next, at = "copy", at' = "prompt", quiet', cmd.arg2 # NULL,
         Path(cmd.arg2) # cmd.src
  PROVE  File(Path(cmd.arg2)) = File(cmd.src)
<1>1. CopyEnd
  <2>1. ~ReadError
    BY DEF ReadError
  <2>2. ~(Types \/ Prompt \/ Leave \/ HostChanges)
    BY DEF Types, Prompt, Leave, HostChanges
  <2>3. ~(\/ Cd \/ Del \/ Mkdir \/ Rmdir \/ Ren \/ do_mount \/ do_mountfat \/ do_umount \/ do_mkfs
          \/ Exec \/ OtherCommand \/ do_dir \/ do_copy)
    BY DEF Cd, Del, Mkdir, Rmdir, Ren, do_mount, do_mountfat, do_umount, do_mkfs, Exec,
           OtherCommand, do_dir, do_copy, Simple, Running
  <2>4. ~(ListEnd \/ OpenDest \/ CopyByte)
    BY DEF ListEnd, OpenDest, CopyByte
  <2> QED BY <2>1, <2>2, <2>3, <2>4 DEF Next, Command
<1>2. quiet /\ AtEnd
  BY <1>1 DEF CopyEnd
<1> DEFINE F == File(cmd.src)
<1>3. /\ IsFile(cmd.src) /\ cmd.pos <= Len(F) /\ cmd.pos \in Nat
      /\ File(Path(cmd.arg2)) = SubSeq(F, 1, cmd.pos)
  BY <1>2 DEF Copied, TypeOK
<1>4. F \in Seq(Int)
  BY <1>3 DEF TypeOK, IsFile, Here, File, DisksOK, TreeOK
<1>5. cmd.pos >= Len(F)
  BY <1>2, <1>3 DEF AtEnd
<1> HIDE DEF F
<1>6. cmd.pos = Len(F) /\ SubSeq(F, 1, Len(F)) = F
  BY <1>3, <1>4, <1>5
<1> QED BY <1>3, <1>6 DEF F

\* do_copy: when no call fails and the host keeps still, the destination ends
\* up with what the source holds, provided they are two files.
THEOREM CopyCopiesHolds == Spec => CopyCopies
<1>1. Init => Copied
  BY DEF Init, Copied
<1>2. TypeOK /\ Copied /\ [Next]_vars => Copied'
  BY CopiedStep
<1>3. TypeOK /\ Copied /\ [Next]_vars =>
        [at = "copy" /\ at' = "prompt" /\ quiet' /\ cmd.arg2 # NULL /\ Path(cmd.arg2) # cmd.src =>
           File(Path(cmd.arg2)) = File(cmd.src)]_vars
  BY CopyIsWhole
<1> QED BY <1>1, <1>2, <1>3, TypeCorrect, PTL DEF Spec, CopyCopies
=============================================================================
