--------------------------- MODULE LauncherProofs ---------------------------
(***************************************************************************)
(* Theorems about the launchers.  The documentation reads a command line   *)
(* character by character (Step); setargv takes a run of backslashes and   *)
(* what follows it at once, and counts beforehand how many arguments there *)
(* may be.  ParseInv says where setargv is in the documented reading, and  *)
(* that the spaces it has passed pay for the arguments it has completed.   *)
(* Reading what another program wrote gives what it meant: that is an      *)
(* induction over the characters of an argument and over the arguments.    *)
(***************************************************************************)
EXTENDS Launcher, Inductions, FiniteSetTheorems

Symbol   == STRING \cup {BS, DQ, SP, SL}
Chars    == Seq(Symbol)
Readings == [args : Seq(Chars), arg : Chars, n : Nat,
             mode : {"between", "plain", "quoted", "shut"}]
Fresh    == Reading(<<>>, <<>>, 0, "between")

-----------------------------------------------------------------------------
(* Sequences.                                                              *)

LEMMA TimesSeq ==
  ASSUME NEW c \in Symbol, NEW n \in Nat
  PROVE  /\ Times(c, n) \in Chars /\ Len(Times(c, n)) = n
         /\ \A i \in 1..n : Times(c, n)[i] = c
  BY DEF Times, Chars

LEMMA TimesNone ==
  ASSUME NEW c \in Symbol
  PROVE  Times(c, 0) = <<>>
<1>1. Times(c, 0) \in Chars /\ Len(Times(c, 0)) = 0
  BY TimesSeq
<1> QED BY <1>1, EmptySeq DEF Chars

LEMMA TimesMore ==
  ASSUME NEW c \in Symbol, NEW n \in Nat
  PROVE  Times(c, n + 1) = Times(c, n) \o <<c>>
<1> DEFINE s == Times(c, n + 1)
           t == Times(c, n)
<1>1. s \in Chars /\ Len(s) = n + 1 /\ t \in Chars /\ Len(t) = n
      /\ (\A i \in 1..n+1 : s[i] = c) /\ (\A i \in 1..n : t[i] = c)
  BY TimesSeq
<1> HIDE DEF s, t
<1>2. <<c>> \in Chars /\ Len(<<c>>) = 1 /\ <<c>>[1] = c
  BY DEF Chars
<1>3. /\ t \o <<c>> \in Chars /\ Len(t \o <<c>>) = n + 1
      /\ \A i \in 1..n+1 : (t \o <<c>>)[i] = IF i <= n THEN t[i] ELSE <<c>>[i - n]
  BY <1>1, <1>2, ConcatProperties DEF Chars
<1>4. \A i \in 1..n+1 : (t \o <<c>>)[i] = c
  BY <1>1, <1>2, <1>3
<1>5. s = t \o <<c>>
  BY <1>1, <1>3, <1>4, SeqEqual DEF Chars
<1> QED BY <1>5 DEF s, t

\* A prefix and the character after it.
LEMMA PrefixMore ==
  ASSUME NEW S, NEW s \in Seq(S), NEW k \in 1..Len(s)
  PROVE  /\ SubSeq(s, 1, k - 1) \in Seq(S) /\ s[k] \in S
         /\ SubSeq(s, 1, k) = Append(SubSeq(s, 1, k - 1), s[k])
         /\ Len(SubSeq(s, 1, k - 1)) = k - 1
<1>1. Len(s) \in Nat /\ k \in Nat /\ 1 \in 1..Len(s) /\ k \in 1..Len(s)
  OBVIOUS
<1>2. SubSeq(s, 1, k) = SubSeq(s, 1, k - 1) \o <<s[k]>>
  BY <1>1, SubSeqRecursiveSecond
<1>3. \A i \in 1..k-1 : s[i] \in S
  BY <1>1
<1>4. SubSeq(s, 1, k - 1) \in Seq(S) /\ Len(SubSeq(s, 1, k - 1)) = k - 1
  <2>1. k - 1 \in Int /\ 1 \in Int
    BY <1>1
  <2> QED BY <1>1, <1>3, <2>1, SubSeqProperties
<1> QED BY <1>1, <1>2, <1>4, AppendIsConcat

LEMMA PrefixNone ==
  ASSUME NEW s
  PROVE  SubSeq(s, 1, 0) = <<>>
  BY SubSeqEmpty

-----------------------------------------------------------------------------
(* The documented reading.                                                 *)

LEMMA ReadingFields ==
  ASSUME NEW a, NEW b, NEW n, NEW m
  PROVE  /\ Reading(a, b, n, m).args = a /\ Reading(a, b, n, m).arg = b
         /\ Reading(a, b, n, m).n = n /\ Reading(a, b, n, m).mode = m
  BY DEF Reading

LEMMA ReadingType ==
  ASSUME NEW a \in Seq(Chars), NEW b \in Chars, NEW n \in Nat,
         NEW m \in {"between", "plain", "quoted", "shut"}
  PROVE  Reading(a, b, n, m) \in Readings
  BY DEF Reading, Readings

LEMMA Symbols ==
  /\ BS \in Symbol /\ DQ \in Symbol /\ SP \in Symbol /\ SL \in Symbol
  /\ BS # DQ /\ BS # SP /\ DQ # SP /\ BS # "NUL" /\ DQ # "NUL" /\ SP # "NUL"
  /\ BS # SL /\ SL # "NUL" /\ SL # SP /\ SL # DQ
  BY DEF Symbol, BS, DQ, SP, SL

LEMMA HalfType ==
  ASSUME NEW d \in Readings
  PROVE  /\ d.arg \o Times(BS, d.n \div 2) \in Chars
         /\ d.arg \o Times(BS, d.n) \in Chars
         /\ d.args \in Seq(Chars) /\ d.arg \in Chars /\ d.n \in Nat
<1>1. d.n \in Nat /\ d.n \div 2 \in Nat /\ d.arg \in Chars /\ d.args \in Seq(Chars)
  BY DEF Readings
<1>2. Times(BS, d.n \div 2) \in Chars /\ Times(BS, d.n) \in Chars
  BY <1>1, Symbols, TimesSeq
<1> QED BY <1>1, <1>2, ConcatProperties DEF Chars

LEMMA ClosedType ==
  ASSUME NEW d \in Readings
  PROVE  Closed(d) \in Readings
<1>1. Append(d.args, d.arg \o Times(BS, d.n)) \in Seq(Chars) /\ <<>> \in Chars
  BY HalfType DEF Chars
<1>2. Reading(Append(d.args, d.arg \o Times(BS, d.n)), <<>>, 0, "between") \in Readings
  BY <1>1, ReadingType
<1> QED BY <1>2 DEF Closed

Same(mode) == IF mode = "quoted" THEN "quoted" ELSE "plain"

\* One step, rule by rule.
LEMMA StepRules ==
  ASSUME NEW d, NEW c
  PROVE  LET half  == d.arg \o Times(BS, d.n \div 2)
             whole == d.arg \o Times(BS, d.n)
             d2    == Step(d, c)
         IN  /\ c = BS => d2 = Reading(d.args, d.arg, d.n + 1, Same(d.mode))
             /\ c = DQ /\ d.n % 2 = 1 => d2 = Reading(d.args, half \o <<DQ>>, 0, Same(d.mode))
             /\ c = DQ /\ d.n % 2 = 0 =>
                  d2 = CASE d.mode = "shut"   -> Reading(d.args, half \o <<DQ>>, 0, "quoted")
                         [] d.mode = "quoted" -> Reading(d.args, half, 0, "shut")
                         [] OTHER             -> Reading(d.args, half, 0, "quoted")
             /\ c = SP /\ d.mode # "quoted" => d2 = Closed(d)
             /\ c \notin {BS, DQ} /\ (c = SP => d.mode = "quoted") =>
                  d2 = Reading(d.args, whole \o <<c>>, 0, Same(d.mode))
  BY Symbols DEF Step, Same

LEMMA StepType ==
  ASSUME NEW d \in Readings, NEW c \in Symbol
  PROVE  Step(d, c) \in Readings
<1> DEFINE half == d.arg \o Times(BS, d.n \div 2)
           whole == d.arg \o Times(BS, d.n)
<1>1. half \in Chars /\ whole \in Chars /\ d.args \in Seq(Chars) /\ d.arg \in Chars /\ d.n \in Nat
  BY HalfType
<1> HIDE DEF half, whole
<1>2. half \o <<DQ>> \in Chars /\ whole \o <<c>> \in Chars
  BY <1>1, Symbols, ConcatProperties DEF Chars
<1>3. Closed(d) \in Readings
  BY ClosedType
<1>4. \A a \in Chars, n \in Nat, m \in {"plain", "quoted", "shut"} :
        Reading(d.args, a, n, m) \in Readings
  BY <1>1, ReadingType
<1> QED BY <1>1, <1>2, <1>3, <1>4 DEF Step, half, whole

\* Read, as a function of how many characters are read.
LEMMA ReadFold ==
  ASSUME NEW s \in Chars
  PROVE  \E h : /\ h[0] = Fresh /\ h[Len(s)] = Read(s)
                /\ \A k \in 1..Len(s) : h[k] = Step(h[k-1], s[k])
                /\ \A k \in 0..Len(s) : h[k] \in Readings
<1> DEFINE L == Len(s)
           D == Readings
           R == Read(s)
           step == [i \in 1..L |-> [e \in D |-> Step(e, s[i])]]
           Eq(g) == g = [q \in SUBSET (1..L) |->
                          IF q = {} THEN Fresh ELSE Step(g[q \ {Max(q)}], s[Max(q)])]
<1>1. L \in Nat /\ DOMAIN s = 1..L /\ \A i \in 1..L : s[i] \in Symbol
  BY DEF Chars
<1>2. Fresh \in D /\ \A i \in 1..L, e \in D : Step(e, s[i]) \in D
  <2>1. <<>> \in Chars /\ <<>> \in Seq(Chars) /\ 0 \in Nat
    BY DEF Chars
  <2> QED BY <1>1, <2>1, ReadingType, StepType DEF Fresh
<1>3. R = (CHOOSE g : Eq(g))[1..L]
  <2>1. R = (CHOOSE g : g = [q \in SUBSET (DOMAIN s) |->
                               IF q = {} THEN Fresh
                               ELSE Step(g[q \ {Max(q)}], s[Max(q)])])[DOMAIN s]
    BY DEF Read, Fresh, FoldLeft, MapThenFoldSet
  <2> HIDE DEF R
  <2> QED BY <1>1, <2>1
<1> HIDE DEF D, L, R
<1>4. \E g : Eq(g)
  <2>1. step \in [1..L -> [D -> D]] /\ \A i \in 1..L, e \in D : step[i][e] = Step(e, s[i])
    BY <1>2
  <2> HIDE DEF step
  <2>2. PICK g : Folding(g, L, D, Fresh, step)
    BY <1>1, <1>2, <2>1, FoldSolved
  <2>3. \A q \in SUBSET (1..L) : q # {} => Max(q) \in 1..L /\ g[q \ {Max(q)}] \in D
    BY <1>1, <2>2, MaxOf DEF Folding
  <2>4. \A q \in SUBSET (1..L) :
          g[q] = IF q = {} THEN Fresh ELSE Step(g[q \ {Max(q)}], s[Max(q)])
    BY <2>1, <2>2, <2>3 DEF Folding
  <2> QED BY <2>2, <2>4 DEF Folding
<1>5. PICK g : Eq(g) /\ R = g[1..L]
  <2> HIDE DEF Eq
  <2> QED BY <1>3, <1>4
<1>6. \A q \in SUBSET (1..L) :
        g[q] = IF q = {} THEN Fresh ELSE Step(g[q \ {Max(q)}], s[Max(q)])
  BY <1>5
<1>7. R = g[1..L]
  BY <1>5
<1> HIDE DEF Eq
<1> DEFINE h == [k \in 0..L |-> g[1..k]]
<1>8. h[0] = Fresh /\ h[L] = R
  <2>1. 1..0 = {} /\ {} \in SUBSET (1..L)
    OBVIOUS
  <2>2. h[0] = g[{}] /\ h[L] = g[1..L]
    BY <1>1, <2>1
  <2> QED BY <1>6, <1>7, <2>1, <2>2
<1>9. ASSUME NEW k \in 1..L PROVE h[k] = Step(h[k-1], s[k])
  <2>1. h[k] = g[1..k] /\ h[k-1] = g[1..k-1]
    BY <1>1
  <2>2. 1..k # {} /\ 1..k \in SUBSET (1..L) /\ Max(1..k) = k /\ (1..k) \ {Max(1..k)} = 1..k-1
    BY <1>1, FoldSteps
  <2> HIDE DEF h
  <2> QED BY <1>6, <2>1, <2>2
<1> HIDE DEF h
<1>10. \A k \in 0..L : h[k] \in D
  <2> DEFINE E == [k \in 0..L |-> D]
  <2>1. \A k \in 0..L : E[k] = D
    OBVIOUS
  <2>2. 0 \in 0..L /\ \A k \in 1..L : k \in 0..L /\ k-1 \in 0..L
    BY <1>1
  <2> HIDE DEF E
  <2>3. h[0] \in E[0]
    BY <1>2, <1>8, <2>1, <2>2
  <2>4. ASSUME NEW k \in 1..L, h[k-1] \in E[k-1] PROVE h[k] \in E[k]
    BY <1>2, <1>9, <2>1, <2>2, <2>4
  <2>5. \A k \in 0..L : h[k] \in E[k]
    BY <1>1, <2>3, <2>4, StepsStay
  <2> QED BY <2>1, <2>5
<1> QED BY <1>8, <1>9, <1>10 DEF L, D, R

LEMMA ReadType ==
  ASSUME NEW s \in Chars
  PROVE  Read(s) \in Readings
<1>1. Len(s) \in 0..Len(s)
  BY DEF Chars
<1> QED BY <1>1, ReadFold

LEMMA ReadNone == Read(<<>>) = Fresh
<1>1. <<>> \in Chars /\ Len(<<>>) = 0
  BY DEF Chars
<1> QED BY <1>1, ReadFold

LEMMA ReadMore ==
  ASSUME NEW s \in Chars, NEW c \in Symbol
  PROVE  Read(Append(s, c)) = Step(Read(s), c)
<1> DEFINE t == Append(s, c)
           L == Len(s)
<1>1. /\ t \in Chars /\ Len(t) = L + 1 /\ L \in Nat /\ t[L + 1] = c
      /\ \A i \in 1..L : t[i] = s[i]
  BY AppendProperties DEF Chars
<1> HIDE DEF t
<1>2. PICK g : /\ g[0] = Fresh /\ g[L] = Read(s)
               /\ \A k \in 1..L : g[k] = Step(g[k-1], s[k])
  BY ReadFold
<1>3. PICK h : /\ h[0] = Fresh /\ h[L + 1] = Read(t)
               /\ \A k \in 1..L+1 : h[k] = Step(h[k-1], t[k])
  BY <1>1, ReadFold
<1> DEFINE E == [k \in 0..L |-> {h[k]}]
<1>4. \A k \in 0..L : E[k] = {h[k]}
  OBVIOUS
<1> HIDE DEF E, L
<1>5. g[0] \in E[0]
  BY <1>1, <1>2, <1>3, <1>4
<1>6. ASSUME NEW k \in 1..L, g[k-1] \in E[k-1] PROVE g[k] \in E[k]
  <2>1. k \in 0..L /\ k-1 \in 0..L /\ k \in 1..L+1
    BY <1>1
  <2>2. g[k-1] = h[k-1]
    BY <1>4, <1>6, <2>1
  <2>3. g[k] = h[k]
    BY <1>1, <1>2, <1>3, <2>1, <2>2
  <2> QED BY <1>4, <2>1, <2>3
<1>7. g[L] \in E[L]
  <2>1. \A k \in 0..L : g[k] \in E[k]
    BY <1>1, <1>5, <1>6, StepsStay
  <2> QED BY <1>1, <2>1
<1>8. h[L] = Read(s)
  BY <1>1, <1>2, <1>4, <1>7
<1>9. h[L + 1] = Step(h[L], c)
  <2>1. L + 1 \in 1..L+1 /\ (L + 1) - 1 = L
    BY <1>1
  <2> QED BY <1>1, <1>3, <2>1
<1> QED BY <1>3, <1>8, <1>9 DEF t

\* What is read of the first k characters.
ReadTo(s, k) == Read(SubSeq(s, 1, k))

LEMMA ReadToType ==
  ASSUME NEW s \in Chars, NEW k \in 0..Len(s)
  PROVE  ReadTo(s, k) \in Readings
<1>1. Len(s) \in Nat /\ k \in Int /\ 1 \in Int /\ \A i \in 1..k : s[i] \in Symbol
  BY DEF Chars
<1>2. SubSeq(s, 1, k) \in Chars
  BY <1>1, SubSeqProperties DEF Chars
<1> QED BY <1>2, ReadType DEF ReadTo

LEMMA ReadToNext ==
  ASSUME NEW s \in Chars, NEW k \in 1..Len(s)
  PROVE  ReadTo(s, k) = Step(ReadTo(s, k - 1), s[k]) /\ s[k] \in Symbol
<1>1. /\ SubSeq(s, 1, k - 1) \in Chars /\ s[k] \in Symbol
      /\ SubSeq(s, 1, k) = Append(SubSeq(s, 1, k - 1), s[k])
  BY PrefixMore DEF Chars
<1> QED BY <1>1, ReadMore DEF ReadTo

LEMMA ReadToEnds ==
  ASSUME NEW s \in Chars
  PROVE  ReadTo(s, 0) = Fresh /\ ReadTo(s, Len(s)) = Read(s)
<1>1. SubSeq(s, 1, 0) = <<>> /\ SubSeq(s, 1, Len(s)) = s
  BY PrefixNone, SubSeqFull DEF Chars
<1> QED BY <1>1, ReadNone DEF ReadTo

\* Something that is so after j characters, and after each of those up to k
\* when it was before, is so after k.
LEMMA Along ==
  ASSUME NEW j \in Nat, NEW k \in Nat, j <= k, NEW g, NEW E, g[j] \in E[j],
         \A i \in j+1..k : g[i-1] \in E[i-1] => g[i] \in E[i]
  PROVE  g[k] \in E[k]
<1> DEFINE T == {n \in Nat : j + n <= k => g[j+n] \in E[j+n]}
<1>1. 0 \in T
  OBVIOUS
<1>2. ASSUME NEW n \in Nat, n \in T PROVE n + 1 \in T
  <2>1. CASE j + (n + 1) <= k
    <3>1. j + (n + 1) \in j+1..k /\ (j + (n + 1)) - 1 = j + n
      BY <2>1
    <3>2. g[j+n] \in E[j+n]
      BY <1>2, <2>1
    <3> QED BY <3>1, <3>2
  <2>2. CASE ~(j + (n + 1) <= k)
    BY <2>2
  <2> QED BY <2>1, <2>2
<1>3. k - j \in T
  <2> HIDE DEF T
  <2>1. Nat \subseteq T
    BY <1>1, <1>2, Inductive
  <2> QED BY <2>1
<1> QED BY <1>3

\* Spaces outside a quoted string end an argument, once.
LEMMA SpacesRead ==
  ASSUME NEW s \in Chars, NEW j \in 0..Len(s), NEW k \in j..Len(s),
         ReadTo(s, j).mode # "quoted", \A i \in j+1..k : s[i] = SP
  PROVE  /\ Closed(ReadTo(s, k)) = Closed(ReadTo(s, j))
         /\ k > j => ReadTo(s, k) = Closed(ReadTo(s, j))
<1> DEFINE b == Closed(ReadTo(s, j))
           g == [i \in j..k |-> ReadTo(s, i)]
           E == [i \in j..k |-> IF i = j THEN {ReadTo(s, j)} ELSE {b}]
<1>1. j \in Nat /\ k \in Nat /\ j <= k /\ Len(s) \in Nat
  BY DEF Chars
<1>2. b.mode = "between" /\ Closed(b) = b
  BY DEF Closed, Reading
<1>3. ASSUME NEW i \in j+1..k, g[i-1] \in E[i-1] PROVE g[i] \in E[i]
  <2>1. i \in 1..Len(s) /\ i \in j..k /\ i - 1 \in j..k /\ i # j
    BY <1>1
  <2>2. ReadTo(s, i) = Step(ReadTo(s, i - 1), SP)
    BY <2>1, ReadToNext
  <2>3. ReadTo(s, i - 1) \in {ReadTo(s, j), b}
    BY <1>3, <2>1
  <2> HIDE DEF b
  <2>4. Step(ReadTo(s, i - 1), SP) = Closed(ReadTo(s, i - 1))
    BY <1>2, <2>3, Symbols DEF Step
  <2>5. ReadTo(s, i) = b
    BY <1>2, <2>2, <2>3, <2>4 DEF b
  <2> QED BY <2>1, <2>5
<1>4. g[k] \in E[k]
  <2>1. g[j] \in E[j]
    BY <1>1
  <2> HIDE DEF g, E
  <2> QED BY <1>1, <1>3, <2>1, Along
<1>5. ReadTo(s, k) \in IF k = j THEN {ReadTo(s, j)} ELSE {b}
  BY <1>1, <1>4
<1> HIDE DEF b
<1>6. CASE k = j
  BY <1>1, <1>6 DEF b
<1>7. CASE k # j
  BY <1>2, <1>5, <1>7 DEF b
<1> QED BY <1>6, <1>7

\* Backslashes are counted.
LEMMA BackslashesRead ==
  ASSUME NEW s \in Chars, NEW j \in 0..Len(s), NEW k \in j..Len(s),
         \A i \in j+1..k : s[i] = BS
  PROVE  LET d == ReadTo(s, j)
         IN  k > j => ReadTo(s, k) = Reading(d.args, d.arg, d.n + (k - j), Same(d.mode))
<1> DEFINE d == ReadTo(s, j)
           to(i) == IF i = j THEN d ELSE Reading(d.args, d.arg, d.n + (i - j), Same(d.mode))
           g == [i \in j..k |-> ReadTo(s, i)]
           E == [i \in j..k |-> {to(i)}]
<1>1. j \in Nat /\ k \in Nat /\ j <= k /\ Len(s) \in Nat /\ d.n \in Nat
  <2>1. d \in Readings
    BY ReadToType
  <2> QED BY <2>1 DEF Chars, Readings
<1>2. ASSUME NEW i \in j+1..k, g[i-1] \in E[i-1] PROVE g[i] \in E[i]
  <2>1. i \in 1..Len(s) /\ i \in j..k /\ i - 1 \in j..k /\ i # j
    BY <1>1
  <2>2. ReadTo(s, i) = Step(ReadTo(s, i - 1), BS)
    BY <2>1, ReadToNext
  <2>3. ReadTo(s, i - 1) = to(i - 1)
    BY <1>2, <2>1
  <2> DEFINE e == to(i - 1)
  <2>4. Step(e, BS) = Reading(e.args, e.arg, e.n + 1, Same(e.mode))
    BY StepRules
  <2>5. e.args = d.args /\ e.arg = d.arg /\ e.n = d.n + (i - 1 - j) /\ Same(e.mode) = Same(d.mode)
    <3>1. CASE i - 1 = j
      BY <1>1, <3>1
    <3>2. CASE i - 1 # j
      BY <3>2, ReadingFields DEF Same
    <3> QED BY <3>1, <3>2
  <2>6. d.n + (i - 1 - j) + 1 = d.n + (i - j)
    BY <1>1
  <2> HIDE DEF e, d
  <2>7. ReadTo(s, i) = Reading(d.args, d.arg, d.n + (i - j), Same(d.mode))
    BY <2>2, <2>3, <2>4, <2>5, <2>6 DEF e
  <2> QED BY <2>1, <2>7
<1>3. g[k] \in E[k]
  <2>1. g[j] \in E[j]
    BY <1>1
  <2> HIDE DEF g, E
  <2> QED BY <1>1, <1>2, <2>1, Along
<1> QED BY <1>1, <1>3

-----------------------------------------------------------------------------
(* setargv: where it is in the documented reading.                         *)

\* The spaces that pay for an argument: the first of every run of them.
Starts  == {i \in 1..Len(cmdLine) : cmdLine[i] = SP /\ (i = 1 \/ cmdLine[i - 1] # SP)}
Paid(k) == Cardinality({i \in Starts : i <= k})

LineOK ==
  /\ cmdLine \in Chars /\ \A i \in DOMAIN cmdLine : cmdLine[i] # "NUL"
  /\ build = "win" => \E i \in DOMAIN cmdLine : cmdLine[i] # SP
  /\ sent = Anything \/ (sent \in Seq(Chars) /\ sent # <<>>)
  /\ sent = Anything \/ build # "win" \/ Documented(cmdLine) = sent

ScanType ==
  /\ p \in 1..Len(cmdLine) + 1 /\ inquote \in BOOLEAN
  /\ used \in Nat /\ arg \in Chars
  /\ pc \in {"args", "arg", "main"} => build = "win" /\ argv \in Seq(Chars)

\* At the end of an argument, or at the start of the line.
Between ==
  /\ arg = <<>>
  /\ \/ p = 1 /\ argv = <<>> /\ used = 0
     \/ /\ At(p) \in {SP, "NUL"} /\ used <= p /\ argv # <<>>
        /\ Closed(ReadTo(cmdLine, p - 1)) = Reading(argv, <<>>, 0, "between")
        /\ At(p) = SP => ReadTo(cmdLine, p - 1).mode # "quoted" /\ Len(argv) <= Paid(p)

\* In an argument: no backslashes are pending, and no pair of quotes is cut.
Within ==
  /\ used + Len(arg) <= p - 1
  /\ Len(argv) <= Paid(p - 1)
  /\ LET d == ReadTo(cmdLine, p - 1)
     IN  /\ d = Reading(argv, arg, 0, d.mode)
         /\ inquote <=> d.mode = "quoted"
         /\ d.mode = "between" => At(p) \notin {SP, "NUL"}
         /\ d.mode = "shut" => At(p) # DQ
  /\ ~inquote /\ p > 1 /\ At(p - 1) = SP => At(p) \notin {SP, "NUL"}

ParseInv ==
  /\ LineOK /\ ScanType
  /\ pc = "args" => Between
  /\ pc = "arg" => Within
  /\ pc \notin {"args", "arg"} => arg = <<>> /\ used <= Len(cmdLine) + 1
  /\ pc = "main" => argv # <<>> /\ argv = Documented(cmdLine)

LEMMA LineType ==
  ASSUME LineOK
  PROVE  /\ Len(cmdLine) \in Nat /\ DOMAIN cmdLine = 1..Len(cmdLine) /\ cmdLine \in Chars
         /\ \A i \in 1..Len(cmdLine) :
              cmdLine[i] \in Symbol /\ At(i) = cmdLine[i] /\ At(i) # "NUL"
         /\ \A i \in Nat : i > Len(cmdLine) => At(i) = "NUL"
  BY DEF LineOK, Chars, At

\* What Past finds.
LEMMA PastOf ==
  ASSUME LineOK, ScanType, NEW c \in {SP, BS}
  PROVE  /\ Past(c) \in p..Len(cmdLine) + 1 /\ At(Past(c)) # c
         /\ \A j \in p..Past(c) - 1 : j \in 1..Len(cmdLine) /\ cmdLine[j] = c
<1> DEFINE L == Len(cmdLine)
           T == {i \in p..L + 1 : At(i) # c}
<1>1. L \in Nat /\ p \in Nat /\ p >= 1 /\ p <= L + 1
      /\ (\A i \in 1..L : At(i) = cmdLine[i]) /\ At(L + 1) # c
  BY LineType, Symbols DEF ScanType
<1>2. T \subseteq Nat /\ L + 1 \in T
  BY <1>1
<1>3. PICK q \in T : \A m \in T : q <= m
  BY <1>2, LeastNatural
<1>4. \A j \in p..q - 1 : At(j) = c
  BY <1>1, <1>2, <1>3
<1>5. \E i \in p..L + 1 : At(i) # c /\ \A j \in p..i - 1 : At(j) = c
  BY <1>3, <1>4
<1>6. Past(c) \in p..L + 1 /\ At(Past(c)) # c /\ \A j \in p..Past(c) - 1 : At(j) = c
  BY <1>5 DEF Past
<1>7. \A j \in p..Past(c) - 1 : j \in 1..L /\ At(j) = cmdLine[j]
  BY <1>1, <1>6
<1> QED BY <1>6, <1>7

\* The spaces passed only become more, and are no more than the guess counts.
LEMMA PaidGrows ==
  ASSUME LineOK, NEW j \in Nat, NEW k \in Nat, j <= k
  PROVE  /\ Paid(j) \in Nat /\ Paid(k) \in Nat /\ Paid(j) <= Paid(k)
         /\ Guess \in Nat /\ Paid(k) < Guess
         /\ j < k /\ k \in Starts => Paid(j) + 1 <= Paid(k)
<1> DEFINE J == {i \in Starts : i <= j}
           K == {i \in Starts : i <= k}
<1>1. Starts \subseteq 1..Len(cmdLine) /\ Len(cmdLine) \in Nat
  BY LineType DEF Starts
<1>2. IsFiniteSet(Starts)
  <2>1. IsFiniteSet(1..Len(cmdLine))
    BY <1>1, FS_Interval
  <2> QED BY <1>1, <2>1, FS_Subset
<1>3. J \subseteq K /\ K \subseteq Starts
  <2>1. \A i \in Starts : i \in Nat
    BY <1>1
  <2> QED BY <2>1
<1>4. IsFiniteSet(K) /\ IsFiniteSet(J) /\ Cardinality(J) \in Nat /\ Cardinality(K) \in Nat
      /\ Cardinality(Starts) \in Nat
  BY <1>2, <1>3, FS_Subset, FS_CardinalityType
<1>5. Cardinality(J) <= Cardinality(K) /\ Cardinality(K) <= Cardinality(Starts)
  BY <1>2, <1>3, <1>4, FS_Subset
<1>6. Guess = 1 + Cardinality(Starts)
  BY DEF Guess, Starts
<1>7. ASSUME j < k, k \in Starts PROVE Cardinality(J) + 1 <= Cardinality(K)
  <2>1. k \notin J /\ k \in K
    BY <1>7
  <2>2. Cardinality(J \cup {k}) = Cardinality(J) + 1 /\ IsFiniteSet(J \cup {k})
    BY <1>4, <2>1, FS_AddElement
  <2>3. J \cup {k} \subseteq K
    BY <1>3, <2>1
  <2>4. Cardinality(J \cup {k}) <= Cardinality(K)
    BY <1>4, <2>3, FS_Subset
  <2> QED BY <2>2, <2>4
<1> HIDE DEF J, K
<1>8. QED BY <1>4, <1>5, <1>6, <1>7 DEF Paid, J, K

\* A line of nothing but spaces has no arguments.
LEMMA BlankRead ==
  ASSUME NEW s \in Chars, \A i \in 1..Len(s) : s[i] = SP
  PROVE  Closed(Read(s)) = Fresh /\ Documented(s) = <<>>
<1>1. 0 \in 0..Len(s) /\ Len(s) \in 0..Len(s)
  BY DEF Chars
<1>2. ReadTo(s, 0) = Fresh /\ ReadTo(s, Len(s)) = Read(s)
  BY ReadToEnds
<1>3. Fresh.mode # "quoted" /\ Closed(Fresh) = Fresh /\ Fresh.args = <<>>
  BY DEF Fresh, Reading, Closed
<1>4. \A i \in 0+1..Len(s) : s[i] = SP
  OBVIOUS
<1>5. Closed(ReadTo(s, Len(s))) = Closed(ReadTo(s, 0))
  BY <1>1, <1>2, <1>3, <1>4, SpacesRead
<1> QED BY <1>2, <1>3, <1>5 DEF Documented

LEMMA NextArgParses ==
  ASSUME ParseInv, NextArg
  PROVE  ParseInv'
<1> DEFINE L == Len(cmdLine)
           q == Past(SP)
<1>1. LineOK /\ ScanType /\ Between /\ pc = "args" /\ build = "win"
  BY DEF ParseInv, NextArg, ScanType
<1>2. /\ p' = q /\ inquote' = FALSE
      /\ pc' = IF Len(argv) < Guess /\ At(p') # "NUL" THEN "arg" ELSE "main"
      /\ UNCHANGED <<build, sent, cmdLine, argv, arg, used, exe, library, inited>>
  BY DEF NextArg
<1>3. LineOK' /\ \A i : At(i)' = At(i)
  BY <1>1, <1>2 DEF LineOK, At
<1>4. q \in p..L+1 /\ At(q) # SP /\ (\A j \in p..q - 1 : j \in 1..L /\ cmdLine[j] = SP)
  BY <1>1, PastOf
<1>5. /\ L \in Nat /\ p \in 1..L+1 /\ q \in 1..L+1 /\ cmdLine \in Chars /\ used \in Nat
      /\ arg = <<>> /\ argv \in Seq(Chars) /\ Len(argv) \in Nat /\ Len(arg) = 0
      /\ \A i \in 1..L : cmdLine[i] = At(i) /\ At(i) # "NUL"
  BY <1>1, <1>4, LineType DEF ScanType, Between
<1> HIDE DEF q, L
<1>6. At(q) = "NUL" <=> q = L + 1
  <2>1. L + 1 \in Nat /\ L + 1 > L
    BY <1>5
  <2>2. At(L + 1) = "NUL"
    BY <1>1, <2>1, LineType DEF L
  <2> QED BY <1>5, <2>2
<1>7. ScanType'
  BY <1>1, <1>2, <1>5 DEF ScanType, L
<1> DEFINE d == ReadTo(cmdLine, q - 1)
<1>8. CASE p = 1 /\ argv = <<>> /\ used = 0
  <2>1. \A i \in 0+1..q-1 : cmdLine[i] = SP
    BY <1>4, <1>8
  <2>2. 0 \in 0..L /\ q - 1 \in 0..L
    BY <1>5
  <2>3. ReadTo(cmdLine, 0) = Fresh /\ Closed(Fresh) = Fresh /\ Fresh.mode # "quoted"
    BY <1>5, ReadToEnds DEF Fresh, Closed, Reading
  <2>4. d = Fresh
    <3>1. q - 1 > 0 => d = Fresh
      BY <1>5, <2>1, <2>2, <2>3, SpacesRead DEF L
    <3>2. q - 1 = 0 => d = Fresh
      BY <2>3
    <3> QED BY <1>5, <3>1, <3>2
  <2>5. At(q) # "NUL"
    <3>1. PICK i \in 1..L : cmdLine[i] # SP
      BY <1>1 DEF LineOK, Chars, L
    <3>2. ~(i \in p..q-1)
      BY <1>4, <3>1
    <3> QED BY <1>5, <1>6, <1>8, <3>1, <3>2
  <2>6. Len(argv) = 0 /\ Paid(q - 1) \in Nat /\ Paid(q - 1) < Guess /\ Guess \in Nat
    <3>1. q - 1 \in Nat
      BY <1>5
    <3> QED BY <1>1, <1>8, <3>1, PaidGrows
  <2>7. pc' = "arg"
    BY <1>2, <2>5, <2>6
  <2>8. d = Reading(argv, arg, 0, d.mode) /\ d.mode = "between"
    BY <1>5, <1>8, <2>4 DEF Fresh, Reading
  <2>9. Within'
    <3>1. used' + Len(arg') <= p' - 1
      BY <1>2, <1>5, <1>8
    <3>2. (Len(argv) <= Paid(p - 1))'
      BY <1>2, <2>6 DEF Paid, Starts
    <3>3. ReadTo(cmdLine, p - 1)' = d
      BY <1>2
    <3>4. At(p)' = At(q)
      BY <1>2, <1>3
    <3> HIDE DEF d
    <3> QED BY <1>2, <1>4, <2>5, <2>8, <3>1, <3>2, <3>3, <3>4 DEF Within
  <2> QED BY <1>3, <1>7, <2>7, <2>9 DEF ParseInv
<1>9. CASE ~(p = 1 /\ argv = <<>> /\ used = 0)
  <2>1. /\ At(p) \in {SP, "NUL"} /\ used <= p /\ argv # <<>>
        /\ Closed(ReadTo(cmdLine, p - 1)) = Reading(argv, <<>>, 0, "between")
        /\ At(p) = SP => ReadTo(cmdLine, p - 1).mode # "quoted" /\ Len(argv) <= Paid(p)
    BY <1>1, <1>9 DEF Between
  <2>2. CASE At(p) = "NUL"
    <3>1. p = L + 1 /\ q = p
      <4>1. p = L + 1
        BY <1>5, <2>2
      <4> QED BY <1>4, <1>5, <4>1
    <3>2. pc' = "main"
      BY <1>2, <2>2, <3>1
    <3>3. argv = Documented(cmdLine)
      <4>1. p - 1 = L /\ ReadTo(cmdLine, L) = Read(cmdLine)
        BY <1>5, <3>1, ReadToEnds DEF L
      <4> QED BY <2>1, <4>1, ReadingFields DEF Documented
    <3>4. used <= L + 1
      BY <2>1, <3>1
    <3> QED BY <1>2, <1>3, <1>5, <1>7, <2>1, <3>2, <3>3, <3>4 DEF ParseInv, L
  <2>3. CASE At(p) = SP
    <3>1. q > p /\ q - 1 >= p
      BY <1>4, <1>5, <2>3
    <3>2. /\ p - 1 \in 0..L /\ q - 1 \in p-1..L /\ q - 1 > p - 1
          /\ \A i \in (p-1)+1..q-1 : cmdLine[i] = SP
      BY <1>4, <1>5, <3>1
    <3>3. d = Reading(argv, <<>>, 0, "between")
      BY <1>5, <2>1, <2>3, <3>2, SpacesRead DEF L
    <3>4. Len(argv) <= Paid(q - 1) /\ Paid(q - 1) < Guess /\ Paid(q - 1) \in Nat /\ Guess \in Nat
      <4>1. p \in Nat /\ q - 1 \in Nat /\ p <= q - 1
        BY <1>5, <3>1
      <4>2. Paid(p) <= Paid(q - 1) /\ Paid(p) \in Nat /\ Paid(q - 1) \in Nat
            /\ Paid(q - 1) < Guess /\ Guess \in Nat
        BY <1>1, <4>1, PaidGrows
      <4> QED BY <1>5, <2>1, <2>3, <4>2
    <3>5. CASE At(q) = "NUL"
      <4>1. pc' = "main"
        BY <1>2, <3>5
      <4>2. argv = Documented(cmdLine)
        <5>1. q - 1 = L /\ ReadTo(cmdLine, L) = Read(cmdLine)
          BY <1>5, <1>6, <3>5, ReadToEnds DEF L
        <5>2. Closed(d) = d
          BY <3>3 DEF Closed, Reading
        <5> QED BY <3>3, <5>1, <5>2, ReadingFields DEF Documented
      <4>3. used <= L + 1
        BY <1>5, <2>1
      <4> QED BY <1>2, <1>3, <1>5, <1>7, <2>1, <4>1, <4>2, <4>3 DEF ParseInv, L
    <3>6. CASE At(q) # "NUL"
      <4>1. pc' = "arg"
        BY <1>2, <1>5, <3>4, <3>6
      <4>2. Within'
        <5>1. used' + Len(arg') <= p' - 1
          BY <1>2, <1>5, <2>1, <3>1
        <5>2. (Len(argv) <= Paid(p - 1))'
          BY <1>2, <3>4 DEF Paid, Starts
        <5>3. ReadTo(cmdLine, p - 1)' = d
          BY <1>2
        <5>4. At(p)' = At(q)
          BY <1>2, <1>3
        <5>5. d = Reading(argv, arg, 0, d.mode) /\ d.mode = "between"
          BY <1>5, <3>3 DEF Reading
        <5> HIDE DEF d
        <5> QED BY <1>2, <1>4, <3>6, <5>1, <5>2, <5>3, <5>4, <5>5 DEF Within
      <4> QED BY <1>3, <1>7, <4>1, <4>2 DEF ParseInv
    <3> QED BY <3>5, <3>6
  <2> QED BY <2>1, <2>2, <2>3
<1> QED BY <1>8, <1>9

LEMMA NextCharParses ==
  ASSUME ParseInv, NextChar
  PROVE  ParseInv'
<1> DEFINE L     == Len(cmdLine)
           q     == Past(BS)
           n     == q - p
           quote == At(q) = DQ
           copy  == Copies(quote, n, At(q + 1))
           skips == quote /\ n % 2 = 0 /\ copy
           in    == IF quote /\ ~copy THEN ~inquote ELSE inquote
           done  == Ends(At(q), in)
           slash == Times(BS, IF quote THEN n \div 2 ELSE n)
           whole == arg \o slash \o (IF copy /\ ~done THEN <<At(q)>> ELSE <<>>)
           m     == ReadTo(cmdLine, p - 1).mode
           d     == ReadTo(cmdLine, q - 1)
<1>1. LineOK /\ ScanType /\ Within /\ pc = "arg" /\ build = "win"
  BY DEF ParseInv, NextChar, ScanType
<1>2. /\ arg' = IF done THEN <<>> ELSE whole
      /\ used' = IF done THEN used + Len(whole) + 1 ELSE used
      /\ p' = q + (CASE done -> 0 [] skips -> 2 [] OTHER -> 1)
      /\ inquote' = in
      /\ argv' = IF done THEN Append(argv, whole) ELSE argv
      /\ pc' = IF done THEN "args" ELSE "arg"
      /\ UNCHANGED <<build, sent, cmdLine, exe, library, inited>>
  BY DEF NextChar
<1>3. LineOK' /\ (\A i : At(i)' = At(i)) /\ (\A i : Paid(i)' = Paid(i))
      /\ \A i : ReadTo(cmdLine, i)' = ReadTo(cmdLine, i)
  BY <1>1, <1>2 DEF LineOK, At, Paid, Starts
<1>4. q \in p..L+1 /\ At(q) # BS /\ (\A j \in p..q - 1 : j \in 1..L /\ cmdLine[j] = BS)
  BY <1>1, PastOf
<1>5. /\ L \in Nat /\ p \in 1..L+1 /\ cmdLine \in Chars /\ used \in Nat
      /\ arg \in Chars /\ argv \in Seq(Chars) /\ Len(argv) \in Nat /\ Len(arg) \in Nat
      /\ inquote \in BOOLEAN
      /\ \A i \in 1..L : cmdLine[i] = At(i) /\ At(i) # "NUL" /\ At(i) \in Symbol
  BY <1>1, LineType DEF ScanType, Chars
<1>6. At(L + 1) = "NUL"
  BY <1>1, <1>5, LineType
<1> HIDE DEF q, L
<1>7. n \in Nat /\ p + n = q /\ q \in 1..L+1 /\ n \div 2 \in Nat /\ n \div 2 <= n /\ n % 2 \in {0, 1}
      /\ q \in Nat /\ p - 1 \in 0..L /\ q - 1 \in p-1..L /\ p - 1 \in Nat /\ q - 1 \in Nat
  BY <1>4, <1>5
<1>8. At(q) = "NUL" <=> q = L + 1
  BY <1>5, <1>6, <1>7
<1>9. /\ d = Reading(argv, arg, n, d.mode) /\ (inquote <=> d.mode = "quoted")
      /\ d.mode = "between" => At(q) \notin {SP, "NUL"}
      /\ d.mode = "shut" => At(q) # DQ
      /\ d.mode \in {"between", "plain", "quoted", "shut"}
      /\ Same(d.mode) \in {"plain", "quoted"} /\ (Same(d.mode) = "quoted" <=> inquote)
      /\ d.mode = "shut" => n = 0
  <2>1. /\ ReadTo(cmdLine, p - 1) = Reading(argv, arg, 0, m) /\ (inquote <=> m = "quoted")
        /\ m = "between" => At(p) \notin {SP, "NUL"}
        /\ m = "shut" => At(p) # DQ
        /\ m \in {"between", "plain", "quoted", "shut"}
    BY <1>1, <1>5, <1>7, ReadToType DEF Within, Readings, L
  <2>2. CASE n = 0
    <3>1. q = p /\ d = ReadTo(cmdLine, p - 1) /\ d.mode = m
      BY <1>5, <1>7, <2>2
    <3> HIDE DEF d, m, n
    <3> QED BY <2>1, <2>2, <3>1 DEF Same
  <2>3. CASE n # 0
    <3>1. \A i \in (p-1)+1..q-1 : cmdLine[i] = BS
      BY <1>4, <1>5
    <3>2. q - 1 > p - 1 /\ 0 + ((q - 1) - (p - 1)) = n
      BY <1>5, <1>7, <2>3
    <3> DEFINE e == ReadTo(cmdLine, p - 1)
    <3>3. d = Reading(e.args, e.arg, e.n + ((q - 1) - (p - 1)), Same(e.mode))
      BY <1>5, <1>7, <3>1, <3>2, BackslashesRead DEF L
    <3>4. e.args = argv /\ e.arg = arg /\ e.n = 0
      BY <2>1, ReadingFields
    <3>5. d = Reading(argv, arg, n, Same(m)) /\ d.mode = Same(m)
      BY <3>2, <3>3, <3>4, ReadingFields
    <3> HIDE DEF d, m, n, e
    <3> QED BY <2>1, <3>5 DEF Same
  <2> QED BY <2>2, <2>3
<1>10. used + Len(arg) <= p - 1 /\ Len(argv) <= Paid(p - 1)
       /\ (~inquote /\ p > 1 /\ At(p - 1) = SP => At(p) \notin {SP, "NUL"})
  BY <1>1 DEF Within
<1>11. slash \in Chars /\ Len(slash) \in Nat /\ Len(slash) <= n
  BY <1>7, Symbols, TimesSeq
<1>12. arg \o slash \in Chars /\ Len(arg \o slash) = Len(arg) + Len(slash)
  BY <1>5, <1>11, ConcatProperties DEF Chars
<1>13. \A k \in Nat : p - 1 <= k => Len(argv) <= Paid(k)
  BY <1>1, <1>5, <1>7, <1>10, PaidGrows
<1>14. Times(BS, n) \in Chars /\ Times(BS, n \div 2) \in Chars
  BY <1>7, Symbols, TimesSeq
<1> HIDE DEF n, d, m, slash
<1>15. CASE done
  <2>1. ~quote /\ in = inquote /\ (At(q) = "NUL" \/ (At(q) = SP /\ ~inquote)) /\ At(q) \in {SP, "NUL"}
    BY <1>15, Symbols DEF Ends
  <2>2. slash = Times(BS, n) /\ whole = arg \o Times(BS, n)
    <3>1. slash = Times(BS, n)
      BY <2>1 DEF slash
    <3>2. whole = (arg \o slash) \o <<>>
      BY <1>15
    <3> QED BY <1>12, <3>1, <3>2, ConcatEmptySeq DEF Chars
  <2>3. whole \in Chars /\ Len(whole) \in Nat /\ Len(whole) <= Len(arg) + n
    <3>1. whole = arg \o slash
      BY <2>2
    <3> HIDE DEF whole
    <3>2. whole \in Chars /\ Len(whole) = Len(arg) + Len(slash)
      BY <1>12, <3>1
    <3> QED BY <1>5, <1>7, <1>11, <3>2
  <2>4. /\ pc' = "args" /\ arg' = <<>> /\ used' = used + Len(whole) + 1 /\ p' = q
        /\ inquote' = inquote /\ argv' = Append(argv, whole)
    BY <1>2, <1>7, <1>15, <2>1
  <2> HIDE DEF done, copy, skips, in, quote, whole
  <2>5. /\ argv' \in Seq(Chars) /\ argv' # <<>> /\ Len(argv') = Len(argv) + 1
        /\ arg' \in Chars
    <3>1. <<>> \in Chars
      BY DEF Chars
    <3> QED BY <1>5, <2>3, <2>4, <3>1, AppendProperties
  <2>6. used' <= q /\ used' \in Nat
    BY <1>5, <1>7, <1>10, <2>3, <2>4
  <2>7. Closed(d) = Reading(argv', <<>>, 0, "between")
    <3>1. d.args = argv /\ d.arg = arg /\ d.n = n
      BY <1>9, ReadingFields
    <3>2. d.mode # "between"
      BY <1>9, <2>1
    <3> QED BY <2>2, <2>4, <3>1, <3>2 DEF Closed
  <2>8. ASSUME At(q) = SP PROVE d.mode # "quoted" /\ Len(argv') <= Paid(q)
    <3>1. q # L + 1 /\ q \in 1..L /\ ~inquote
      BY <1>5, <1>7, <1>8, <2>1, <2>8, Symbols
    <3>2. q = 1 \/ cmdLine[q - 1] # SP
      <4>1. CASE p = q
        <5>1. q > 1 => At(q - 1) # SP
          BY <1>10, <2>8, <3>1, <4>1
        <5> QED BY <1>5, <3>1, <5>1
      <4>2. CASE p # q
        <5>1. q - 1 \in p..q - 1
          BY <1>5, <1>7, <4>2
        <5> QED BY <1>4, <5>1, Symbols
      <4> QED BY <4>1, <4>2
    <3>3. q \in Starts
      BY <1>5, <2>8, <3>1, <3>2 DEF Starts, L
    <3>4. Paid(p - 1) + 1 <= Paid(q) /\ Paid(p - 1) \in Nat /\ Paid(q) \in Nat
      <4>1. p - 1 < q /\ p - 1 <= q
        BY <1>5, <1>7
      <4> QED BY <1>1, <1>7, <3>3, <4>1, PaidGrows
    <3> QED BY <1>5, <1>9, <1>10, <2>5, <3>1, <3>4
  <2>9. Between'
    <3>1. At(p)' = At(q) /\ ReadTo(cmdLine, p - 1)' = d /\ Paid(p)' = Paid(q)
      BY <1>2, <1>3, <2>4 DEF d, Paid, Starts
    <3> QED BY <2>1, <2>4, <2>5, <2>6, <2>7, <2>8, <3>1 DEF Between
  <2>10. ScanType'
    BY <1>1, <1>2, <1>5, <1>7, <2>4, <2>5, <2>6 DEF ScanType, L
  <2> QED BY <1>3, <2>4, <2>9, <2>10 DEF ParseInv
<1>16. CASE ~done
  <2>1. q \in 1..L /\ cmdLine[q] = At(q) /\ At(q) \in Symbol
        /\ ReadTo(cmdLine, q) = Step(d, At(q))
    <3>1. q # L + 1
      BY <1>8, <1>16 DEF Ends
    <3>2. q \in 1..L
      BY <1>5, <1>7, <3>1
    <3> QED BY <1>5, <3>2, ReadToNext DEF d, L
  <2>2. d.args = argv /\ d.arg = arg /\ d.n = n
    BY <1>9, ReadingFields
  <2>3. /\ pc' = "arg" /\ arg' = whole /\ used' = used /\ inquote' = in /\ argv' = argv
        /\ p' = IF skips THEN q + 2 ELSE q + 1
    BY <1>2, <1>7, <1>16
  <2>4. whole = arg \o slash \o (IF copy THEN <<At(q)>> ELSE <<>>)
    BY <1>16
  <2>5. whole \in Chars /\ Len(whole) \in Nat /\ Len(whole) <= Len(arg) + n + 1
        /\ (copy => whole = arg \o slash \o <<At(q)>>) /\ (~copy => whole = arg \o slash)
    <3>1. <<At(q)>> \in Chars /\ Len(<<At(q)>>) = 1
      BY <2>1 DEF Chars
    <3>2. arg \o slash \o <<At(q)>> \in Chars
          /\ Len(arg \o slash \o <<At(q)>>) = Len(arg) + Len(slash) + 1
      BY <1>12, <3>1, ConcatProperties DEF Chars
    <3>3. arg \o slash \o <<>> = arg \o slash
      BY <1>12, ConcatEmptySeq DEF Chars
    <3>4. (copy => whole = arg \o slash \o <<At(q)>>) /\ (~copy => whole = arg \o slash)
      <4> HIDE DEF copy
      <4> QED BY <2>4, <3>3
    <3> HIDE DEF whole, copy
    <3>5. CASE copy
      <4>1. whole \in Chars /\ Len(whole) = Len(arg) + Len(slash) + 1
        BY <3>2, <3>4, <3>5
      <4> QED BY <1>5, <1>7, <1>11, <3>4, <4>1
    <3>6. CASE ~copy
      <4>1. whole \in Chars /\ Len(whole) = Len(arg) + Len(slash)
        BY <1>12, <3>4, <3>6
      <4> QED BY <1>5, <1>7, <1>11, <3>4, <4>1
    <3> QED BY <3>5, <3>6
  <2> HIDE DEF whole
  <2>6. used + Len(whole) <= q
    BY <1>5, <1>7, <1>10, <2>5
  \* What is left to show, when r characters have been read.
  <2>7. ASSUME NEW r \in q..L, p' = r + 1,
               ReadTo(cmdLine, r) = Reading(argv, whole, 0, ReadTo(cmdLine, r).mode),
               in <=> ReadTo(cmdLine, r).mode = "quoted", in \in BOOLEAN,
               ReadTo(cmdLine, r).mode # "between",
               ReadTo(cmdLine, r).mode = "shut" => At(r + 1) # DQ,
               At(r) = SP => in
        PROVE  ParseInv'
    <3>1. r \in Nat /\ r + 1 \in 1..L+1 /\ (r + 1) - 1 = r /\ p - 1 <= r /\ q <= r
      BY <1>5, <1>7
    <3>2. At(p)' = At(r + 1) /\ ReadTo(cmdLine, p - 1)' = ReadTo(cmdLine, r) /\ Paid(p - 1)' = Paid(r)
          /\ At(p - 1)' = At(r)
      BY <1>2, <1>3, <2>7, <3>1 DEF Paid, Starts
    <3>3. ScanType'
      <4> HIDE DEF in
      <4> QED BY <1>1, <1>2, <1>5, <2>3, <2>5, <2>7, <3>1 DEF ScanType, L
    <3>4. used' + Len(arg') <= p' - 1 /\ Len(argv') <= Paid(r)
      <4>1. Len(argv) <= Paid(r)
        BY <1>13, <3>1
      <4>2. used + Len(whole) <= r
        BY <1>5, <1>7, <2>5, <2>6, <3>1
      <4>3. used' = used /\ arg' = whole /\ argv' = argv /\ p' - 1 = r
        BY <2>3, <2>7, <3>1
      <4> QED BY <4>1, <4>2, <4>3
    <3>5. Within'
      <4> HIDE DEF in, skips
      <4> QED BY <2>3, <2>7, <3>1, <3>2, <3>4 DEF Within
    <3> QED BY <1>3, <2>3, <3>3, <3>5 DEF ParseInv
  <2>8. CASE ~quote
    <3>1. copy /\ ~skips /\ in = inquote /\ slash = Times(BS, n) /\ (At(q) = SP => inquote)
      BY <1>16, <2>8 DEF Copies, Ends, slash
    <3>2. ReadTo(cmdLine, q) = Reading(argv, whole, 0, Same(d.mode))
      <4>1. At(q) \notin {BS, DQ} /\ (At(q) = SP => d.mode = "quoted")
        BY <1>4, <1>9, <2>8, <3>1
      <4>2. Step(d, At(q)) = Reading(d.args, d.arg \o Times(BS, d.n) \o <<At(q)>>, 0, Same(d.mode))
        BY <4>1, StepRules
      <4> QED BY <2>1, <2>2, <2>5, <3>1, <4>2
    <3>3. ReadTo(cmdLine, q).mode = Same(d.mode)
      BY <3>2, ReadingFields
    <3>4. q \in q..L /\ p' = q + 1
      BY <1>5, <1>7, <2>1, <2>3, <3>1
    <3> HIDE DEF in, copy, skips, quote
    <3> QED BY <1>5, <1>9, <2>7, <3>1, <3>2, <3>3, <3>4
  <2>9. CASE quote /\ n % 2 = 1
    <3>1. copy /\ ~skips /\ in = inquote /\ slash = Times(BS, n \div 2)
      BY <2>9 DEF Copies, slash
    <3>2. ReadTo(cmdLine, q) = Reading(argv, whole, 0, Same(d.mode))
      <4>1. Step(d, At(q)) = Reading(d.args, d.arg \o Times(BS, d.n \div 2) \o <<DQ>>, 0, Same(d.mode))
        BY <2>2, <2>9, StepRules
      <4> QED BY <2>1, <2>2, <2>5, <2>9, <3>1, <4>1
    <3>3. ReadTo(cmdLine, q).mode = Same(d.mode)
      BY <3>2, ReadingFields
    <3>4. q \in q..L /\ p' = q + 1 /\ At(q) # SP
      BY <1>5, <1>7, <2>1, <2>3, <2>9, <3>1, Symbols
    <3> HIDE DEF in, copy, skips, quote
    <3> QED BY <1>5, <1>9, <2>7, <3>1, <3>2, <3>3, <3>4
  <2>10. CASE quote /\ n % 2 = 0
    <3>1. slash = Times(BS, n \div 2) /\ d.mode # "shut" /\ (copy <=> inquote /\ At(q + 1) = DQ)
      BY <1>9, <2>10 DEF Copies, slash
    <3>2. Step(d, At(q)) = Reading(argv, arg \o slash, 0, IF d.mode = "quoted" THEN "shut" ELSE "quoted")
      BY <2>2, <2>10, <3>1, StepRules
    <3>3. ReadTo(cmdLine, q) = Reading(argv, arg \o slash, 0, IF inquote THEN "shut" ELSE "quoted")
      BY <1>9, <2>1, <3>2
    <3>4. CASE copy
      <4>1. skips /\ inquote /\ in = inquote /\ At(q + 1) = DQ /\ p' = q + 2
        BY <2>3, <2>10, <3>1, <3>4
      <4>2. q + 1 \in 1..L /\ q + 1 \in q..L /\ cmdLine[q + 1] = DQ /\ (q + 1) - 1 = q
        <5>1. q + 1 # L + 1
          BY <1>6, <4>1, Symbols
        <5>2. q + 1 \in 1..L /\ q + 1 \in q..L /\ (q + 1) - 1 = q
          BY <1>5, <2>1, <5>1
        <5> QED BY <1>5, <4>1, <5>2
      <4> DEFINE e == ReadTo(cmdLine, q)
      <4>3. e = Reading(argv, arg \o slash, 0, "shut") /\ e.mode = "shut" /\ e.n = 0
            /\ e.args = argv /\ e.arg = arg \o slash
        <5>1. e = Reading(argv, arg \o slash, 0, "shut")
          <6> HIDE DEF in, copy, skips, quote
          <6> QED BY <3>3, <4>1
        <5> HIDE DEF e
        <5> QED BY <5>1 DEF Reading
      <4>4. ReadTo(cmdLine, q + 1) = Step(e, DQ)
        BY <1>5, <4>2, ReadToNext DEF L
      <4> HIDE DEF e
      <4>5. 0 % 2 = 0 /\ 0 \div 2 = 0 /\ e.n % 2 = 0
        BY <4>3
      <4>6. Step(e, DQ) = Reading(e.args, e.arg \o Times(BS, e.n \div 2) \o <<DQ>>, 0, "quoted")
        BY <4>3, <4>5, StepRules
      <4>7. e.arg \o Times(BS, e.n \div 2) = arg \o slash
        BY <1>12, <4>3, <4>5, Symbols, TimesNone, ConcatEmptySeq DEF Chars
      <4>8. ReadTo(cmdLine, q + 1) = Reading(argv, whole, 0, "quoted")
        BY <2>5, <2>10, <3>4, <4>3, <4>4, <4>6, <4>7
      <4>9. ReadTo(cmdLine, q + 1).mode = "quoted"
        BY <4>8, ReadingFields
      <4>10. p' = (q + 1) + 1 /\ in /\ in \in BOOLEAN
        BY <1>7, <4>1
      <4> HIDE DEF in, copy, skips, quote
      <4> QED BY <2>7, <4>2, <4>8, <4>9, <4>10
    <3>5. CASE ~copy
      <4>1. ~skips /\ in = ~inquote /\ p' = q + 1 /\ whole = arg \o slash
        BY <2>3, <2>5, <2>10, <3>5
      <4>2. ReadTo(cmdLine, q).mode = IF inquote THEN "shut" ELSE "quoted"
        BY <3>3, ReadingFields
      <4>3. q \in q..L /\ At(q) # SP /\ (inquote => At(q + 1) # DQ)
        BY <1>7, <2>1, <2>10, <3>1, <3>5, Symbols
      <4>4. in \in BOOLEAN /\ (in <=> ~inquote)
        BY <1>5, <4>1
      <4> HIDE DEF in, copy, skips, quote
      <4>5. ReadTo(cmdLine, q) = Reading(argv, whole, 0, ReadTo(cmdLine, q).mode)
        BY <3>3, <4>1, <4>2
      <4>6. ReadTo(cmdLine, q).mode # "between" /\ (in <=> ReadTo(cmdLine, q).mode = "quoted")
            /\ (ReadTo(cmdLine, q).mode = "shut" => At(q + 1) # DQ)
        BY <4>2, <4>3, <4>4
      <4> QED BY <2>7, <4>1, <4>3, <4>4, <4>5, <4>6
    <3> QED BY <3>4, <3>5
  <2> QED BY <1>7, <2>8, <2>9, <2>10
<1> QED BY <1>15, <1>16

-----------------------------------------------------------------------------
(* What another program writes reads as what it means.                     *)

LEMMA AppendAssoc ==
  ASSUME NEW S, NEW s \in Seq(S), NEW t \in Seq(S), NEW c \in S
  PROVE  s \o (t \o <<c>>) = Append(s \o t, c)
<1>1. <<c>> \in Seq(S) /\ s \o t \in Seq(S)
  BY ConcatProperties
<1>2. s \o (t \o <<c>>) = (s \o t) \o <<c>>
  BY <1>1, ConcatAssociative
<1> QED BY <1>1, <1>2, AppendIsConcat

LEMMA AppendTo ==
  ASSUME NEW s \in Chars, NEW t \in Chars, NEW c \in Symbol
  PROVE  s \o (t \o <<c>>) = Append(s \o t, c)
<1>1. s \in Seq(Symbol) /\ t \in Seq(Symbol)
  BY DEF Chars
<1> QED BY <1>1, AppendAssoc

LEMMA TailConcat ==
  ASSUME NEW S, NEW s \in Seq(S), NEW t \in Seq(S), s # <<>>
  PROVE  Tail(s \o t) = Tail(s) \o t /\ Tail(s) \in Seq(S) /\ s \o t # <<>>
<1> DEFINE u == s \o t
           v == Tail(s) \o t
<1>1. Len(s) \in Nat /\ Len(s) >= 1 /\ Len(t) \in Nat
  BY EmptySeq
<1>2. /\ u \in Seq(S) /\ Len(u) = Len(s) + Len(t)
      /\ \A i \in 1..Len(s) + Len(t) : u[i] = IF i <= Len(s) THEN s[i] ELSE t[i - Len(s)]
  BY ConcatProperties
<1>3. u # <<>>
  BY <1>1, <1>2, EmptySeq
<1>4. Tail(s) \in Seq(S) /\ Len(Tail(s)) = Len(s) - 1 /\ \A i \in 1..Len(s) - 1 : Tail(s)[i] = s[i+1]
  BY HeadTailProperties
<1>5. Tail(u) \in Seq(S) /\ Len(Tail(u)) = Len(u) - 1 /\ \A i \in 1..Len(u) - 1 : Tail(u)[i] = u[i+1]
  BY <1>2, <1>3, HeadTailProperties
<1>6. /\ v \in Seq(S) /\ Len(v) = (Len(s) - 1) + Len(t)
      /\ \A i \in 1..(Len(s) - 1) + Len(t) :
           v[i] = IF i <= Len(s) - 1 THEN Tail(s)[i] ELSE t[i - (Len(s) - 1)]
  BY <1>4, ConcatProperties
<1> HIDE DEF u, v
<1>7. Len(Tail(u)) = Len(v)
  BY <1>1, <1>2, <1>5, <1>6
<1>8. ASSUME NEW i \in 1..Len(v) PROVE Tail(u)[i] = v[i]
  <2>1. i \in Nat /\ i >= 1 /\ i <= Len(s) - 1 + Len(t) /\ i \in 1..Len(u) - 1
        /\ i + 1 \in 1..Len(s) + Len(t) /\ i \in 1..(Len(s) - 1) + Len(t)
    BY <1>1, <1>2, <1>6
  <2>2. Tail(u)[i] = IF i + 1 <= Len(s) THEN s[i+1] ELSE t[i + 1 - Len(s)]
    BY <1>2, <1>5, <2>1
  <2>3. v[i] = IF i <= Len(s) - 1 THEN Tail(s)[i] ELSE t[i - (Len(s) - 1)]
    BY <1>6, <2>1
  <2>4. CASE i <= Len(s) - 1
    <3>1. i + 1 <= Len(s) /\ i \in 1..Len(s) - 1
      BY <1>1, <2>1, <2>4
    <3> QED BY <1>4, <2>2, <2>3, <2>4, <3>1
  <2>5. CASE ~(i <= Len(s) - 1)
    <3>1. ~(i + 1 <= Len(s)) /\ i + 1 - Len(s) = i - (Len(s) - 1)
      BY <1>1, <2>1, <2>5
    <3> QED BY <2>2, <2>3, <2>5, <3>1
  <2> QED BY <2>4, <2>5
<1>9. Tail(u) = v
  BY <1>5, <1>6, <1>7, <1>8, SeqEqual
<1> QED BY <1>3, <1>4, <1>9 DEF u, v

LEMMA EscapedType ==
  ASSUME NEW S, BS \in S, NEW a \in Seq(S), NEW i \in 1..Len(a)
  PROVE  Escaped(a, i) \in Seq(S)
<1>1. <<a[i]>> \in Seq(S) /\ <<BS>> \in Seq(S) /\ <<>> \in Seq(S)
  OBVIOUS
<1> QED BY <1>1, ConcatProperties DEF Escaped

\* The escaped characters of an argument, as a function of how many.
LEMMA EscapedFold ==
  ASSUME NEW S, BS \in S, NEW a \in Seq(S)
  PROVE  \E h : /\ h[0] = <<>>
                /\ a # <<>> => h[Len(a)] = FlattenSeq([i \in 1..Len(a) |-> Escaped(a, i)])
                /\ \A k \in 1..Len(a) : h[k] = h[k-1] \o Escaped(a, k)
                /\ \A k \in 0..Len(a) : h[k] \in Seq(S)
<1> DEFINE L == Len(a)
           q == [i \in 1..L |-> Escaped(a, i)]
<1>1. \A i \in 1..L : Escaped(a, i) \in Seq(S)
  BY EscapedType
<1>2. L \in Nat
  OBVIOUS
<1>3. q \in Seq(Seq(S)) /\ Len(q) = L /\ \A i \in 1..L : q[i] = Escaped(a, i)
  BY <1>1, <1>2
<1>4. a # <<>> => q # <<>>
  BY <1>2, <1>3, EmptySeq
<1> HIDE DEF q
<1>5. PICK h : /\ h[0] = <<>> /\ (q # <<>> => h[Len(q)] = FlattenSeq(q))
               /\ \A k \in 1..Len(q) : h[k] = h[k-1] \o q[k]
               /\ \A k \in 0..Len(q) : h[k] \in Seq(S)
  BY <1>3, FlattenFold
<1>6. \A k \in 1..L : h[k] = h[k-1] \o Escaped(a, k)
  BY <1>3, <1>5
<1> QED BY <1>3, <1>4, <1>5, <1>6 DEF q

LEMMA FlattenNone == FlattenSeq(<<>>) = <<>>
  BY EmptySeq DEF FlattenSeq

LEMMA QuotedType ==
  ASSUME NEW S, BS \in S, DQ \in S, NEW a \in Seq(S)
  PROVE  Quoted(a) \in Seq(S)
<1> DEFINE f == FlattenSeq([i \in 1..Len(a) |-> Escaped(a, i)])
<1>1. f \in Seq(S)
  <2>1. CASE a = <<>>
    <3>1. Len(a) = 0 /\ 1..0 = {}
      BY <2>1
    <3>2. [i \in 1..Len(a) |-> Escaped(a, i)] = <<>>
      <4>1. [i \in 1..Len(a) |-> Escaped(a, i)] \in Seq(S) /\ Len([i \in 1..Len(a) |-> Escaped(a, i)]) = 0
        BY <3>1
      <4> QED BY <4>1, EmptySeq
    <3>3. <<>> \in Seq(S)
      OBVIOUS
    <3> QED BY <3>2, <3>3, FlattenNone
  <2>2. CASE a # <<>>
    <3>1. Len(a) \in 0..Len(a)
      OBVIOUS
    <3> QED BY <2>2, <3>1, EscapedFold
  <2> QED BY <2>1, <2>2
<1> HIDE DEF f
<1>2. <<DQ>> \in Seq(S)
  OBVIOUS
<1>3. <<DQ>> \o f \o <<DQ>> \in Seq(S)
  BY <1>1, <1>2, ConcatProperties
<1> QED BY <1>3 DEF Quoted, f

\* Where the backslashes up to the k-th character are doubled, half of those
\* pending belong to the argument, and else all of them.
HalfOf(d, a, k)  == d.n % 2 = 0 /\ d.arg \o Times(BS, d.n \div 2) = SubSeq(a, 1, k)
WholeOf(d, a, k) == d.arg \o Times(BS, d.n) = SubSeq(a, 1, k)

Escaping(d, args, a, k) ==
  /\ d \in Readings /\ d.args = args /\ d.mode = "quoted"
  /\ k = 0 \/ a[k] # BS \/ Doubled(a, k) => HalfOf(d, a, k)
  /\ k = 0 \/ a[k] # BS \/ ~Doubled(a, k) => WholeOf(d, a, k)

LEMMA DoubledAfter ==
  ASSUME NEW a \in Chars, NEW k \in 1..Len(a), a[k] = BS
  PROVE  /\ k = Len(a) => Doubled(a, k)
         /\ k < Len(a) => /\ a[k+1] = DQ => Doubled(a, k)
                          /\ a[k+1] = BS => (Doubled(a, k) <=> Doubled(a, k + 1))
                          /\ a[k+1] \notin {BS, DQ} => ~Doubled(a, k)
<1>1. Len(a) \in Nat /\ k \in Nat /\ k >= 1 /\ k <= Len(a)
  BY DEF Chars
<1>2. \A i \in k..k : a[i] = BS
  BY <1>1
<1>3. k = Len(a) => Doubled(a, k)
  <2>1. k = Len(a) => k + 1 \in k+1..Len(a)+1 /\ k + 1 > Len(a) /\ (k + 1) - 1 = k
    BY <1>1
  <2> QED BY <1>2, <2>1 DEF Doubled
<1>4. k < Len(a) /\ a[k+1] = DQ => Doubled(a, k)
  <2>1. k < Len(a) => k + 1 \in k+1..Len(a)+1 /\ (k + 1) - 1 = k
    BY <1>1
  <2> QED BY <1>2, <2>1 DEF Doubled
<1>5. ASSUME k < Len(a), Doubled(a, k), a[k+1] # DQ
      PROVE  a[k+1] = BS /\ Doubled(a, k + 1)
  <2>1. PICK j \in k+1..Len(a)+1 : (j > Len(a) \/ a[j] = DQ) /\ \A i \in k..j-1 : a[i] = BS
    BY <1>5 DEF Doubled
  <2>2. j # k + 1
    BY <1>1, <1>5, <2>1
  <2>3. j \in (k+1)+1..Len(a)+1 /\ k + 1 \in k..j-1 /\ \A i \in k+1..j-1 : i \in k..j-1
    BY <1>1, <2>1, <2>2
  <2> QED BY <2>1, <2>3 DEF Doubled
<1>6. ASSUME k < Len(a), a[k+1] = BS, Doubled(a, k + 1) PROVE Doubled(a, k)
  <2>1. PICK j \in (k+1)+1..Len(a)+1 : (j > Len(a) \/ a[j] = DQ) /\ \A i \in k+1..j-1 : a[i] = BS
    BY <1>6 DEF Doubled
  <2>2. j \in k+1..Len(a)+1 /\ \A i \in k..j-1 : i = k \/ i \in k+1..j-1
    BY <1>1, <2>1
  <2> QED BY <2>1, <2>2 DEF Doubled
<1> QED BY <1>3, <1>4, <1>5, <1>6, Symbols

LEMMA NonePending ==
  ASSUME NEW args \in Seq(Chars), NEW a \in Chars, NEW k \in 0..Len(a)
  PROVE  Escaping(Reading(args, SubSeq(a, 1, k), 0, "quoted"), args, a, k)
<1> DEFINE b == SubSeq(a, 1, k)
           d == Reading(args, b, 0, "quoted")
<1>1. b \in Chars
  <2>1. k \in Int /\ 1 \in Int /\ \A i \in 1..k : a[i] \in Symbol
    BY DEF Chars
  <2> QED BY <2>1, SubSeqProperties DEF Chars
<1> HIDE DEF b
<1>2. d \in Readings /\ d.args = args /\ d.mode = "quoted" /\ d.arg = b /\ d.n = 0
  BY <1>1, ReadingType, ReadingFields
<1>3. b \o Times(BS, 0) = b /\ 0 \div 2 = 0 /\ 0 % 2 = 0
  BY <1>1, Symbols, TimesNone, ConcatEmptySeq DEF Chars
<1> HIDE DEF d
<1>4. HalfOf(d, a, k) /\ WholeOf(d, a, k)
  BY <1>2, <1>3 DEF HalfOf, WholeOf, b
<1>5. Escaping(d, args, a, k)
  BY <1>2, <1>4 DEF Escaping
<1> QED BY <1>5 DEF d, b

LEMMA EscapeMore ==
  ASSUME NEW args \in Seq(Chars), NEW a \in Chars, NEW k \in 1..Len(a), NEW u \in Chars,
         Escaping(Read(u), args, a, k - 1)
  PROVE  Escaping(Read(u \o Escaped(a, k)), args, a, k)
<1> DEFINE c == a[k]
           d == Read(u)
           b == SubSeq(a, 1, k - 1)
           half  == d.arg \o Times(BS, d.n \div 2)
           whole == d.arg \o Times(BS, d.n)
<1>1. /\ d \in Readings /\ d.args = args /\ d.mode = "quoted" /\ d.n \in Nat /\ d.arg \in Chars
      /\ half \in Chars /\ whole \in Chars /\ Same(d.mode) = "quoted"
  BY HalfType DEF Escaping, Same
<1>2. Len(a) \in Nat /\ k \in Nat /\ k >= 1 /\ c \in Symbol /\ b \in Chars
      /\ SubSeq(a, 1, k) = Append(b, c) /\ (k - 1) + 1 = k /\ k \in 0..Len(a)
  BY PrefixMore DEF Chars
<1>3. k - 1 # 0 => k - 1 \in 1..Len(a) /\ k - 1 < Len(a)
  BY <1>2
<1>4. c = DQ \/ (c = BS /\ Doubled(a, k)) => d.n % 2 = 0 /\ half = b
  <2>1. ASSUME c = DQ \/ (c = BS /\ Doubled(a, k)), k - 1 # 0, a[k-1] = BS
        PROVE  Doubled(a, k - 1)
    BY <1>2, <1>3, <2>1, DoubledAfter
  <2>2. c = DQ \/ (c = BS /\ Doubled(a, k)) => HalfOf(d, a, k - 1)
    BY <2>1 DEF Escaping
  <2> QED BY <2>2 DEF HalfOf
<1>5. (c # DQ /\ c # BS) \/ (c = BS /\ ~Doubled(a, k)) => whole = b
  <2>1. ASSUME (c # DQ /\ c # BS) \/ (c = BS /\ ~Doubled(a, k)), k - 1 # 0, a[k-1] = BS
        PROVE  ~Doubled(a, k - 1)
    BY <1>2, <1>3, <2>1, DoubledAfter
  <2>2. (c # DQ /\ c # BS) \/ (c = BS /\ ~Doubled(a, k)) => WholeOf(d, a, k - 1)
    BY <2>1 DEF Escaping
  <2> QED BY <2>2 DEF WholeOf
<1>6. Append(u, BS) \in Chars /\ Read(Append(u, BS)) = Reading(args, d.arg, d.n + 1, "quoted")
  <2>1. Append(u, BS) \in Chars /\ Read(Append(u, BS)) = Step(d, BS)
    BY Symbols, ReadMore, AppendProperties DEF Chars
  <2> HIDE DEF d
  <2>2. Step(d, BS) = Reading(d.args, d.arg, d.n + 1, Same(d.mode))
    BY StepRules
  <2> QED BY <1>1, <2>1, <2>2
<1>7. <<BS>> \o <<c>> \in Chars /\ u \o (<<BS>> \o <<c>>) = Append(Append(u, BS), c)
  <2>1. <<BS>> \in Chars /\ <<c>> \in Chars
    BY <1>2, Symbols DEF Chars
  <2>2. u \o <<BS>> = Append(u, BS)
    BY Symbols, AppendIsConcat DEF Chars
  <2> QED BY <1>2, <2>1, <2>2, AppendAssoc, ConcatProperties DEF Chars
<1>8. <<>> \o <<c>> = <<c>> /\ u \o <<c>> = Append(u, c)
  <2>1. <<c>> \in Chars
    BY <1>2 DEF Chars
  <2> QED BY <1>2, <2>1, ConcatEmptySeq, AppendIsConcat DEF Chars
<1> DEFINE e == Reading(args, d.arg, d.n + 1, "quoted")
<1>9. e \in Readings /\ e.args = args /\ e.arg = d.arg /\ e.n = d.n + 1 /\ e.mode = "quoted"
  BY <1>1, ReadingType, ReadingFields
<1>10. CASE c = DQ
  <2>1. Escaped(a, k) = <<BS>> \o <<c>>
    BY <1>10 DEF Escaped
  <2>2. Read(u \o Escaped(a, k)) = Step(e, DQ)
    BY <1>2, <1>6, <1>7, <1>10, <2>1, ReadMore
  <2>3. (d.n + 1) % 2 = 1 /\ (d.n + 1) \div 2 = d.n \div 2
    BY <1>1, <1>4, <1>10
  <2> HIDE DEF e
  <2>4. Step(e, DQ) = Reading(e.args, e.arg \o Times(BS, e.n \div 2) \o <<DQ>>, 0, Same(e.mode))
    BY <1>9, <2>3, StepRules
  <2>5. Step(e, DQ) = Reading(args, b \o <<DQ>>, 0, "quoted")
    BY <1>4, <1>9, <1>10, <2>3, <2>4 DEF Same
  <2>6. b \o <<DQ>> = SubSeq(a, 1, k)
    BY <1>2, <1>10, AppendIsConcat DEF Chars
  <2> QED BY <1>2, <2>2, <2>5, <2>6, NonePending
<1>11. CASE c = BS /\ Doubled(a, k)
  <2>1. Escaped(a, k) = <<BS>> \o <<c>>
    BY <1>11 DEF Escaped
  <2> DEFINE g == Read(u \o Escaped(a, k))
  <2>2. g = Step(e, BS)
    BY <1>2, <1>6, <1>7, <1>11, <2>1, ReadMore
  <2>3. Step(e, BS) = Reading(e.args, e.arg, e.n + 1, Same(e.mode))
    BY StepRules
  <2>4. e.n + 1 = d.n + 2 /\ d.n + 2 \in Nat /\ (d.n + 2) % 2 = 0 /\ (d.n + 2) \div 2 = d.n \div 2 + 1
        /\ d.n \div 2 \in Nat
    BY <1>1, <1>4, <1>9, <1>11
  <2> HIDE DEF e
  <2>5. g = Reading(args, d.arg, d.n + 2, "quoted")
    <3>1. Same(e.mode) = "quoted"
      BY <1>9 DEF Same
    <3> HIDE DEF g, d
    <3> QED BY <1>9, <2>2, <2>3, <2>4, <3>1
  <2>6. g \in Readings /\ g.args = args /\ g.arg = d.arg /\ g.n = d.n + 2 /\ g.mode = "quoted"
    <3>1. d.n + 2 \in Nat
      BY <2>4
    <3> HIDE DEF g, d
    <3>2. Reading(args, d.arg, d.n + 2, "quoted") \in Readings
      BY <1>1, <3>1, ReadingType
    <3> QED BY <2>5, <3>2, ReadingFields
  <2>7. d.arg \o Times(BS, d.n \div 2 + 1) = SubSeq(a, 1, k)
    <3>1. Times(BS, d.n \div 2 + 1) = Times(BS, d.n \div 2) \o <<BS>> /\ Times(BS, d.n \div 2) \in Chars
      BY <2>4, Symbols, TimesMore, TimesSeq
    <3>2. d.arg \o (Times(BS, d.n \div 2) \o <<BS>>) = Append(half, BS)
      <4> HIDE DEF d
      <4> QED BY <1>1, <3>1, Symbols, AppendTo
    <3> HIDE DEF half, b, d
    <3> QED BY <1>2, <1>4, <1>11, <3>1, <3>2
  <2>8. HalfOf(g, a, k)
    <3> HIDE DEF g, d
    <3> QED BY <2>4, <2>6, <2>7 DEF HalfOf
  <2> HIDE DEF g, d
  <2>9. Escaping(g, args, a, k)
    BY <1>2, <1>11, <2>6, <2>8 DEF Escaping
  <2> QED BY <2>9 DEF g
<1>12. CASE c = BS /\ ~Doubled(a, k)
  <2> DEFINE g == Read(u \o Escaped(a, k))
  <2>1. Escaped(a, k) = <<>> \o <<c>>
    BY <1>12, Symbols DEF Escaped
  <2>2. g = e
    BY <1>6, <1>8, <1>12, <2>1
  <2>3. d.arg \o Times(BS, d.n + 1) = SubSeq(a, 1, k)
    <3>1. Times(BS, d.n + 1) = Times(BS, d.n) \o <<BS>> /\ Times(BS, d.n) \in Chars
      BY <1>1, Symbols, TimesMore, TimesSeq
    <3>2. d.arg \o (Times(BS, d.n) \o <<BS>>) = Append(whole, BS)
      <4> HIDE DEF d
      <4> QED BY <1>1, <3>1, Symbols, AppendTo
    <3> HIDE DEF whole, b, d
    <3> QED BY <1>2, <1>5, <1>12, <3>1, <3>2
  <2> HIDE DEF g, e, d
  <2>4. WholeOf(g, a, k)
    BY <1>9, <2>2, <2>3 DEF WholeOf
  <2>5. Escaping(g, args, a, k)
    BY <1>2, <1>9, <1>12, <2>2, <2>4 DEF Escaping
  <2> QED BY <2>5 DEF g
<1>13. CASE c # DQ /\ c # BS
  <2>1. Escaped(a, k) = <<>> \o <<c>>
    BY <1>13 DEF Escaped, Doubled
  <2>2. Read(u \o Escaped(a, k)) = Step(d, c)
    BY <1>2, <1>8, <2>1, ReadMore
  <2>3. Step(d, c) = Reading(d.args, whole \o <<c>>, 0, Same(d.mode))
    BY <1>1, <1>13, StepRules
  <2>4. b \o <<c>> = SubSeq(a, 1, k)
    BY <1>2, AppendIsConcat DEF Chars
  <2>5. Read(u \o Escaped(a, k)) = Reading(args, SubSeq(a, 1, k), 0, "quoted")
    <3> HIDE DEF whole, b, d
    <3> QED BY <1>1, <1>5, <1>13, <2>2, <2>3, <2>4
  <2> QED BY <1>2, <2>5, NonePending
<1> QED BY <1>10, <1>11, <1>12, <1>13

LEMMA CharsConcat ==
  /\ <<>> \in Chars
  /\ \A s \in Chars, t \in Chars : s \o t \in Chars
  /\ \A r \in Chars, s \in Chars, t \in Chars : (r \o s) \o t = r \o (s \o t)
  /\ \A s \in Chars : s \o <<>> = s /\ <<>> \o s = s /\ s \o Times(BS, 0) = s
<1>1. <<>> \in Chars /\ Times(BS, 0) = <<>>
  BY Symbols, TimesNone DEF Chars
<1>2. \A s \in Chars, t \in Chars : s \o t \in Chars
  BY ConcatProperties DEF Chars
<1>3. \A r \in Chars, s \in Chars, t \in Chars : (r \o s) \o t = r \o (s \o t)
  BY ConcatAssociative DEF Chars
<1>4. \A s \in Chars : s \o <<>> = s /\ <<>> \o s = s
  BY ConcatEmptySeq DEF Chars
<1> QED BY <1>1, <1>2, <1>3, <1>4

LEMMA CharsAppend ==
  ASSUME NEW s \in Chars, NEW c \in Symbol
  PROVE  Append(s, c) \in Chars /\ Append(s, c) = s \o <<c>> /\ <<c>> \in Chars
  BY AppendIsConcat, AppendProperties DEF Chars

\* Outside quotes all backslashes pending belong to the argument.
Plainly(d, args, a, k) ==
  /\ d \in Readings /\ d.args = args /\ WholeOf(d, a, k)
  /\ d.mode = IF k = 0 THEN "between" ELSE "plain"

LEMMA PlainMore ==
  ASSUME NEW args \in Seq(Chars), NEW a \in Chars, NEW k \in 1..Len(a), NEW u \in Chars,
         Plainly(Read(u), args, a, k - 1), a[k] \notin {SP, DQ}
  PROVE  Append(u, a[k]) \in Chars /\ Plainly(Read(Append(u, a[k])), args, a, k)
<1> DEFINE c == a[k]
           d == Read(u)
           b == SubSeq(a, 1, k - 1)
           g == Read(Append(u, c))
           whole == d.arg \o Times(BS, d.n)
<1>1. /\ d.args = args /\ Same(d.mode) = "plain" /\ d.n \in Nat /\ d.arg \in Chars
      /\ whole \in Chars /\ whole = b
  BY HalfType DEF Plainly, WholeOf, Same
<1>2. Len(a) \in Nat /\ k \in Nat /\ k # 0 /\ c \in Symbol /\ b \in Chars
      /\ SubSeq(a, 1, k) = Append(b, c)
  BY PrefixMore DEF Chars
<1>3. Append(u, c) \in Chars /\ g = Step(d, c)
  BY <1>2, ReadMore, AppendProperties DEF Chars
<1> HIDE DEF d, g
<1>4. CASE c = BS
  <2>1. g = Reading(args, d.arg, d.n + 1, "plain") /\ d.n + 1 \in Nat
    <3>1. Step(d, BS) = Reading(d.args, d.arg, d.n + 1, Same(d.mode))
      BY StepRules
    <3> QED BY <1>1, <1>3, <1>4, <3>1
  <2>2. Reading(args, d.arg, d.n + 1, "plain") \in Readings
    BY <1>1, <2>1, ReadingType
  <2>3. g \in Readings /\ g.args = args /\ g.arg = d.arg /\ g.n = d.n + 1 /\ g.mode = "plain"
    BY <2>1, <2>2, ReadingFields
  <2>4. d.arg \o Times(BS, d.n + 1) = SubSeq(a, 1, k)
    <3>1. Times(BS, d.n + 1) = Times(BS, d.n) \o <<BS>> /\ Times(BS, d.n) \in Chars
      BY <1>1, Symbols, TimesMore, TimesSeq
    <3>2. d.arg \o (Times(BS, d.n) \o <<BS>>) = Append(whole, BS)
      BY <1>1, <3>1, Symbols, AppendTo
    <3> HIDE DEF whole, b
    <3> QED BY <1>1, <1>2, <1>4, <3>1, <3>2
  <2>5. WholeOf(g, a, k)
    BY <2>3, <2>4 DEF WholeOf
  <2>6. Plainly(g, args, a, k)
    BY <1>2, <2>3, <2>5 DEF Plainly
  <2> QED BY <1>3, <2>6 DEF g
<1>5. CASE c # BS
  <2> DEFINE w == SubSeq(a, 1, k)
  <2>1. g = Reading(args, whole \o <<c>>, 0, "plain")
    BY <1>1, <1>3, <1>5, StepRules
  <2>2. whole \o <<c>> = w /\ w \in Chars
    <3>1. whole \o <<c>> = Append(whole, c) /\ Append(whole, c) \in Chars
      BY <1>1, <1>2, CharsAppend
    <3> HIDE DEF whole, b
    <3> QED BY <1>1, <1>2, <3>1
  <2> HIDE DEF w, whole
  <2>3. Reading(args, w, 0, "plain") \in Readings
    BY <2>2, ReadingType
  <2>8. g = Reading(args, w, 0, "plain")
    BY <2>1, <2>2
  <2>4. g \in Readings /\ g.args = args /\ g.arg = w /\ g.n = 0 /\ g.mode = "plain"
    BY <2>3, <2>8, ReadingFields
  <2>5. w \o Times(BS, 0) = w
    BY <2>2, Symbols, TimesNone, ConcatEmptySeq DEF Chars
  <2>6. WholeOf(g, a, k)
    BY <2>4, <2>5 DEF WholeOf, w
  <2>7. Plainly(g, args, a, k)
    BY <1>2, <2>4, <2>6 DEF Plainly
  <2> QED BY <1>3, <2>7 DEF g
<1> QED BY <1>4, <1>5

\* Between arguments, with these read.
Ready(args) == Reading(args, <<>>, 0, "between")

LEMMA PlainReads ==
  ASSUME NEW args \in Seq(Chars), NEW a \in Chars, NEW t \in Chars, Read(t) = Ready(args),
         a # <<>>, \A k \in 1..Len(a) : a[k] \notin {SP, DQ}
  PROVE  /\ Closed(Read(t \o a)) = Ready(Append(args, a))
         /\ Read(t \o a).mode # "quoted"
<1> DEFINE L == Len(a)
           u(k) == t \o SubSeq(a, 1, k)
           g == [k \in 0..L |-> u(k)]
           E == [k \in 0..L |-> {s \in Chars : Plainly(Read(s), args, a, k)}]
<1>1. L \in Nat /\ L # 0
  BY EmptySeq DEF Chars
<1>2. /\ \A k \in 0..L : g[k] = u(k) /\ E[k] = {s \in Chars : Plainly(Read(s), args, a, k)}
      /\ 0 \in 0..L /\ L \in 0..L /\ \A k \in 1..L : k \in 0..L /\ k - 1 \in 0..L
  BY <1>1
<1>3. g[0] \in E[0]
  <2>1. u(0) = t
    BY PrefixNone, ConcatEmptySeq DEF Chars
  <2>2. <<>> \in Chars /\ <<>> \o Times(BS, 0) = SubSeq(a, 1, 0)
    BY PrefixNone, CharsConcat
  <2>3. Ready(args) \in Readings
    BY <2>2, ReadingType DEF Ready
  <2>4. Plainly(Ready(args), args, a, 0)
    <3> DEFINE e == Ready(args)
    <3>1. e.args = args /\ e.arg = <<>> /\ e.n = 0 /\ e.mode = "between" /\ e \in Readings
      BY <2>3, ReadingFields DEF Ready
    <3> HIDE DEF e
    <3>2. Plainly(e, args, a, 0)
      BY <2>2, <3>1 DEF Plainly, WholeOf
    <3> QED BY <3>2 DEF e
  <2> HIDE DEF g, E, u
  <2> QED BY <1>2, <2>1, <2>4
<1>4. ASSUME NEW k \in 1..L, g[k-1] \in E[k-1] PROVE g[k] \in E[k]
  <2>1. /\ SubSeq(a, 1, k - 1) \in Chars /\ a[k] \in Symbol
        /\ SubSeq(a, 1, k) = Append(SubSeq(a, 1, k - 1), a[k])
    BY PrefixMore DEF Chars
  <2>2. u(k) = Append(u(k-1), a[k])
    <3>1. SubSeq(a, 1, k) = SubSeq(a, 1, k - 1) \o <<a[k]>>
      BY <2>1, AppendIsConcat DEF Chars
    <3> QED BY <2>1, <3>1, AppendTo
  <2> HIDE DEF g, E, u
  <2>3. u(k-1) \in Chars /\ Plainly(Read(u(k-1)), args, a, k-1)
    BY <1>2, <1>4
  <2>4. a[k] \notin {SP, DQ}
    OBVIOUS
  <2>5. u(k) \in Chars /\ Plainly(Read(u(k)), args, a, k)
    BY <2>2, <2>3, <2>4, PlainMore
  <2> QED BY <1>2, <2>5
<1>5. Plainly(Read(u(L)), args, a, L)
  <2> HIDE DEF g, E, u
  <2>1. g[L] \in E[L]
    BY <1>1, <1>2, <1>3, <1>4, StepsStay
  <2> QED BY <1>2, <2>1
<1>6. SubSeq(a, 1, L) = a
  BY SubSeqFull DEF Chars
<1> DEFINE d == Read(t \o a)
<1>7. d.args = args /\ d.arg \o Times(BS, d.n) = a /\ d.mode = "plain"
  BY <1>1, <1>5, <1>6 DEF Plainly, WholeOf
<1> HIDE DEF d
<1>8. Closed(d) = Ready(Append(args, a)) /\ d.mode # "quoted"
  BY <1>7 DEF Closed, Ready
<1> QED BY <1>8 DEF d

LEMMA QuotesRead ==
  ASSUME NEW args \in Seq(Chars), NEW a \in Chars, NEW t \in Chars, Read(t) = Ready(args)
  PROVE  LET f == FlattenSeq([i \in 1..Len(a) |-> Escaped(a, i)])
             d == Read(t \o (<<DQ>> \o f \o <<DQ>>))
         IN  Closed(d) = Ready(Append(args, a)) /\ d.mode # "quoted"
<1> DEFINE L == Len(a)
           f == FlattenSeq([i \in 1..L |-> Escaped(a, i)])
           u == Append(t, DQ)
           E == [k \in 0..L |-> {s \in Chars : Escaping(Read(u \o s), args, a, k)}]
<1>1. L \in Nat /\ BS \in Symbol /\ DQ \in Symbol /\ u \in Chars
  BY Symbols, AppendProperties DEF Chars
<1>2. PICK h : /\ h[0] = <<>>
               /\ a # <<>> => h[L] = f
               /\ \A k \in 1..L : h[k] = h[k-1] \o Escaped(a, k)
               /\ \A k \in 0..L : h[k] \in Chars
  <2>1. a \in Seq(Symbol)
    BY DEF Chars
  <2> QED BY <1>1, <2>1, EscapedFold DEF Chars
<1>3. h[L] = f
  <2>1. CASE a = <<>>
    <3>1. L = 0 /\ 1..0 = {}
      BY <2>1
    <3>2. [i \in 1..L |-> Escaped(a, i)] = <<>>
      BY <3>1
    <3> QED BY <1>2, <3>1, <3>2, FlattenNone
  <2> QED BY <1>2, <2>1
<1> HIDE DEF f, u
<1>4. /\ \A k \in 0..L : E[k] = {s \in Chars : Escaping(Read(u \o s), args, a, k)}
      /\ 0 \in 0..L /\ L \in 0..L /\ \A k \in 1..L : k \in 0..L /\ k - 1 \in 0..L
  BY <1>1
<1> HIDE DEF E
<1>5. h[0] \in E[0]
  <2>1. u \o <<>> = u /\ <<>> \in Chars
    BY <1>1, ConcatEmptySeq DEF Chars
  <2>2. Read(u) = Step(Ready(args), DQ)
    BY <1>1, ReadMore DEF u
  <2>3. Step(Ready(args), DQ) = Reading(args, <<>> \o Times(BS, 0), 0, "quoted")
    <3> DEFINE e == Ready(args)
    <3>1. e.args = args /\ e.arg = <<>> /\ e.n = 0 /\ e.mode = "between"
      BY ReadingFields DEF Ready
    <3>2. e.n % 2 = 0 /\ 0 \div 2 = 0
      BY <3>1
    <3> HIDE DEF e
    <3>3. Step(e, DQ) = Reading(args, <<>> \o Times(BS, 0), 0, "quoted")
      BY <3>1, <3>2, StepRules
    <3> QED BY <3>3 DEF e
  <2>4. <<>> \o Times(BS, 0) = SubSeq(a, 1, 0)
    BY <2>1, Symbols, TimesNone, PrefixNone, ConcatEmptySeq DEF Chars
  <2>5. Escaping(Read(u), args, a, 0)
    BY <1>4, <2>2, <2>3, <2>4, NonePending
  <2> QED BY <1>2, <1>4, <2>1, <2>5
<1>6. ASSUME NEW k \in 1..L, h[k-1] \in E[k-1] PROVE h[k] \in E[k]
  <2>1. h[k-1] \in Chars /\ h[k] \in Chars /\ h[k] = h[k-1] \o Escaped(a, k)
        /\ Escaping(Read(u \o h[k-1]), args, a, k - 1)
    BY <1>2, <1>4, <1>6
  <2>2. Escaped(a, k) \in Chars
    <3>1. a \in Seq(Symbol)
      BY DEF Chars
    <3> QED BY <1>1, <3>1, EscapedType DEF Chars
  <2>3. u \o h[k-1] \in Chars /\ u \o h[k] = (u \o h[k-1]) \o Escaped(a, k)
    <3> DEFINE v == h[k-1]
               x == Escaped(a, k)
    <3>1. v \in Chars /\ x \in Chars /\ h[k] = v \o x /\ u \in Chars
      BY <1>1, <2>1, <2>2
    <3> HIDE DEF v, x
    <3>2. u \o v \in Chars /\ (u \o v) \o x = u \o (v \o x)
      BY <3>1, CharsConcat
    <3> QED BY <3>1, <3>2 DEF v, x
  <2>4. Escaping(Read(u \o h[k]), args, a, k)
    BY <2>1, <2>3, EscapeMore
  <2> QED BY <1>4, <2>1, <2>4
<1>7. f \in Chars /\ Escaping(Read(u \o f), args, a, L)
  <2>1. \A k \in 0..L : h[k] \in E[k]
    BY <1>1, <1>5, <1>6, StepsStay
  <2> QED BY <1>3, <1>4, <2>1
<1> DEFINE d == Read(u \o f)
<1>8. d.args = args /\ d.mode = "quoted" /\ d.n % 2 = 0 /\ d.arg \o Times(BS, d.n \div 2) = a
  <2>1. L # 0 /\ a[L] = BS => Doubled(a, L)
    <3>1. L # 0 => L \in 1..Len(a)
      BY <1>1
    <3> QED BY <3>1, DoubledAfter
  <2>2. HalfOf(d, a, L)
    BY <1>7, <2>1 DEF Escaping
  <2>3. SubSeq(a, 1, L) = a
    BY SubSeqFull DEF Chars
  <2> QED BY <1>7, <2>2, <2>3 DEF Escaping, HalfOf
<1>9. t \o (<<DQ>> \o f \o <<DQ>>) = Append(u \o f, DQ) /\ u \o f \in Chars
  <2>1. <<DQ>> \in Chars /\ u = t \o <<DQ>>
    BY <1>1, AppendIsConcat DEF u, Chars
  <2>2. <<DQ>> \o f \in Chars /\ u \o f = t \o (<<DQ>> \o f) /\ u \o f \in Chars
    BY <1>1, <1>7, <2>1, ConcatProperties, ConcatAssociative DEF Chars
  <2>3. t \o ((<<DQ>> \o f) \o <<DQ>>) = Append(t \o (<<DQ>> \o f), DQ)
    BY <1>1, <2>2, AppendTo
  <2> QED BY <2>2, <2>3
<1>10. Read(t \o (<<DQ>> \o f \o <<DQ>>)) = Step(d, DQ)
  BY <1>1, <1>9, ReadMore
<1> HIDE DEF d
<1>11. Step(d, DQ) = Reading(args, a, 0, "shut")
  BY <1>8, StepRules
<1> DEFINE e == Reading(args, a, 0, "shut")
<1>12. e.args = args /\ e.arg = a /\ e.n = 0 /\ e.mode = "shut"
  BY ReadingFields
<1>13. a \o Times(BS, 0) = a
  BY Symbols, TimesNone, ConcatEmptySeq DEF Chars
<1> HIDE DEF e
<1>14. Closed(e) = Ready(Append(args, a)) /\ e.mode # "quoted"
  BY <1>12, <1>13 DEF Closed, Ready
<1> QED BY <1>10, <1>11, <1>14 DEF e, f

LEMMA QuotedReads ==
  ASSUME NEW args \in Seq(Chars), NEW a \in Chars, NEW t \in Chars, Read(t) = Ready(args)
  PROVE  /\ Closed(Read(t \o Quoted(a))) = Ready(Append(args, a))
         /\ Read(t \o Quoted(a)).mode # "quoted"
<1>1. CASE a = <<>> \/ SP \in Range(a) \/ DQ \in Range(a)
  BY <1>1, QuotesRead DEF Quoted
<1>2. CASE ~(a = <<>> \/ SP \in Range(a) \/ DQ \in Range(a))
  <2>1. \A k \in 1..Len(a) : a[k] \notin {SP, DQ}
    BY <1>2 DEF Range, Chars
  <2> QED BY <1>2, <2>1, PlainReads DEF Quoted
<1> QED BY <1>1, <1>2

LEMMA ConcatAround ==
  ASSUME NEW S, NEW r \in Seq(S), NEW s \in Seq(S), NEW t \in Seq(S)
  PROVE  r \o (s \o t) = (r \o s) \o t
  BY ConcatAssociative

\* A command line, as a function of how many arguments are written.
LEMMA LineFold ==
  ASSUME NEW S, BS \in S, DQ \in S, SP \in S, NEW args \in Seq(Seq(S)), args # <<>>
  PROVE  \E h : /\ h[0] = <<>>
                /\ CommandLine(args) = Tail(h[Len(args)])
                /\ \A k \in 1..Len(args) : h[k] = h[k-1] \o (<<SP>> \o Quoted(args[k]))
                /\ \A k \in 0..Len(args) : h[k] \in Seq(S)
<1> DEFINE L == Len(args)
           word(i) == <<SP>> \o Quoted(args[i])
           q == [i \in 1..L |-> word(i)]
<1>1. \A i \in 1..L : word(i) \in Seq(S)
  <2>1. ASSUME NEW i \in 1..L PROVE word(i) \in Seq(S)
    <3>1. args[i] \in Seq(S) /\ <<SP>> \in Seq(S)
      OBVIOUS
    <3>2. Quoted(args[i]) \in Seq(S)
      BY <3>1, QuotedType
    <3> QED BY <3>1, <3>2, ConcatProperties
  <2> QED BY <2>1
<1>2. L \in Nat
  OBVIOUS
<1> HIDE DEF word
<1>3. q \in Seq(Seq(S)) /\ Len(q) = L /\ \A i \in 1..L : q[i] = word(i)
  BY <1>1, <1>2
<1>4. q # <<>>
  BY <1>2, <1>3, EmptySeq
<1>5. CommandLine(args) = Tail(FlattenSeq(q))
  BY DEF CommandLine, word
<1> HIDE DEF q
<1>6. PICK h : /\ h[0] = <<>> /\ (q # <<>> => h[Len(q)] = FlattenSeq(q))
               /\ \A k \in 1..Len(q) : h[k] = h[k-1] \o q[k]
               /\ \A k \in 0..Len(q) : h[k] \in Seq(S)
  BY <1>3, FlattenFold
<1>7. \A k \in 1..L : h[k] = h[k-1] \o word(k)
  BY <1>3, <1>6
<1> QED BY <1>3, <1>4, <1>5, <1>6, <1>7 DEF word

LEMMA LineIs ==
  ASSUME NEW S, BS \in S, DQ \in S, SP \in S, NEW args \in Seq(Seq(S)), args # <<>>
  PROVE  \E g : /\ g[1] = Quoted(args[1])
                /\ \A k \in 2..Len(args) : g[k] = (g[k-1] \o <<SP>>) \o Quoted(args[k])
                /\ \A k \in 1..Len(args) : g[k] \in Seq(S)
                /\ CommandLine(args) = g[Len(args)]
<1> DEFINE L == Len(args)
<1>1. L \in Nat /\ L >= 1 /\ \A k \in 1..L : args[k] \in Seq(S)
  BY EmptySeq
<1>2. PICK h : /\ h[0] = <<>>
               /\ CommandLine(args) = Tail(h[L])
               /\ \A k \in 1..L : h[k] = h[k-1] \o (<<SP>> \o Quoted(args[k]))
               /\ \A k \in 0..L : h[k] \in Seq(S)
  BY LineFold
<1> DEFINE g == [k \in 1..L |-> Tail(h[k])]
<1>3. <<SP>> \in Seq(S) /\ Tail(<<SP>>) = <<>> /\ <<SP>> # <<>>
  OBVIOUS
<1>4. \A k \in 1..L : Quoted(args[k]) \in Seq(S)
  BY <1>1, QuotedType
<1>5. \A k \in 1..L : h[k] \in Seq(S) /\ h[k] # <<>>
  <2>1. ASSUME NEW k \in 1..L PROVE h[k] \in Seq(S) /\ h[k] # <<>>
    <3> DEFINE w == <<SP>> \o Quoted(args[k])
    <3>1. w \in Seq(S) /\ w # <<>>
      BY <1>3, <1>4, TailConcat, ConcatProperties
    <3>2. k - 1 \in 0..L /\ k \in 0..L
      BY <1>1
    <3>3. h[k-1] \in Seq(S) /\ h[k] \in Seq(S) /\ h[k] = h[k-1] \o w
      BY <1>2, <3>2
    <3> HIDE DEF w
    <3>4. Len(h[k]) = Len(h[k-1]) + Len(w) /\ Len(h[k-1]) \in Nat /\ Len(w) \in Nat /\ Len(w) # 0
      BY <3>1, <3>3, ConcatProperties, EmptySeq
    <3> QED BY <3>3, <3>4, EmptySeq
  <2> QED BY <2>1
<1>6. Tail(h[1]) = Quoted(args[1])
  <2>1. 1 \in 1..L /\ 1 - 1 = 0
    BY <1>1
  <2> DEFINE a == Quoted(args[1])
  <2>2. a \in Seq(S) /\ h[1] = <<>> \o (<<SP>> \o a)
    BY <1>2, <1>4, <2>1
  <2> HIDE DEF a
  <2>3. Tail(<<SP>> \o a) = <<>> \o a /\ <<SP>> \o a \in Seq(S)
    BY <1>3, <2>2, TailConcat, ConcatProperties
  <2>4. <<>> \o a = a /\ <<>> \o (<<SP>> \o a) = <<SP>> \o a
    BY <2>2, <2>3, ConcatEmptySeq
  <2>5. Tail(h[1]) = a
    BY <2>2, <2>3, <2>4
  <2> QED BY <2>5 DEF a
<1>11. \A r \in Seq(S), s \in Seq(S), t \in Seq(S) : r \o (s \o t) = (r \o s) \o t
  BY ConcatAround
<1>7. \A k \in 2..L : Tail(h[k]) = (Tail(h[k-1]) \o <<SP>>) \o Quoted(args[k])
  <2>1. ASSUME NEW k \in 2..L PROVE Tail(h[k]) = (Tail(h[k-1]) \o <<SP>>) \o Quoted(args[k])
    <3> DEFINE a == Quoted(args[k])
               s == h[k-1]
    <3>1. k \in 1..L /\ k - 1 \in 1..L
      BY <1>1
    <3>2. a \in Seq(S) /\ s \in Seq(S) /\ s # <<>> /\ h[k] = s \o (<<SP>> \o a)
      BY <1>2, <1>4, <1>5, <3>1
    <3> HIDE DEF a, s
    <3>3. <<SP>> \o a \in Seq(S)
      BY <1>3, <3>2, ConcatProperties
    <3>4. Tail(h[k]) = Tail(s) \o (<<SP>> \o a) /\ Tail(s) \in Seq(S)
      BY <3>2, <3>3, TailConcat
    <3>5. Tail(s) \o (<<SP>> \o a) = (Tail(s) \o <<SP>>) \o a
      <4> DEFINE v == Tail(s)
                 x == <<SP>>
      <4>1. v \in Seq(S) /\ x \in Seq(S) /\ a \in Seq(S)
        BY <1>3, <3>2, <3>4
      <4> HIDE DEF v, x
      <4>2. v \o (x \o a) = (v \o x) \o a
        BY <1>11, <4>1
      <4> QED BY <4>2 DEF v, x
    <3>6. Tail(h[k]) = (Tail(s) \o <<SP>>) \o a
      BY <3>4, <3>5
    <3> QED BY <3>6 DEF a, s
  <2> QED BY <2>1
<1>8. \A k \in 1..L : Tail(h[k]) \in Seq(S)
  BY <1>5, HeadTailProperties
<1>9. /\ \A k \in 1..L : g[k] = Tail(h[k])
      /\ 1 \in 1..L /\ L \in 1..L /\ \A k \in 2..L : k \in 1..L /\ k - 1 \in 1..L
  BY <1>1
<1> HIDE DEF g
<1>10. \A k \in 2..L : g[k] = (g[k-1] \o <<SP>>) \o Quoted(args[k])
  BY <1>7, <1>9
<1> QED BY <1>2, <1>6, <1>8, <1>9, <1>10

\* A command line that another program writes has the arguments it means.
LEMMA CommandLineReads ==
  ASSUME NEW args \in Seq(Chars), args # <<>>
  PROVE  Documented(CommandLine(args)) = args /\ CommandLine(args) \in Chars
<1> DEFINE L == Len(args)
           E == [k \in 1..L |-> {s \in Chars : /\ Closed(Read(s)) = Ready(SubSeq(args, 1, k))
                                               /\ Read(s).mode # "quoted"}]
<1>1. L \in Nat /\ L >= 1 /\ \A k \in 1..L : args[k] \in Chars
  BY EmptySeq
<1>2. PICK g : /\ g[1] = Quoted(args[1])
               /\ \A k \in 2..L : g[k] = (g[k-1] \o <<SP>>) \o Quoted(args[k])
               /\ \A k \in 1..L : g[k] \in Chars
               /\ CommandLine(args) = g[L]
  <2>1. args \in Seq(Seq(Symbol))
    BY DEF Chars
  <2> QED BY <2>1, Symbols, LineIs DEF Chars
<1>3. /\ \A k \in 1..L : E[k] = {s \in Chars : /\ Closed(Read(s)) = Ready(SubSeq(args, 1, k))
                                               /\ Read(s).mode # "quoted"}
      /\ 1 \in 1..L /\ L \in 1..L /\ \A k \in 2..L : k \in 1..L /\ k - 1 \in 1..L
  BY <1>1
<1> HIDE DEF E
<1>4. \A k \in 1..L : /\ SubSeq(args, 1, k - 1) \in Seq(Chars)
                      /\ SubSeq(args, 1, k) = Append(SubSeq(args, 1, k - 1), args[k])
  BY PrefixMore
<1>5. g[1] \in E[1]
  <2>1. SubSeq(args, 1, 1) = Append(<<>>, args[1]) /\ <<>> \in Seq(Chars)
    <3>1. SubSeq(args, 1, 1) = Append(SubSeq(args, 1, 1 - 1), args[1]) /\ 1 - 1 = 0
      BY <1>3, <1>4
    <3>2. SubSeq(args, 1, 0) = <<>>
      BY PrefixNone
    <3>3. <<>> \in Seq(Chars)
      OBVIOUS
    <3> QED BY <3>1, <3>2, <3>3
  <2>2. Read(<<>>) = Ready(<<>>) /\ <<>> \in Chars
    BY ReadNone, CharsConcat DEF Ready, Fresh
  <2>3. <<>> \o Quoted(args[1]) = Quoted(args[1])
    BY <1>2, <1>3, CharsConcat
  <2>4. /\ Closed(Read(<<>> \o Quoted(args[1]))) = Ready(Append(<<>>, args[1]))
        /\ Read(<<>> \o Quoted(args[1])).mode # "quoted"
    <3> DEFINE n == <<>>
               t == <<>>
    <3>1. n \in Seq(Chars) /\ t \in Chars /\ Read(t) = Ready(n) /\ args[1] \in Chars
      BY <1>1, <1>3, <2>1, <2>2
    <3> HIDE DEF n, t
    <3>2. /\ Closed(Read(t \o Quoted(args[1]))) = Ready(Append(n, args[1]))
          /\ Read(t \o Quoted(args[1])).mode # "quoted"
      BY <3>1, QuotedReads
    <3> QED BY <3>2 DEF n, t
  <2>5. g[1] \in Chars /\ Closed(Read(g[1])) = Ready(SubSeq(args, 1, 1)) /\ Read(g[1]).mode # "quoted"
    BY <1>2, <1>3, <2>1, <2>3, <2>4
  <2>6. E[1] = {s \in Chars : /\ Closed(Read(s)) = Ready(SubSeq(args, 1, 1))
                              /\ Read(s).mode # "quoted"}
    BY <1>3
  <2> QED BY <2>5, <2>6
<1>6. ASSUME NEW k \in 2..L, g[k-1] \in E[k-1] PROVE g[k] \in E[k]
  <2> DEFINE s == g[k-1]
             b == SubSeq(args, 1, k - 1)
             t == s \o <<SP>>
  <2>1. s \in Chars /\ Closed(Read(s)) = Ready(b) /\ Read(s).mode # "quoted" /\ b \in Seq(Chars)
        /\ k \in 1..L
    BY <1>3, <1>4, <1>6
  <2>2. SubSeq(args, 1, k) = Append(b, args[k]) /\ args[k] \in Chars /\ g[k] = t \o Quoted(args[k])
        /\ g[k] \in Chars
    BY <1>1, <1>2, <1>4, <2>1
  <2> HIDE DEF s, b
  <2>3. t = Append(s, SP) /\ t \in Chars
    BY <2>1, Symbols, CharsAppend
  <2>4. Read(t) = Step(Read(s), SP)
    BY <2>1, <2>3, Symbols, ReadMore
  <2>5. Read(t) = Ready(b)
    BY <2>1, <2>4, StepRules
  <2> HIDE DEF t
  <2>6. /\ Closed(Read(t \o Quoted(args[k]))) = Ready(Append(b, args[k]))
        /\ Read(t \o Quoted(args[k])).mode # "quoted"
    BY <2>1, <2>2, <2>3, <2>5, QuotedReads
  <2> QED BY <1>3, <2>1, <2>2, <2>6
<1>7. g[L] \in E[L]
  <2>1. \A k \in 1+1..L : g[k-1] \in E[k-1] => g[k] \in E[k]
    BY <1>6
  <2> QED BY <1>1, <1>5, <2>1, Along
<1>8. SubSeq(args, 1, L) = args
  BY SubSeqFull
<1>9. Closed(Read(CommandLine(args))) = Ready(args) /\ CommandLine(args) \in Chars
  BY <1>2, <1>3, <1>7, <1>8
<1> QED BY <1>9, ReadingFields DEF Documented, Ready

LEMMA CommandLineType ==
  ASSUME NEW S, BS \in S, DQ \in S, SP \in S, NEW args \in Seq(Seq(S)), args # <<>>
  PROVE  CommandLine(args) \in Seq(S)
<1>1. Len(args) \in 1..Len(args)
  BY EmptySeq
<1>2. PICK g : /\ \A k \in 1..Len(args) : g[k] \in Seq(S)
               /\ CommandLine(args) = g[Len(args)]
  BY LineIs
<1> QED BY <1>1, <1>2

-----------------------------------------------------------------------------
(* ParsesAsDocumented.                                                     *)

LEMMA Retype ==
  ASSUME NEW S, NEW T, NEW s \in Seq(S), \A i \in 1..Len(s) : s[i] \in T
  PROVE  s \in Seq(T)
<1>1. Len(s) \in Nat /\ s = [i \in 1..Len(s) |-> s[i]]
  OBVIOUS
<1> QED BY <1>1

\* The arguments that are meant, and what they are made of.
LEMMA MeantType ==
  ASSUME NEW a \in Arguments
  PROVE  a # <<>> /\ a \in Seq(Chars) /\ a \in Seq(Seq(Symbol \ {"NUL"}))
<1> DEFINE T == Symbol \ {"NUL"}
<1>1. a \in Seq(Seq(STRING)) /\ a # <<>>
      /\ \A i \in DOMAIN a : \A k \in DOMAIN a[i] : a[i][k] # "NUL"
  BY LauncherAssumption
<1>2. ASSUME NEW i \in 1..Len(a) PROVE a[i] \in Seq(T) /\ a[i] \in Seq(Symbol)
  <2>1. a[i] \in Seq(STRING) /\ \A k \in 1..Len(a[i]) : a[i][k] # "NUL"
    BY <1>1
  <2>2. \A k \in 1..Len(a[i]) : a[i][k] \in T /\ a[i][k] \in Symbol
    BY <2>1 DEF Symbol
  <2> HIDE DEF T
  <2> QED BY <2>1, <2>2, Retype
<1> HIDE DEF T
<1>3. a \in Seq(Seq(T))
  BY <1>1, <1>2, Retype
<1>4. a \in Seq(Seq(Symbol))
  BY <1>1, <1>2, Retype
<1> QED BY <1>1, <1>3, <1>4 DEF Chars, T

LEMMA InitLine ==
  ASSUME Init
  PROVE  LineOK
<1>1. CASE build = "win" /\ sent = Anything /\ cmdLine \in Lines
  <2>1. cmdLine \in Seq(STRING) /\ (\A i \in DOMAIN cmdLine : cmdLine[i] # "NUL")
        /\ \E i \in DOMAIN cmdLine : cmdLine[i] # "SP"
    BY <1>1, LauncherAssumption
  <2>2. \A i \in 1..Len(cmdLine) : cmdLine[i] \in Symbol
    BY <2>1 DEF Symbol
  <2>3. cmdLine \in Chars
    BY <2>1, <2>2, Retype DEF Chars
  <2> QED BY <1>1, <2>1, <2>3 DEF LineOK, SP
<1>2. CASE build = "win" /\ sent \in Arguments /\ cmdLine = CommandLine(sent)
  <2> DEFINE T == Symbol \ {"NUL"}
  <2>1. sent # <<>> /\ sent \in Seq(Chars) /\ sent \in Seq(Seq(T)) /\ BS \in T /\ DQ \in T /\ SP \in T
    BY <1>2, MeantType, Symbols
  <2>2. cmdLine \in Chars /\ Documented(cmdLine) = sent
    BY <1>2, <2>1, CommandLineReads
  <2>3. \A i \in DOMAIN cmdLine : cmdLine[i] # "NUL"
    <3>1. \A i \in DOMAIN cmdLine : cmdLine[i] \in T
      <4> HIDE DEF T
      <4>1. cmdLine \in Seq(T)
        BY <1>2, <2>1, CommandLineType
      <4> QED BY <4>1
    <3> QED BY <3>1
  <2>4. \E i \in DOMAIN cmdLine : cmdLine[i] # SP
    <3>1. SUFFICES ASSUME \A i \in DOMAIN cmdLine : cmdLine[i] = SP PROVE FALSE
      OBVIOUS
    <3>2. \A i \in 1..Len(cmdLine) : cmdLine[i] = SP
      BY <2>2, <3>1 DEF Chars
    <3> QED BY <2>1, <2>2, <3>2, BlankRead
  <2> QED BY <2>1, <2>2, <2>3, <2>4 DEF LineOK
<1>3. CASE build = "native" /\ sent \in Arguments /\ cmdLine = <<>>
  <2>1. sent # <<>> /\ sent \in Seq(Chars)
    BY <1>3, MeantType
  <2>2. <<>> \in Chars /\ DOMAIN <<>> = {}
    BY CharsConcat
  <2> QED BY <1>3, <2>1, <2>2 DEF LineOK
<1> QED BY <1>1, <1>2, <1>3 DEF Init

LEMMA ParseInit ==
  ASSUME Init
  PROVE  ParseInv
<1>1. LineOK /\ Len(cmdLine) \in Nat
  BY InitLine, LineType
<1>2. /\ build \in {"win", "native"} /\ pc = IF build = "win" THEN "args" ELSE "hook"
      /\ argv = IF build = "win" THEN <<>> ELSE sent
      /\ p = 1 /\ arg = <<>> /\ inquote = FALSE /\ used = 0
  BY DEF Init
<1>3. <<>> \in Chars /\ <<>> \in Seq(Chars)
  BY CharsConcat
<1>4. ScanType
  <2>1. p \in 1..Len(cmdLine) + 1 /\ inquote \in BOOLEAN /\ used \in Nat /\ arg \in Chars
    <3>1. 1 \in 1..Len(cmdLine) + 1
      BY <1>1
    <3>2. FALSE \in BOOLEAN /\ 0 \in Nat
      OBVIOUS
    <3> QED BY <1>2, <1>3, <3>1, <3>2
  <2>2. pc \in {"args", "arg", "main"} => build = "win" /\ argv \in Seq(Chars)
    BY <1>2, <1>3
  <2> QED BY <2>1, <2>2 DEF ScanType
<1> QED BY <1>1, <1>2, <1>4 DEF ParseInv, Between

\* What comes after setargv leaves its variables alone.
LEMMA AfterParses ==
  ASSUME ParseInv, pc \notin {"args", "arg"}, pc' \notin {"args", "arg", "main"},
         UNCHANGED <<scan, build, sent>>
  PROVE  ParseInv'
<1>1. LineOK /\ ScanType /\ arg = <<>> /\ used <= Len(cmdLine) + 1
  BY DEF ParseInv
<1>2. cmdLine' = cmdLine /\ p' = p /\ arg' = arg /\ inquote' = inquote /\ used' = used
      /\ build' = build /\ sent' = sent
  BY DEF scan
<1>3. LineOK'
  BY <1>1, <1>2 DEF LineOK
<1>4. ScanType'
  BY <1>1, <1>2 DEF ScanType
<1> QED BY <1>1, <1>2, <1>3, <1>4 DEF ParseInv

LEMMA ParseStep ==
  ASSUME ParseInv, [Next]_vars
  PROVE  ParseInv'
<1>1. CASE NextArg
  BY <1>1, NextArgParses
<1>2. CASE NextChar
  BY <1>2, NextCharParses
<1>3. CASE Main
  BY <1>3, AfterParses DEF Main
<1>4. CASE fixup_argv
  BY <1>4, AfterParses DEF fixup_argv
<1>5. CASE Tcl_AppInit
  BY <1>5, AfterParses DEF Tcl_AppInit
<1>6. CASE UNCHANGED vars
  BY <1>6 DEF vars, ParseInv, LineOK, ScanType, Between, Within, At, Paid, Starts
<1> QED BY <1>1, <1>2, <1>3, <1>4, <1>5, <1>6 DEF Next

LEMMA ParseMeans ==
  ASSUME ParseInv
  PROVE  ParsesAsDocumented
<1>1. LineOK /\ ScanType /\ Len(cmdLine) \in Nat
  BY LineType DEF ParseInv
<1>2. p \in Nat /\ p <= Len(cmdLine) + 1 /\ used \in Nat /\ Len(arg) \in Nat
      /\ (arg = <<>> => Len(arg) = 0)
  BY <1>1 DEF ScanType, Chars
<1>3. used + Len(arg) <= Len(cmdLine) + 1
  <2>1. CASE pc = "args"
    BY <1>2, <2>1 DEF ParseInv, Between
  <2>2. CASE pc = "arg"
    BY <1>2, <2>2 DEF ParseInv, Within
  <2>3. CASE pc \notin {"args", "arg"}
    BY <1>2, <2>3 DEF ParseInv
  <2> QED BY <2>1, <2>2, <2>3
<1>4. pc = "main" => argv = Documented(cmdLine) /\ (sent = Anything \/ argv = sent)
  BY <1>1 DEF ParseInv, ScanType, LineOK
<1> QED BY <1>3, <1>4 DEF ParsesAsDocumented

LEMMA ParseAlways == Spec => []ParseInv
<1>1. Init => ParseInv
  BY ParseInit
<1>2. ParseInv /\ [Next]_vars => ParseInv'
  BY ParseStep
<1> QED BY <1>1, <1>2, PTL DEF Spec

\* Whatever the command line, setargv gives the arguments that the comment
\* before it describes, and those that were meant where another program
\* wrote the line; no argument is lost to a guess that was too low, and no
\* character is written past the block.
THEOREM ParsesAsDocumentedHolds == Spec => []ParsesAsDocumented
<1>1. ParseInv => ParsesAsDocumented
  BY ParseMeans
<1> QED BY <1>1, ParseAlways, PTL

-----------------------------------------------------------------------------
(* StartsItsScript.                                                        *)

Told(args) == sent = Anything \/ args = Tail(sent)

RunsBeside ==
  exe.dir # <<>> /\ Len(exe.dir) + Len(exe.name) + 1 < MaxPath =>
    /\ argv[2] = Slashes(exe.dir) \o Script
    /\ library \in {Slashes(exe.dir) \o TclLib, <<>>}

StartInv ==
  /\ pc = "hook" => argv \in Seq(Chars) /\ argv # <<>> /\ Told(Tail(argv))
  /\ pc \in {"init", "running"} => Told(Tail(Tail(argv))) /\ RunsBeside
  /\ inited \subseteq Range(Packages)
  /\ pc = "running" => Range(Packages) \subseteq inited

\* The script is the second argument, and the others come after it.
LEMMA ScriptSecond ==
  ASSUME NEW args \in Seq(Chars), args # <<>>, NEW s
  PROVE  WithScript(args, s)[2] = s /\ Tail(Tail(WithScript(args, s))) = Tail(args)
<1> DEFINE S == Chars \cup {args[1], s}
           h == <<args[1], s>>
           t == Tail(args)
<1>1. h \in Seq(S) /\ Len(h) = 2 /\ h[2] = s /\ Tail(h) = <<s>> /\ h # <<>>
      /\ <<s>> \in Seq(S) /\ Tail(<<s>>) = <<>> /\ <<s>> # <<>>
  OBVIOUS
<1>2. t \in Seq(S)
  <2>1. t \in Seq(Chars)
    BY HeadTailProperties
  <2>2. \A i \in 1..Len(t) : t[i] \in S
    <3> HIDE DEF t
    <3> QED BY <2>1
  <2> HIDE DEF t, S
  <2> QED BY <2>1, <2>2, Retype
<1> HIDE DEF S, h, t
<1>3. (h \o t)[2] = s
  <2>1. \A i \in 1..Len(h) + Len(t) : (h \o t)[i] = IF i <= Len(h) THEN h[i] ELSE t[i - Len(h)]
    BY <1>1, <1>2, ConcatProperties
  <2>2. Len(t) \in Nat
    BY <1>2
  <2> QED BY <1>1, <2>1, <2>2
<1>4. Tail(h \o t) = <<s>> \o t
  <2>1. Tail(h \o t) = Tail(h) \o t
    BY <1>1, <1>2, TailConcat
  <2> QED BY <1>1, <2>1
<1>5. Tail(<<s>> \o t) = <<>> \o t /\ <<>> \o t = t
  BY <1>1, <1>2, TailConcat, ConcatEmptySeq
<1> QED BY <1>3, <1>4, <1>5 DEF WithScript, h, t

\* What is left of a path when the name at its end is removed.
LEMMA NameRemoved ==
  ASSUME NEW S, SL \in S, BS \in S, NEW d \in Seq(S), NEW sep \in {SL, BS}, NEW x \in Seq(S),
         d # <<>>, x # <<>>, \A i \in 1..Len(x) : x[i] \notin {SL, BS}
  PROVE  MyRemoveFileSpec(d \o <<sep>> \o x) = Slashes(d)
<1> DEFINE n == Len(d)
           m == Len(x)
           L == n + 1 + m
           v == <<sep>>
           u == d \o v
           s == u \o x
           t == [i \in DOMAIN s |-> IF i < Len(s) /\ s[i] = BS THEN SL ELSE s[i]]
           ends == {i \in 2..Len(t) : t[i] = SL}
           a == SubSeq(t, 1, n)
           b == Slashes(d)
<1>1. n \in Nat /\ m \in Nat /\ n >= 1 /\ m >= 1 /\ L \in Nat
  BY EmptySeq
<1>2. v \in Seq(S) /\ Len(v) = 1 /\ v[1] = sep /\ \A i \in 1..n : d[i] \in S
  OBVIOUS
<1> HIDE DEF v
<1>3. /\ u \in Seq(S) /\ Len(u) = n + 1
      /\ \A i \in 1..n+1 : u[i] = IF i <= n THEN d[i] ELSE v[i - n]
  <2>1. /\ d \o v \in Seq(S) /\ Len(d \o v) = Len(d) + Len(v)
        /\ \A i \in 1..Len(d)+Len(v) : (d \o v)[i] = IF i <= Len(d) THEN d[i] ELSE v[i - Len(d)]
    BY <1>2, ConcatProperties
  <2> QED BY <1>2, <2>1
<1> HIDE DEF u
<1>4. /\ s \in Seq(S) /\ Len(s) = L
      /\ \A i \in 1..L : s[i] = IF i <= n + 1 THEN u[i] ELSE x[i - (n + 1)]
  <2>1. /\ u \o x \in Seq(S) /\ Len(u \o x) = Len(u) + Len(x)
        /\ \A i \in 1..Len(u)+Len(x) : (u \o x)[i] = IF i <= Len(u) THEN u[i] ELSE x[i - Len(u)]
    BY <1>3, ConcatProperties
  <2> QED BY <1>3, <2>1
<1> HIDE DEF s
<1>5. DOMAIN s = 1..L
  BY <1>4
<1>6. /\ t \in Seq(S) /\ Len(t) = L
      /\ \A i \in 1..L : t[i] = IF i < L /\ s[i] = BS THEN SL ELSE s[i]
  <2>1. \A i \in 1..L : s[i] \in S
    BY <1>4, <1>5
  <2>2. t = [i \in 1..L |-> IF i < L /\ s[i] = BS THEN SL ELSE s[i]]
    BY <1>4, <1>5
  <2> HIDE DEF t, L
  <2> QED BY <1>1, <2>1, <2>2
<1> HIDE DEF t, n, m
<1>7. t[n + 1] = SL
  <2>1. n + 1 \in 1..L /\ n + 1 < L /\ n + 1 \in 1..n+1 /\ ~(n + 1 <= n) /\ (n + 1) - n = 1
    BY <1>1
  <2> QED BY <1>2, <1>3, <1>4, <1>6, <2>1
<1>8. ASSUME NEW i \in 2..L, t[i] = SL PROVE i <= n + 1
  <2>1. SUFFICES ASSUME ~(i <= n + 1) PROVE FALSE
    OBVIOUS
  <2>2. i \in 1..L /\ i - (n + 1) \in 1..m
    BY <1>1, <2>1
  <2>3. s[i] = x[i - (n + 1)]
    BY <1>4, <2>1, <2>2
  <2>4. x[i - (n + 1)] \notin {SL, BS}
    BY <2>2 DEF m
  <2> QED BY <1>6, <1>8, <2>2, <2>3, <2>4
<1>9. Max(ends) = n + 1 /\ ends # {}
  <2>1. n + 1 \in 2..L /\ \A i \in 2..L : i \in 1..L
    BY <1>1
  <2>2. n + 1 \in ends /\ ends \in SUBSET (1..L) /\ \A i \in ends : i <= n + 1
    BY <1>6, <1>7, <1>8, <2>1
  <2> HIDE DEF ends, L
  <2> QED BY <1>1, <2>2, MaxOf
<1>10. MyRemoveFileSpec(s) = a
  <2>1. MyRemoveFileSpec(s) = IF ends = {} THEN t ELSE SubSeq(t, 1, Max(ends) - 1)
    BY DEF MyRemoveFileSpec, t
  <2>2. (n + 1) - 1 = n
    BY <1>1
  <2> HIDE DEF ends
  <2> QED BY <1>9, <2>1, <2>2
<1>11. \A i \in 1..n : t[i] = (IF d[i] = BS THEN SL ELSE d[i]) /\ t[i] \in S
  <2>1. \A i \in 1..n : i \in 1..L /\ i < L /\ i \in 1..n+1 /\ i <= n /\ i <= n + 1
    BY <1>1
  <2> QED BY <1>2, <1>3, <1>4, <1>6, <2>1
<1>12. a \in Seq(S) /\ Len(a) = n /\ \A i \in 1..n : a[i] = t[i]
  <2>1. 1 \in Int /\ n \in Int /\ 1 <= n
    BY <1>1
  <2>2. /\ SubSeq(t, 1, n) \in Seq(S) /\ Len(SubSeq(t, 1, n)) = n - 1 + 1
        /\ \A i \in 1..n-1+1 : SubSeq(t, 1, n)[i] = t[1+i-1]
    BY <1>11, <2>1, SubSeqProperties
  <2> QED BY <1>1, <2>2
<1>13. b \in Seq(S) /\ Len(b) = n /\ \A i \in 1..n : b[i] = IF d[i] = BS THEN SL ELSE d[i]
  <2>1. b = [i \in 1..n |-> IF d[i] = BS THEN SL ELSE d[i]]
    BY DEF Slashes, n
  <2> HIDE DEF b
  <2> QED BY <1>1, <1>2, <2>1
<1> HIDE DEF a, b
<1>14. a = b
  BY <1>11, <1>12, <1>13, SeqEqual
<1> QED BY <1>10, <1>14 DEF a, b, s, u, v

\* The directory of an executable whose path is not too long, in forward slashes.
LEMMA DirectoryOf ==
  ASSUME NEW e \in Exes, e.dir # <<>>, Len(e.dir) + Len(e.name) + 1 < MaxPath
  PROVE  MyRemoveFileSpec(PathRead(e)) = Slashes(e.dir)
<1> DEFINE S == STRING \cup {SL, BS}
           d == e.dir
           x == e.name
           v == <<e.sep>>
           s == d \o v \o x
<1>1. /\ d \in Seq(STRING) /\ e.sep \in {SL, BS} /\ x \in Seq(STRING) /\ x # <<>> /\ d # <<>>
      /\ \A i \in 1..Len(x) : x[i] \notin {SL, BS}
      /\ MaxPath \in Nat
  BY LauncherAssumption DEF SL, BS
<1>2. d \in Seq(S) /\ x \in Seq(S) /\ v \in Seq(S) /\ SL \in S /\ BS \in S
  <2>1. (\A i \in 1..Len(d) : d[i] \in S) /\ \A i \in 1..Len(x) : x[i] \in S
    BY <1>1
  <2>2. d \in Seq(S) /\ x \in Seq(S)
    <3> HIDE DEF S, d, x
    <3> QED BY <1>1, <2>1, Retype
  <2> QED BY <1>1, <2>2
<1> HIDE DEF S
<1>3. MyRemoveFileSpec(s) = Slashes(d)
  <2> HIDE DEF d, x
  <2> QED BY <1>1, <1>2, NameRemoved
<1>4. s \in Seq(S) /\ Len(s) = Len(d) + 1 + Len(x) /\ Len(d) \in Nat /\ Len(x) \in Nat
  <2>1. Len(v) = 1
    OBVIOUS
  <2> HIDE DEF d, x, v
  <2>2. d \o v \in Seq(S) /\ Len(d \o v) = Len(d) + Len(v)
    BY <1>2, ConcatProperties
  <2>3. s \in Seq(S) /\ Len(s) = Len(d \o v) + Len(x)
    BY <1>2, <2>2, ConcatProperties
  <2> QED BY <1>2, <2>1, <2>2, <2>3
<1>5. Len(s) < MaxPath
  <2>1. Len(d) + Len(x) + 1 < MaxPath
    OBVIOUS
  <2> HIDE DEF s, d, x
  <2> QED BY <1>1, <1>4, <2>1
<1>6. SubSeq(s, 1, Len(s)) = s
  <2> HIDE DEF s
  <2> QED BY <1>4, SubSeqFull
<1>7. PathRead(e) = s
  BY <1>5, <1>6 DEF PathRead
<1> QED BY <1>3, <1>7

\* The next package that is not initialised is one of the packages.
LEMMA PackageOf ==
  /\ Pending # {} => Package \in Range(Packages)
  /\ Pending = {} => Range(Packages) \subseteq inited
<1>1. DOMAIN Packages \subseteq Nat
  BY DEF Packages
<1>2. Pending # {} => Min(Pending) \in DOMAIN Packages
  <2>1. Pending \subseteq Nat /\ Pending \subseteq DOMAIN Packages
    BY <1>1 DEF Pending
  <2> QED BY <2>1, MinOf
<1> QED BY <1>2 DEF Package, Pending, Range

LEMMA StartInit ==
  ASSUME Init
  PROVE  StartInv
<1>1. build = "native" => sent \in Arguments /\ argv = sent
  BY DEF Init
<1>2. sent \in Arguments => sent # <<>> /\ sent \in Seq(Chars)
  BY MeantType
<1> QED BY <1>1, <1>2 DEF Init, StartInv, Told

LEMMA MainStarts ==
  ASSUME ParseInv, StartInv, Main
  PROVE  StartInv'
<1>1. argv \in Seq(Chars) /\ argv # <<>> /\ (sent = Anything \/ argv = sent) /\ pc = "main"
  <2>1. pc = "main" /\ ParsesAsDocumented
    BY ParseMeans DEF Main
  <2> QED BY <2>1 DEF ParseInv, ScanType, ParsesAsDocumented
<1> DEFINE x == Slashes(argv[1])
<1>2. x \in Chars /\ 1 \in 1..Len(argv)
  <2>1. 1 \in 1..Len(argv)
    BY <1>1, EmptySeq
  <2>2. argv[1] \in Seq(Symbol)
    BY <1>1, <2>1 DEF Chars
  <2>3. x \in Seq(Symbol)
    BY <2>2, Symbols DEF Slashes
  <2> QED BY <2>1, <2>3 DEF Chars
<1> HIDE DEF x
<1>3. argv' = [argv EXCEPT ![1] = x] /\ pc' = "hook" /\ sent' = sent /\ inited' = inited /\ build' = build
  BY DEF Main, x
<1>4. /\ argv' \in Seq(Chars) /\ Len(argv') = Len(argv)
      /\ \A j \in 1..Len(argv) : j # 1 => argv'[j] = argv[j]
  BY <1>1, <1>2, <1>3, ExceptSeq
<1>5. argv' # <<>>
  BY <1>1, <1>4, EmptySeq
<1>6. Tail(argv') = Tail(argv)
  <2> DEFINE a == argv'
             b == argv
  <2>1. a \in Seq(Chars) /\ b \in Seq(Chars) /\ a # <<>> /\ b # <<>> /\ Len(a) = Len(b)
        /\ \A j \in 1..Len(b) : j # 1 => a[j] = b[j]
    BY <1>1, <1>4, <1>5
  <2> HIDE DEF a, b
  <2>2. /\ Tail(a) \in Seq(Chars) /\ Len(Tail(a)) = Len(a) - 1
        /\ \A i \in 1..Len(a) - 1 : Tail(a)[i] = a[i+1]
    BY <2>1, HeadTailProperties
  <2>3. /\ Tail(b) \in Seq(Chars) /\ Len(Tail(b)) = Len(b) - 1
        /\ \A i \in 1..Len(b) - 1 : Tail(b)[i] = b[i+1]
    BY <2>1, HeadTailProperties
  <2>4. \A i \in 1..Len(b) - 1 : Tail(a)[i] = Tail(b)[i]
    <3>1. \A i \in 1..Len(b) - 1 : i + 1 \in 1..Len(b) /\ i + 1 # 1
      BY <2>1
    <3> QED BY <2>1, <2>2, <2>3, <3>1
  <2>5. Tail(a) = Tail(b)
    BY <2>1, <2>2, <2>3, <2>4, SeqEqual
  <2> QED BY <2>5 DEF a, b
<1>7. Packages' = Packages
  BY <1>3 DEF Packages
<1> QED BY <1>1, <1>3, <1>4, <1>5, <1>6, <1>7 DEF StartInv, Told

LEMMA FixupStarts ==
  ASSUME StartInv, fixup_argv
  PROVE  StartInv'
<1>1. pc = "hook" /\ pc' = "init" /\ build' = build /\ sent' = sent /\ inited' = inited
  BY DEF fixup_argv
<1>2. argv \in Seq(Chars) /\ argv # <<>> /\ Told(Tail(argv))
  BY <1>1 DEF StartInv
<1>3. PICK e \in Exes \cup {Unknown}, linux \in BOOLEAN :
        /\ LET dir == IF e # Unknown THEN MyRemoveFileSpec(PathRead(e))
                     ELSE IF build = "native" THEN <<".">> ELSE <<>>
           IN  /\ argv' = WithScript(argv, dir \o Script)
               /\ library' = IF linux THEN <<>> ELSE dir \o TclLib
        /\ exe' = e
  BY DEF fixup_argv
<1> DEFINE dir == IF e # Unknown THEN MyRemoveFileSpec(PathRead(e))
                  ELSE IF build = "native" THEN <<".">> ELSE <<>>
           s == dir \o Script
<1>4. argv' = WithScript(argv, s) /\ library' \in {<<>>, dir \o TclLib} /\ exe' = e
  BY <1>3
<1>5. argv'[2] = s /\ Tail(Tail(argv')) = Tail(argv)
  <2> HIDE DEF s
  <2> QED BY <1>2, <1>4, ScriptSecond
<1>6. RunsBeside'
  <2>1. SUFFICES ASSUME e.dir # <<>>, Len(e.dir) + Len(e.name) + 1 < MaxPath
                 PROVE  argv'[2] = Slashes(e.dir) \o Script
                        /\ library' \in {Slashes(e.dir) \o TclLib, <<>>}
    BY <1>4 DEF RunsBeside
  <2>2. e # Unknown /\ e \in Exes
    <3>1. Unknown.dir = <<>>
      BY DEF Unknown
    <3> QED BY <2>1, <3>1
  <2>3. dir = Slashes(e.dir)
    <3>1. dir = MyRemoveFileSpec(PathRead(e))
      BY <2>2
    <3> QED BY <2>1, <2>2, <3>1, DirectoryOf
  <2> HIDE DEF dir
  <2> QED BY <1>4, <1>5, <2>3
<1>7. Told(Tail(Tail(argv)))' <=> (sent = Anything \/ Tail(Tail(argv')) = Tail(sent))
  BY <1>1 DEF Told
<1>8. Packages' = Packages
  BY <1>1 DEF Packages
<1> QED BY <1>1, <1>2, <1>5, <1>6, <1>7, <1>8 DEF StartInv, Told

LEMMA AppInitStarts ==
  ASSUME StartInv, Tcl_AppInit
  PROVE  StartInv'
<1>1. /\ pc = "init" /\ build' = build /\ sent' = sent /\ argv' = argv /\ exe' = exe
      /\ library' = library /\ pc' \in {"init", "error", "running"}
  BY DEF Tcl_AppInit
<1>2. Packages' = Packages
  BY <1>1 DEF Packages
<1>3. Told(Tail(Tail(argv))) /\ RunsBeside /\ inited \subseteq Range(Packages)
  BY <1>1 DEF StartInv
<1>4. Told(Tail(Tail(argv)))' /\ RunsBeside'
  BY <1>1, <1>3 DEF Told, RunsBeside
<1>5. inited' \subseteq Range(Packages)
  BY <1>3, PackageOf DEF Tcl_AppInit
<1>6. pc' = "running" => Range(Packages) \subseteq inited'
  BY PackageOf DEF Tcl_AppInit
<1> QED BY <1>1, <1>2, <1>4, <1>5, <1>6 DEF StartInv

LEMMA StartStep ==
  ASSUME ParseInv, StartInv, [Next]_vars
  PROVE  StartInv'
<1>1. CASE NextArg
  <2>1. pc' \in {"arg", "main"} /\ build' = build /\ inited' = inited
    BY <1>1 DEF NextArg
  <2> QED BY <2>1 DEF StartInv, Packages
<1>2. CASE NextChar
  <2>1. pc' \in {"arg", "args"} /\ build' = build /\ inited' = inited
    BY <1>2 DEF NextChar
  <2> QED BY <2>1 DEF StartInv, Packages
<1>3. CASE Main
  BY <1>3, MainStarts
<1>4. CASE fixup_argv
  BY <1>4, FixupStarts
<1>5. CASE Tcl_AppInit
  BY <1>5, AppInitStarts
<1>6. CASE UNCHANGED vars
  BY <1>6 DEF vars, StartInv, Told, RunsBeside, Packages
<1> QED BY <1>1, <1>2, <1>3, <1>4, <1>5, <1>6 DEF Next

\* Once the interpreter runs, it runs the script beside the executable with
\* the arguments that were meant, and every package is initialised.
THEOREM StartsItsScriptHolds == Spec => []StartsItsScript
<1>1. Init => StartInv
  BY StartInit
<1>2. ParseInv /\ StartInv /\ [Next]_vars => StartInv'
  BY StartStep
<1>3. StartInv => StartsItsScript
  BY DEF StartInv, StartsItsScript, Told, RunsBeside
<1> QED BY <1>1, <1>2, <1>3, ParseAlways, PTL DEF Spec
=============================================================================
