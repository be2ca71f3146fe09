----------------------------- MODULE TermProofs -----------------------------
(***************************************************************************)
(* Proofs about the terminal screen: what the operators on the lines of    *)
(* the text widget return, the type invariant, which bytes may take the    *)
(* cursor off the screen, change the frame or end the terminal, and that   *)
(* the three phases of term_insert print what typing would.                *)
(***************************************************************************)
EXTENDS TermScreen, Inductions, SequenceTheorems

Line  == Seq(Chars)
Lines == Seq(Line)

\* The frame of the screen, of lines ls with r rows of c columns.
FrameOf(ls, r, c) ==
  /\ Len(ls) = r + 1
  /\ \A i \in 1 .. r : Len(ls[i]) = c
  /\ ls[r + 1] = <<>>

LEMMA Repeated ==
  ASSUME NEW S, NEW e \in S, NEW n \in Int
  PROVE  LET f == [k \in 1 .. n |-> e] IN
         /\ f \in Seq(S) /\ Len(f) = IF n > 0 THEN n ELSE 0
         /\ \A k \in 1 .. n : f[k] = e
<1> DEFINE f == [k \in 1 .. n |-> e]
<1>1. f \in [1 .. n -> S] /\ \A k \in 1 .. n : f[k] = e
  OBVIOUS
<1>2. 1 .. n = 1 .. IF n > 0 THEN n ELSE 0
  OBVIOUS
<1> HIDE DEF f
<1>3. f \in Seq(S) /\ Len(f) = IF n > 0 THEN n ELSE 0
  BY <1>1, <1>2
<1>4. QED BY <1>1, <1>3 DEF f

LEMMA ThreeParts ==
  ASSUME NEW S, NEW a \in Seq(S), NEW b \in Seq(S), NEW c \in Seq(S)
  PROVE  (a \o b) \o c \in Seq(S) /\ Len((a \o b) \o c) = Len(a) + Len(b) + Len(c)
<1>1. a \o b \in Seq(S) /\ Len(a \o b) = Len(a) + Len(b)
  BY ConcatProperties
<1> DEFINE ab == a \o b
<1> HIDE DEF ab
<1>2. ab \o c \in Seq(S) /\ Len(ab \o c) = Len(ab) + Len(c)
  BY <1>1, ConcatProperties DEF ab
<1>3. QED BY <1>1, <1>2 DEF ab

LEMMA Part ==
  ASSUME NEW S, NEW s \in Seq(S), NEW m \in 1 .. Len(s) + 1, NEW n \in 0 .. Len(s)
  PROVE  /\ SubSeq(s, m, n) \in Seq(S)
         /\ Len(SubSeq(s, m, n)) = IF m <= n THEN n - m + 1 ELSE 0
  BY SubSeqProperties

LEMMA Replaced ==
  ASSUME NEW S, NEW s \in Seq(S), NEW i \in 1 .. Len(s), NEW e \in S
  PROVE  LET t == [s EXCEPT ![i] = e] IN
         /\ t \in Seq(S) /\ Len(t) = Len(s) /\ t[i] = e
         /\ \A j \in 1 .. Len(s) : j # i => t[j] = s[j]
  BY ExceptSeq

LEMMA BlankLine ==
  ASSUME NEW n \in Int
  PROVE  Blank(n) \in Line /\ Len(Blank(n)) = IF n > 0 THEN n ELSE 0
<1>1. " " \in Chars
  BY DEF Chars
<1>2. QED BY <1>1, Repeated DEF Blank, Line

LEMMA BlankLines ==
  ASSUME NEW n \in Int, NEW c \in Int
  PROVE  Blanks(n, c) \in Lines /\ Len(Blanks(n, c)) = IF n > 0 THEN n ELSE 0
  BY BlankLine, Repeated DEF Blanks, Lines

LEMMA ScreenFrame ==
  ASSUME NEW r \in Nat, NEW c \in Nat
  PROVE  Screen(r, c) \in Lines /\ FrameOf(Screen(r, c), r, c)
<1>1. Blank(c) \in Line /\ Len(Blank(c)) = c /\ <<>> \in Line
  BY BlankLine, EmptySeq DEF Line
<1>2. Screen(r, c) \in [1 .. r + 1 -> Line]
  BY <1>1 DEF Screen
<1>3. Screen(r, c) \in Lines /\ Len(Screen(r, c)) = r + 1
  BY <1>2 DEF Lines
<1>4. QED BY <1>1, <1>3 DEF Screen, FrameOf

\* Overwriting changes the text of one line and no number of lines.
LEMMA OverwriteLines ==
  ASSUME NEW ls \in Lines, Len(ls) > 0, NEW r \in Int, NEW c \in Int, NEW e \in Int,
         NEW s \in Line
  PROVE  Overwrite(ls, r, c, e, s) \in Lines /\ Len(Overwrite(ls, r, c, e, s)) = Len(ls)
<1>0. Len(ls) \in Nat /\ \A i \in 1 .. Len(ls) : ls[i] \in Line
  BY DEF Lines
<1>1. CASE r < 1
  <2> DEFINE new == s \o ls[1]
  <2>1. new \in Line
    BY <1>0, ConcatProperties DEF Line
  <2>2. Overwrite(ls, r, c, e, s) = [ls EXCEPT ![1] = new]
    BY <1>1 DEF Overwrite
  <2> HIDE DEF new
  <2>3. QED BY <1>0, <2>1, <2>2, Replaced DEF Lines
<1>2. CASE r > Len(ls)
  <2> DEFINE new == ls[Len(ls)] \o s
  <2>1. new \in Line
    BY <1>0, ConcatProperties DEF Line
  <2>2. Overwrite(ls, r, c, e, s) = [ls EXCEPT ![Len(ls)] = new]
    BY <1>0, <1>2 DEF Overwrite
  <2> HIDE DEF new
  <2>3. QED BY <1>0, <2>1, <2>2, Replaced DEF Lines
<1>3. CASE r \in 1 .. Len(ls)
  <2> DEFINE l == ls[r]
             from == Clamp(c, 0, Len(l))
             to   == Clamp(e, from, Len(l))
             new  == SubSeq(l, 1, from) \o s \o SubSeq(l, to + 1, Len(l))
  <2>0. Overwrite(ls, r, c, e, s) = [ls EXCEPT ![r] = new]
    BY <1>3 DEF Overwrite
  <2>1. l \in Seq(Chars) /\ Len(l) \in Nat /\ s \in Seq(Chars)
    BY <1>0, <1>3 DEF Line
  <2> HIDE DEF l
  <2>2. from \in 0 .. Len(l)
    BY <2>1 DEF Clamp
  <2> HIDE DEF from
  <2>3. to \in from .. Len(l)
    BY <2>1, <2>2 DEF Clamp
  <2> HIDE DEF to
  <2> DEFINE before == SubSeq(l, 1, from)
             after  == SubSeq(l, to + 1, Len(l))
  <2>4. before \in Seq(Chars) /\ after \in Seq(Chars)
    BY <2>1, <2>2, <2>3, Part
  <2> HIDE DEF before, after
  <2>5. new \in Line
    BY <2>1, <2>4, ThreeParts DEF Line, before, after
  <2> HIDE DEF new
  <2>6. QED BY <1>3, <2>0, <2>5, Replaced DEF Lines
<1>4. QED BY <1>0, <1>1, <1>2, <1>3

\* What takes the place of as many characters keeps the frame.
LEMMA OverwriteFrame ==
  ASSUME NEW rr \in Nat, NEW cc \in Nat, NEW ls \in Lines, FrameOf(ls, rr, cc),
         NEW r \in 1 .. rr, NEW c \in 0 .. cc, NEW s \in Line, c + Len(s) <= cc
  PROVE  FrameOf(Overwrite(ls, r, c, c + Len(s), s), rr, cc)
<1> DEFINE l == ls[r]
           e == c + Len(s)
           new == SubSeq(l, 1, c) \o s \o SubSeq(l, e + 1, Len(l))
<1>0. l \in Line /\ Len(l) = cc
  BY DEF FrameOf, Lines
<1>1. l \in Seq(Chars) /\ Len(l) = cc /\ Len(s) \in Nat /\ s \in Seq(Chars)
  BY <1>0 DEF Line
<1>2. Clamp(c, 0, cc) = c /\ Clamp(e, c, cc) = e
  BY <1>1 DEF Clamp
<1>3. Overwrite(ls, r, c, e, s) = [ls EXCEPT ![r] = new]
  <2>1. ~(r < 1) /\ ~(r > Len(ls))
    BY DEF FrameOf
  <2>2. Overwrite(ls, r, c, e, s) =
          [ls EXCEPT ![r] = SubSeq(l, 1, Clamp(c, 0, Len(l))) \o s
             \o SubSeq(l, Clamp(e, Clamp(c, 0, Len(l)), Len(l)) + 1, Len(l))]
    BY <2>1 DEF Overwrite
  <2>3. QED BY <1>1, <1>2, <2>2
<1> DEFINE before == SubSeq(l, 1, c)
           after  == SubSeq(l, e + 1, Len(l))
<1> HIDE DEF l
<1>4. /\ before \in Seq(Chars) /\ Len(before) = c
      /\ after \in Seq(Chars) /\ Len(after) = cc - e
  BY <1>1, Part
<1> HIDE DEF before, after
<1>5. new \in Line /\ Len(new) = cc
  <2>1. new \in Seq(Chars) /\ Len(new) = Len(before) + Len(s) + Len(after)
    BY <1>1, <1>4, ThreeParts DEF before, after
  <2> HIDE DEF new
  <2>2. QED BY <1>1, <1>4, <2>1 DEF Line
<1> HIDE DEF new
<1>6. LET t == [ls EXCEPT ![r] = new] IN
      /\ Len(t) = rr + 1 /\ t[r] = new
      /\ \A j \in 1 .. rr + 1 : j # r => t[j] = ls[j]
  BY <1>5, Replaced DEF FrameOf, Lines
<1> DEFINE t == Overwrite(ls, r, c, e, s)
<1>7. /\ Len(t) = rr + 1 /\ t[r] = new
      /\ \A j \in 1 .. rr + 1 : j # r => t[j] = ls[j]
  BY <1>3, <1>6
<1> HIDE DEF t
<1>8. FrameOf(t, rr, cc)
  BY <1>5, <1>7 DEF FrameOf
<1>9. QED BY <1>8 DEF t

\* Scrolling takes one line away and adds one; a frame stays a frame.
LEMMA ScrolledLines ==
  ASSUME cols \in Nat, NEW ls \in Lines, Len(ls) > 1
  PROVE  /\ Scrolled(ls) \in Lines /\ Len(Scrolled(ls)) = Len(ls)
         /\ \A r \in Nat : FrameOf(ls, r, cols) => FrameOf(Scrolled(ls), r, cols)
<1> DEFINE n == Len(ls)
           end == ls[n] \o Blank(cols)
           full == [ls EXCEPT ![n] = end]
<1>1. Blank(cols) \in Line /\ Len(Blank(cols)) = cols
  BY BlankLine
<1>2. n \in Nat /\ ls[n] \in Line
  BY DEF Lines
<1>3. end \in Line /\ Len(end) = Len(ls[n]) + cols
  <2> DEFINE l == ls[n]  b == Blank(cols)
  <2>1. l \in Seq(Chars) /\ b \in Seq(Chars) /\ Len(b) = cols
    BY <1>1, <1>2 DEF Line
  <2> HIDE DEF l, b
  <2>2. l \o b \in Seq(Chars) /\ Len(l \o b) = Len(l) + Len(b)
    BY <2>1
  <2>3. QED BY <2>1, <2>2 DEF Line, l, b
<1>4. Scrolled(ls) = Append(Tail(full), <<>>)
  BY DEF Scrolled
<1> HIDE DEF n, end
<1>5. full \in Lines /\ Len(full) = n /\ full[n] = end
      /\ \A j \in 1 .. n : j # n => full[j] = ls[j]
  BY <1>2, <1>3, Replaced DEF Lines, n
<1> HIDE DEF full
<1>6. full # <<>>
  BY <1>2, <1>5, EmptySeq DEF n
<1>7. /\ Tail(full) \in Lines /\ Len(Tail(full)) = n - 1
      /\ \A i \in 1 .. n - 1 : Tail(full)[i] = full[i + 1]
  BY <1>5, <1>6, HeadTailProperties DEF Lines
<1> DEFINE t == Tail(full)
<1> HIDE DEF t
<1>8. <<>> \in Line
  BY EmptySeq DEF Line
<1>9. LET u == Append(t, <<>>) IN
      u \in Lines /\ Len(u) = n /\ u[n] = <<>> /\ \A i \in 1 .. n - 1 : u[i] = t[i]
  BY <1>2, <1>7, <1>8 DEF Lines, t
<1>10. /\ Scrolled(ls) \in Lines /\ Len(Scrolled(ls)) = n /\ Scrolled(ls)[n] = <<>>
       /\ \A i \in 1 .. n - 1 : Scrolled(ls)[i] = full[i + 1]
  BY <1>4, <1>7, <1>9 DEF t
<1>11. ASSUME NEW r \in Nat, FrameOf(ls, r, cols)
       PROVE  FrameOf(Scrolled(ls), r, cols)
  <2>1. n = r + 1 /\ ls[n] = <<>> /\ Len(end) = cols
    BY <1>3, <1>11, EmptySeq DEF FrameOf, n
  <2>2. QED BY <1>5, <1>10, <1>11, <2>1 DEF FrameOf
<1>12. QED BY <1>10, <1>11 DEF n

\* Clearing the rows below may add lines and takes none away.
LEMMA BlankBelowLines ==
  ASSUME rows \in Nat \ {0}, cols \in Nat, NEW ls \in Lines, Len(ls) > rows, NEW i \in Int
  PROVE  BlankBelow(ls, i) \in Lines /\ Len(BlankBelow(ls, i)) > rows
<1>1. CASE i < rows
  <2> DEFINE blanks == Blanks(0 - i, cols)
             above  == blanks \o ls
             at     == IF i < 0 THEN 0 ELSE i
             first  == SubSeq(above, 1, at)
             below  == Blanks(rows - at, cols)
             empty  == <<<<>>>>
             old    == SubSeq(above, at + 2, Len(above))
  <2>0. BlankBelow(ls, i) = first \o below \o empty \o old
    BY <1>1 DEF BlankBelow
  <2>1. blanks \in Lines /\ Len(blanks) \in Nat /\ Len(ls) \in Nat
    <3>1. blanks \in Lines
      BY BlankLines
    <3> HIDE DEF blanks
    <3>2. QED BY <3>1 DEF Lines
  <2> HIDE DEF blanks
  <2>2. above \in Lines /\ Len(above) >= Len(ls) /\ Len(above) \in Nat
    BY <2>1, ConcatProperties DEF Lines
  <2> HIDE DEF above
  <2>3. at \in 0 .. rows - 1
    BY <1>1
  <2> HIDE DEF at
  <2>4. below \in Lines /\ Len(below) = rows - at
    <3>1. rows - at \in Int /\ rows - at > 0 /\ cols \in Int
      BY <2>3
    <3>2. QED BY <3>1, BlankLines
  <2> HIDE DEF below
  <2>5. /\ first \in Lines /\ Len(first) = at
        /\ old \in Lines /\ Len(old) \in Nat
    BY <2>1, <2>2, <2>3, Part DEF Lines
  <2> HIDE DEF first, old
  <2>6. empty \in Lines /\ Len(empty) = 1
    BY EmptySeq DEF Lines, Line
  <2> HIDE DEF empty
  <2> DEFINE shown == first \o below \o empty
  <2>7. shown \in Lines /\ Len(shown) = rows + 1
    <3>0. first \in Seq(Line) /\ below \in Seq(Line) /\ empty \in Seq(Line)
      BY <2>4, <2>5, <2>6 DEF Lines
    <3>1. shown \in Seq(Line) /\ Len(shown) = Len(first) + Len(below) + Len(empty)
      BY <3>0, ThreeParts
    <3> HIDE DEF shown
    <3>2. QED BY <2>3, <2>4, <2>5, <2>6, <3>1 DEF Lines
  <2> HIDE DEF shown
  <2>8. shown \o old \in Lines /\ Len(shown \o old) > rows
    BY <2>5, <2>7, ConcatProperties DEF Lines
  <2>9. QED BY <2>0, <2>8 DEF shown
<1>2. CASE i >= rows
  <2>1. ~(i < rows)
    BY <1>2
  <2>2. BlankBelow(ls, i) = ls
    BY <2>1, Zenon DEF BlankBelow
  <2>3. QED BY <2>2
<1>3. QED BY <1>1, <1>2
-----------------------------------------------------------------------------
(* What the parts of an action do.                                         *)

LEMMA DownScreen ==
  ASSUME TermTypeOK, NEW ls \in Lines, Len(ls) > rows, TermDown(ls)
  PROVE  /\ lines' \in Lines /\ Len(lines') > rows /\ cur_row' \in Int
         /\ FrameOf(ls, rows, cols) => FrameOf(lines', rows, cols)
         /\ cur_row \in 1 .. rows => cur_row' \in 1 .. rows
<1>1. rows \in Nat \ {0} /\ cols \in Nat \ {0} /\ cur_row \in Int /\ Len(ls) \in Nat
  BY TermAssumption DEF TermTypeOK, Lines
<1>2. CASE cur_row < rows
  BY <1>1, <1>2 DEF TermDown
<1>3. CASE ~(cur_row < rows)
  <2>1. lines' = Scrolled(ls) /\ cur_row' = cur_row
    BY <1>3 DEF TermDown
  <2>2. QED BY <1>1, <2>1, ScrolledLines
<1>4. QED BY <1>2, <1>3

LEMMA GotoScreen ==
  ASSUME TermTypeOK, NEW r \in Int, NEW c \in Int, GotoXY(r, c)
  PROVE  cur_row' \in 1 .. rows /\ cur_col' \in 0 .. cols - 1
  BY TermAssumption DEF TermTypeOK, GotoXY, Clamp

LEMMA TabColumn ==
  ASSUME NEW c \in Int
  PROVE  ((c + TabStop) \div TabStop) * TabStop \in Int
<1>1. TabStop \in Int /\ TabStop > 0
  BY TermAssumption
<1>2. (c + TabStop) \div TabStop \in Int
  BY <1>1
<1>3. QED BY <1>1, <1>2

LEMMA SpacesLines ==
  ASSUME TermTypeOK, cur_col <= cols
  PROVE  /\ Spaces(lines) \in Lines /\ Len(Spaces(lines)) > rows
         /\ Framed /\ OnScreen => FrameOf(Spaces(lines), rows, cols)
<1> DEFINE s == Blank(cols - cur_col)
<1>1. /\ rows \in Nat \ {0} /\ cols \in Nat \ {0} /\ cur_row \in Int /\ cur_col \in Int
      /\ lines \in Lines /\ Len(lines) > rows /\ Len(lines) > 0
  BY TermAssumption DEF TermTypeOK, Lines, Line
<1>2. cols - cur_col \in Int /\ s \in Line /\ Len(s) = cols - cur_col
  BY <1>1, BlankLine
<1>3. Spaces(lines) = Overwrite(lines, cur_row, cur_col, cols, s)
  BY DEF Spaces
<1> HIDE DEF s
<1>4. Spaces(lines) \in Lines /\ Len(Spaces(lines)) > rows
  BY <1>1, <1>2, <1>3, OverwriteLines
<1>5. ASSUME Framed, OnScreen PROVE FrameOf(Spaces(lines), rows, cols)
  <2>1. FrameOf(lines, rows, cols) /\ cur_row \in 1 .. rows /\ cur_col \in 0 .. cols
    BY <1>5 DEF Framed, OnScreen, FrameOf
  <2>2. cur_col + Len(s) = cols
    BY <1>1, <1>2
  <2>3. QED BY <1>1, <1>2, <1>3, <2>1, <2>2, OverwriteFrame
<1>6. QED BY <1>4, <1>5

LEMMA ClearScreen ==
  ASSUME NEW r \in RowSizes, NEW c \in ColSizes, rows' = r, cols' = c, TermClear
  PROVE  /\ lines' \in Lines /\ Len(lines') > r /\ FrameOf(lines', r, c)
         /\ cur_row' \in 1 .. r /\ cur_col' \in 0 .. c
<1>1. r \in Nat \ {0} /\ c \in Nat \ {0}
  BY TermAssumption
<1>2. lines' = Screen(r, c) /\ cur_row' = 1 /\ cur_col' = 0
  BY DEF TermClear
<1>3. Screen(r, c) \in Lines /\ FrameOf(Screen(r, c), r, c)
  BY <1>1, ScreenFrame
<1>4. Len(Screen(r, c)) > r
  BY <1>1, <1>3 DEF FrameOf
<1>5. QED BY <1>1, <1>2, <1>3, <1>4

\* The lines that term_resize makes of the old ones, once they are fitted.
Resized(fit, r, n, c) ==
  [i \in 1 .. n + 1 |-> IF i > n THEN <<>> ELSE IF i <= r THEN fit[i] ELSE Blank(c)]

LEMMA ResizedLines ==
  ASSUME NEW r \in Nat, NEW n \in Nat, NEW c \in Nat, NEW fit \in [1 .. r -> Line]
  PROVE  /\ Resized(fit, r, n, c) \in Lines /\ Len(Resized(fit, r, n, c)) > n
         /\ (\A i \in 1 .. r : Len(fit[i]) = c) => FrameOf(Resized(fit, r, n, c), n, c)
<1> DEFINE ls == Resized(fit, r, n, c)
<1>1. Blank(c) \in Line /\ Len(Blank(c)) = c /\ <<>> \in Line
  BY BlankLine, EmptySeq DEF Line
<1>2. ls[n + 1] = <<>>
  BY DEF Resized
<1>3. \A i \in 1 .. n : IF i <= r THEN ls[i] = fit[i] /\ i \in 1 .. r ELSE ls[i] = Blank(c)
  BY DEF Resized
<1>4. ls \in [1 .. n + 1 -> Line]
  BY <1>1 DEF Resized
<1> HIDE DEF ls
<1>5. ls \in Lines /\ Len(ls) = n + 1
  BY <1>4 DEF Lines
<1>6. ASSUME \A i \in 1 .. r : Len(fit[i]) = c
      PROVE  FrameOf(ls, n, c)
  <2>1. \A i \in 1 .. n : Len(ls[i]) = c
    BY <1>1, <1>3, <1>6
  <2>2. QED BY <1>2, <1>5, <2>1 DEF FrameOf
<1>7. QED BY <1>5, <1>6 DEF ls

LEMMA ResizeScreen ==
  ASSUME TermTypeOK, TermResize, NEW r, NEW c, rows' = r, cols' = c
  PROVE  /\ lines' \in Lines /\ Len(lines') > r
         /\ cur_row' \in Int /\ cur_col' \in Int
         /\ Framed /\ OnScreen => FrameOf(lines', r, c)
         /\ OnScreen => cur_row' \in 1 .. r /\ cur_col' \in 0 .. c
<1>1. /\ rows \in Nat \ {0} /\ cols \in Nat \ {0} /\ cur_row \in Int /\ cur_col \in Int
      /\ lines \in Lines /\ Len(lines) \in Nat /\ Len(lines) > rows
      /\ r \in Nat \ {0} /\ c \in Nat \ {0}
  BY TermAssumption DEF TermTypeOK, TermResize, Lines, Line
<1>2. ASSUME NEW l \in Line
      PROVE  Fit(l) \in Line /\ (Len(l) = cols => Len(Fit(l)) = c)
  <2>1. l \in Seq(Chars) /\ Len(l) \in Nat
    BY <1>2 DEF Line
  <2>2. CASE c < cols
    <3> DEFINE n == IF Len(l) < c THEN Len(l) ELSE c
    <3>1. n \in 0 .. Len(l) /\ (Len(l) = cols => n = c)
      BY <1>1, <2>1, <2>2
    <3>2. Fit(l) = SubSeq(l, 1, n)
      BY <2>2 DEF Fit
    <3> HIDE DEF n
    <3>3. QED BY <1>1, <2>1, <3>1, <3>2, Part DEF Line
  <2>3. CASE ~(c < cols) /\ Len(l) < c
    <3> DEFINE b == Blank(c - Len(l))
    <3>0. c - Len(l) \in Int /\ c - Len(l) > 0
      BY <1>1, <2>1, <2>3
    <3>1. b \in Seq(Chars) /\ Len(b) = c - Len(l)
      BY <3>0, BlankLine DEF Line
    <3>2. Fit(l) = l \o b
      BY <2>3 DEF Fit
    <3> HIDE DEF b
    <3>3. l \o b \in Seq(Chars) /\ Len(l \o b) = Len(l) + Len(b)
      BY <2>1, <3>1
    <3>4. QED BY <1>1, <2>1, <3>1, <3>2, <3>3 DEF Line
  <2>4. CASE ~(c < cols) /\ ~(Len(l) < c)
    BY <1>1, <2>1, <2>4 DEF Fit, Line
  <2>5. QED BY <2>2, <2>3, <2>4
<1>3. \A i \in 1 .. Len(lines) : lines[i] \in Line
  BY <1>1 DEF Lines
<1>4. lines' = [i \in 1 .. r + 1 |->
                  IF i > r THEN <<>>
                  ELSE IF i <= rows THEN Fit(lines[i]) ELSE Blank(c)]
  BY DEF TermResize
<1> DEFINE fit == [i \in 1 .. rows |-> Fit(lines[i])]
<1>5. fit \in [1 .. rows -> Line]
  BY <1>1, <1>2, <1>3
<1>6. lines' = Resized(fit, rows, r, c)
  BY <1>1, <1>4 DEF Resized
<1>7. Framed => \A i \in 1 .. rows : Len(fit[i]) = c
  BY <1>1, <1>2, <1>3 DEF Framed
<1> HIDE DEF fit
<1>8. /\ lines' \in Lines /\ Len(lines') > r
      /\ Framed => FrameOf(lines', r, c)
  BY <1>1, <1>5, <1>6, <1>7, ResizedLines
<1>9. /\ cur_row' \in Int /\ cur_col' \in Int
      /\ OnScreen => cur_row' \in 1 .. r /\ cur_col' \in 0 .. c
  <2>1. /\ cur_row' = IF cur_row > r THEN r ELSE cur_row
        /\ cur_col' = IF cur_col >= c THEN c - 1 ELSE cur_col
    BY DEF TermResize
  <2>2. QED BY <1>1, <2>1 DEF OnScreen
<1>10. QED BY <1>8, <1>9

\* The three parts of term_insert.
LEMMA WriteFirstScreen ==
  ASSUME TermTypeOK, writing = "first", UNCHANGED sizevars,
         NEW n \in 0 .. Len(rest), n <= Space, NEW wraps \in BOOLEAN, WriteFirst(n, wraps)
  PROVE  /\ lines' \in Lines /\ Len(lines') > rows /\ cur_row' \in Int /\ cur_col' \in Int
         /\ rest' \in Line /\ writing' \in {"no", "more"} /\ alive' = TRUE
         /\ writing' = "no" <=> rest' = <<>>
         /\ Framed /\ OnScreen => FrameOf(lines', rows, cols) /\ OnScreen'
<1> DEFINE s    == SubSeq(rest, 1, n)
           over == Overwrite(lines, cur_row, cur_col, cur_col + n, s)
<1>1. /\ rows \in Nat \ {0} /\ cols \in Nat \ {0} /\ cur_row \in Int /\ cur_col \in Int
      /\ lines \in Lines /\ Len(lines) > rows /\ Len(lines) > 0 /\ Len(lines) \in Nat
      /\ rest \in Seq(Chars) /\ Len(rest) \in Nat /\ n \in Nat /\ cur_col + n <= cols
      /\ alive = TRUE /\ rows' = rows /\ cols' = cols
  BY TermAssumption DEF TermTypeOK, Lines, Line, Space, sizevars
<1>2. /\ DownIfFull(wraps, over)
      /\ cur_col' = cur_col + n
      /\ rest' = SubSeq(rest, n + 1, Len(rest))
      /\ writing' = IF rest' = <<>> THEN "no" ELSE "more"
      /\ alive' = alive
  BY DEF WriteFirst
<1>3. s \in Line /\ Len(s) = n
  BY <1>1, Part DEF Line
<1> HIDE DEF s
<1>4. over \in Lines /\ Len(over) > rows
  BY <1>1, <1>3, OverwriteLines
<1>5. ASSUME Framed, OnScreen PROVE FrameOf(over, rows, cols)
  <2>1. FrameOf(lines, rows, cols) /\ cur_row \in 1 .. rows /\ cur_col \in 0 .. cols
    BY <1>5 DEF Framed, OnScreen, FrameOf
  <2>2. over = Overwrite(lines, cur_row, cur_col, cur_col + Len(s), s)
    BY <1>3
  <2>3. QED BY <1>1, <1>3, <2>1, <2>2, OverwriteFrame
<1> HIDE DEF over
<1>6. /\ lines' \in Lines /\ Len(lines') > rows /\ cur_row' \in Int
      /\ FrameOf(over, rows, cols) => FrameOf(lines', rows, cols)
      /\ cur_row \in 1 .. rows => cur_row' \in 1 .. rows
  <2>1. CASE wraps
    BY <1>2, <1>4, <2>1, DownScreen DEF DownIfFull
  <2>2. CASE ~wraps
    BY <1>1, <1>2, <1>4, <2>2 DEF DownIfFull
  <2>3. QED BY <2>1, <2>2
<1>7. rest' \in Line
  BY <1>1, <1>2, Part DEF Line
<1>8. cur_col' \in Int /\ (cur_col \in 0 .. cols => cur_col' \in 0 .. cols)
  BY <1>1, <1>2
<1>9. writing' \in {"no", "more"} /\ (writing' = "no" <=> rest' = <<>>)
  BY <1>2
<1>10. Framed /\ OnScreen => FrameOf(lines', rows, cols) /\ OnScreen'
  BY <1>1, <1>5, <1>6, <1>8 DEF OnScreen
<1>11. QED BY <1>1, <1>2, <1>6, <1>7, <1>8, <1>9, <1>10

LEMMA FirstLineScreen ==
  ASSUME TermTypeOK, FirstLine
  PROVE  /\ lines' \in Lines /\ Len(lines') > rows /\ cur_row' \in Int /\ cur_col' \in Int
         /\ rest' \in Line /\ writing' \in {"no", "more"} /\ alive' \in BOOLEAN
         /\ writing' = "no" <=> rest' = <<>>
         /\ writing' # "no" => alive'
         /\ Framed /\ OnScreen => FrameOf(lines', rows, cols) /\ OnScreen' /\ alive'
<1>1. /\ cols \in Nat \ {0} /\ cur_col \in Int /\ lines \in Lines /\ Len(lines) > rows
      /\ cur_row \in Int /\ Len(rest) \in Nat
      /\ writing = "first" /\ UNCHANGED sizevars
  BY TermAssumption DEF TermTypeOK, Lines, Line, FirstLine
<1>2. CASE Space < 0 /\ Die /\ UNCHANGED screen
  <2>1. /\ alive' = FALSE /\ writing' = "no" /\ rest' = <<>>
        /\ lines' = lines /\ cur_row' = cur_row /\ cur_col' = cur_col
    BY <1>2 DEF Die, screen, cursor
  <2>2. ~OnScreen
    BY <1>1, <1>2 DEF OnScreen, Space
  <2>3. QED BY <1>1, <2>1, <2>2, EmptySeq DEF Line
<1>3. CASE Space >= Len(rest) /\ WriteFirst(Len(rest), FALSE)
  <2>1. Len(rest) \in 0 .. Len(rest) /\ Len(rest) <= Space /\ FALSE \in BOOLEAN
    BY <1>1, <1>3 DEF Space
  <2>2. QED BY <1>1, <1>3, <2>1, WriteFirstScreen
<1>4. CASE Space \in 0 .. Len(rest) - 1 /\ WriteFirst(Space, TRUE)
  <2>1. Space \in 0 .. Len(rest) /\ Space <= Space /\ TRUE \in BOOLEAN
    BY <1>1, <1>4
  <2>2. QED BY <1>1, <1>4, <2>1, WriteFirstScreen
<1>5. QED BY <1>2, <1>3, <1>4 DEF FirstLine

LEMMA FullLineScreen ==
  ASSUME TermTypeOK, FullLine
  PROVE  /\ lines' \in Lines /\ Len(lines') > rows /\ cur_row' \in Int /\ cur_col' = 0
         /\ rest' \in Line
         /\ Framed /\ OnScreen => FrameOf(lines', rows, cols) /\ OnScreen'
<1> DEFINE s    == SubSeq(rest, 1, cols)
           e    == LineEnd(cur_row)
           over == Overwrite(lines, cur_row, 0, e, s)
<1>1. /\ rows \in Nat \ {0} /\ cols \in Nat \ {0} /\ cur_row \in Int
      /\ lines \in Lines /\ Len(lines) > rows /\ Len(lines) > 0 /\ Len(lines) \in Nat
      /\ rest \in Seq(Chars) /\ Len(rest) \in Nat /\ Len(rest) >= cols
      /\ rows' = rows /\ cols' = cols
  BY TermAssumption DEF TermTypeOK, Lines, Line, FullLine, sizevars
<1>2. TermDown(over) /\ cur_col' = 0 /\ rest' = SubSeq(rest, cols + 1, Len(rest))
  BY DEF FullLine
<1>3. s \in Line /\ Len(s) = cols
  BY <1>1, Part DEF Line
<1>4. e \in Int /\ (Framed /\ OnScreen => e = 0 + cols)
  BY <1>1 DEF LineEnd, Lines, Line, Framed, OnScreen
<1> HIDE DEF s, e
<1>5. over \in Lines /\ Len(over) > rows
  BY <1>1, <1>3, <1>4, OverwriteLines
<1>6. Framed /\ OnScreen => FrameOf(over, rows, cols)
  <2> SUFFICES ASSUME Framed, OnScreen PROVE FrameOf(over, rows, cols)
    OBVIOUS
  <2>1. FrameOf(lines, rows, cols) /\ cur_row \in 1 .. rows /\ 0 \in 0 .. cols
    BY <1>1 DEF Framed, OnScreen, FrameOf
  <2>2. over = Overwrite(lines, cur_row, 0, 0 + Len(s), s)
    BY <1>3, <1>4
  <2>3. 0 + Len(s) <= cols
    BY <1>1, <1>3
  <2>4. QED BY <1>1, <1>3, <2>1, <2>2, <2>3, OverwriteFrame
<1> HIDE DEF over
<1>7. rest' \in Line
  BY <1>1, <1>2, Part DEF Line
<1>8. /\ lines' \in Lines /\ Len(lines') > rows /\ cur_row' \in Int
      /\ FrameOf(over, rows, cols) => FrameOf(lines', rows, cols)
      /\ cur_row \in 1 .. rows => cur_row' \in 1 .. rows
  BY <1>2, <1>5, DownScreen
<1>9. QED BY <1>1, <1>2, <1>6, <1>7, <1>8 DEF OnScreen

LEMMA LastLineScreen ==
  ASSUME TermTypeOK, LastLine
  PROVE  /\ lines' \in Lines /\ Len(lines') > rows /\ cur_col' \in Int
         /\ Framed /\ OnScreen => FrameOf(lines', rows, cols) /\ OnScreen'
<1>1. /\ rows \in Nat \ {0} /\ cols \in Nat \ {0} /\ cur_row \in Int
      /\ lines \in Lines /\ Len(lines) > rows /\ Len(lines) > 0 /\ Len(lines) \in Nat
      /\ rest \in Line /\ Len(rest) \in Nat /\ Len(rest) < cols
      /\ rows' = rows /\ cols' = cols
  BY TermAssumption DEF TermTypeOK, Lines, Line, LastLine, sizevars
<1>2. /\ lines' = Overwrite(lines, cur_row, 0, 0 + Len(rest), rest)
      /\ cur_col' = Len(rest) /\ cur_row' = cur_row
  BY <1>1 DEF LastLine
<1>3. lines' \in Lines /\ Len(lines') > rows
  <2>1. 0 + Len(rest) \in Int
    BY <1>1
  <2>2. QED BY <1>1, <1>2, <2>1, OverwriteLines
<1>4. ASSUME Framed, OnScreen PROVE FrameOf(lines', rows, cols)
  <2>1. FrameOf(lines, rows, cols) /\ cur_row \in 1 .. rows /\ 0 \in 0 .. cols
    BY <1>1, <1>4 DEF Framed, OnScreen, FrameOf
  <2>2. 0 + Len(rest) <= cols
    BY <1>1
  <2>3. QED BY <1>1, <1>2, <2>1, <2>2, OverwriteFrame
<1>5. QED BY <1>1, <1>2, <1>3, <1>4 DEF OnScreen

LEMMA NewlineScreen ==
  ASSUME TermTypeOK, alive = TRUE, Newline
  PROVE  /\ lines' \in Lines /\ Len(lines') > rows /\ cur_row' \in Int /\ cur_col' = 0
         /\ alive' \in BOOLEAN /\ writing' = writing /\ rest' = rest
         /\ Framed /\ OnScreen => FrameOf(lines', rows, cols) /\ cur_row' \in 1 .. rows
         /\ alive' \/ DebugLine
<1>1. lines \in Lines /\ Len(lines) > rows /\ cur_row \in Int
  BY DEF TermTypeOK, Lines, Line
<1>2. cur_col' = 0 /\ writing' = writing /\ rest' = rest
  BY DEF Newline, writevars
<1>3. CASE TermDown(lines) /\ UNCHANGED alive
  <2>1. /\ lines' \in Lines /\ Len(lines') > rows /\ cur_row' \in Int
        /\ FrameOf(lines, rows, cols) => FrameOf(lines', rows, cols)
        /\ cur_row \in 1 .. rows => cur_row' \in 1 .. rows
    BY <1>1, <1>3, DownScreen
  <2>2. Framed /\ OnScreen => FrameOf(lines, rows, cols) /\ cur_row \in 1 .. rows
    BY DEF Framed, OnScreen, FrameOf
  <2>3. QED BY <1>2, <1>3, <2>1, <2>2
<1>4. CASE DebugLine /\ alive' = FALSE /\ UNCHANGED <<lines, cur_row>>
  <2>1. Framed /\ OnScreen => FrameOf(lines, rows, cols) /\ cur_row \in 1 .. rows
    BY DEF Framed, OnScreen, FrameOf
  <2>2. QED BY <1>1, <1>2, <1>4, <2>1
<1>5. QED BY <1>3, <1>4 DEF Newline

LEMMA ClearToEolScreen ==
  ASSUME TermTypeOK, writing = "no", alive = TRUE, ClearToEol
  PROVE  /\ lines' \in Lines /\ Len(lines') > rows
         /\ cur_row' = cur_row /\ cur_col' = cur_col
         /\ alive' \in BOOLEAN /\ writing' = "no" /\ rest' = <<>>
         /\ Framed /\ OnScreen => FrameOf(lines', rows, cols)
         /\ OnScreen => alive'
<1>1. /\ lines \in Lines /\ Len(lines) > rows /\ rest = <<>>
      /\ rows \in Nat /\ cols \in Nat /\ cur_col \in Int
  BY TermAssumption DEF TermTypeOK, Lines, Line
<1>2. CASE cur_col > cols /\ Die /\ UNCHANGED screen
  <2>1. ~OnScreen
    BY <1>1, <1>2 DEF OnScreen
  <2>2. QED BY <1>1, <1>2, <2>1 DEF Die, screen, cursor
<1>3. CASE cur_col <= cols /\ lines' = Spaces(lines) /\ UNCHANGED <<cursor, alive, writevars>>
  <2>1. /\ Spaces(lines) \in Lines /\ Len(Spaces(lines)) > rows
        /\ Framed /\ OnScreen => FrameOf(Spaces(lines), rows, cols)
    BY <1>3, SpacesLines
  <2>2. QED BY <1>1, <1>3, <2>1 DEF cursor, writevars
<1>4. QED BY <1>2, <1>3 DEF ClearToEol

LEMMA ClearToEosScreen ==
  ASSUME TermTypeOK, writing = "no", alive = TRUE, ClearToEos
  PROVE  /\ lines' \in Lines /\ Len(lines') > rows
         /\ cur_row' = cur_row /\ cur_col' \in Int
         /\ alive' \in BOOLEAN /\ writing' = "no" /\ rest' = <<>>
         /\ OnScreen => alive' /\ cur_col' \in 0 .. cols
<1>1. /\ lines \in Lines /\ Len(lines) > rows /\ rest = <<>>
      /\ rows \in Nat \ {0} /\ cols \in Nat /\ cur_col \in Int /\ cur_row \in Int
  BY TermAssumption DEF TermTypeOK, Lines, Line
<1>2. CASE cur_col > cols /\ Die /\ UNCHANGED screen
  <2>1. ~OnScreen
    BY <1>1, <1>2 DEF OnScreen
  <2>2. QED BY <1>1, <1>2, <2>1 DEF Die, screen, cursor
<1>3. CASE /\ cur_col <= cols
           /\ lines' = BlankBelow(Spaces(lines), cur_row)
           /\ cur_col' = cols
           /\ UNCHANGED <<cur_row, alive, writevars>>
  <2>1. Spaces(lines) \in Lines /\ Len(Spaces(lines)) > rows
    BY <1>3, SpacesLines
  <2>2. lines' \in Lines /\ Len(lines') > rows
    BY <1>1, <1>3, <2>1, BlankBelowLines
  <2>3. QED BY <1>1, <1>3, <2>2 DEF writevars
<1>4. QED BY <1>2, <1>3 DEF ClearToEos
-----------------------------------------------------------------------------
(* The type invariant.                                                     *)

LEMMA TypeInit == Init => TermTypeOK
<1> SUFFICES ASSUME Init PROVE TermTypeOK
  OBVIOUS
<1>1. rows \in Nat \ {0} /\ cols \in Nat \ {0} /\ lines = Screen(rows, cols)
  BY TermAssumption DEF Init
<1>2. Screen(rows, cols) \in Lines /\ FrameOf(Screen(rows, cols), rows, cols)
  BY <1>1, ScreenFrame
<1>3. lines \in Seq(Seq(Chars)) /\ Len(lines) > rows
  BY <1>1, <1>2 DEF FrameOf, Lines, Line
<1>4. rest \in Seq(Chars) /\ (writing = "no" <=> rest = <<>>)
  BY EmptySeq DEF Init
<1>5. QED BY <1>3, <1>4 DEF Init, TermTypeOK, States

LEMMA TypeWrite ==
  ASSUME TermTypeOK, Receive \/ FirstLine \/ FullLine \/ LastLine
  PROVE  TermTypeOK'
<1> USE DEF sizevars, cursor, screen, parservars, writevars, Lines, Line
<1>1. CASE Receive
  <2>1. PICK n \in 1 .. MaxRun : rest' \in [1 .. n -> Chars]
    BY <1>1 DEF Receive
  <2>2. n \in Nat \ {0}
    BY TermAssumption
  <2>3. rest' \in Seq(Chars) /\ rest' # <<>>
    BY <2>1, <2>2, EmptySeq
  <2>4. /\ alive' = TRUE /\ cur_state' = "normal" /\ writing' = "first"
        /\ cur_saw_cr' = "no" /\ last' \in {"none", "other"}
        /\ UNCHANGED <<kind, rows, cols, lines, cur_row, cur_col>>
    BY <1>1 DEF TermTypeOK, Receive, Ready, NoLineEnd
  <2>5. /\ rest' \in Seq(Chars) /\ writing' \in {"no", "first", "more"}
        /\ (writing' = "no" <=> rest' = <<>>) /\ alive' \in BOOLEAN
    BY <2>3, <2>4
  <2>6. QED BY <2>4, <2>5 DEF TermTypeOK, States
<1>2. CASE FirstLine
  <2>1. writing = "first" /\ UNCHANGED <<kind, rows, cols, cur_state, cur_saw_cr, last>>
    BY <1>2 DEF FirstLine
  <2>2. QED BY <1>2, <2>1, FirstLineScreen DEF TermTypeOK
<1>3. CASE FullLine
  <2>1. /\ writing = "more" /\ UNCHANGED <<kind, rows, cols, cur_state, cur_saw_cr, last, alive>>
        /\ writing' = IF rest' = <<>> THEN "no" ELSE "more"
    BY <1>3 DEF FullLine
  <2>2. QED BY <1>3, <2>1, FullLineScreen DEF TermTypeOK
<1>4. CASE LastLine
  <2>1. /\ writing = "more" /\ UNCHANGED <<kind, rows, cols, cur_row, cur_state, cur_saw_cr, last, alive>>
        /\ writing' = "no" /\ rest' = <<>>
    BY <1>4 DEF LastLine
  <2>2. QED BY <1>4, <2>1, LastLineScreen, EmptySeq DEF TermTypeOK
<1>5. QED BY <1>1, <1>2, <1>3, <1>4

LEMMA TypeControl ==
  ASSUME TermTypeOK,
         CarriageReturn \/ LineFeed \/ Backspace \/ Tab \/ Escape \/ OtherControl
  PROVE  TermTypeOK'
<1> USE DEF sizevars, cursor, screen, writevars, Lines, Line
<1>0. Control => writing = "no" /\ rest = <<>> /\ alive = TRUE
  BY DEF Control, Ready, TermTypeOK
<1>1. CASE CarriageReturn
  <2>1. Control /\ UNCHANGED <<kind, rows, cols, cur_state>> /\ cur_saw_cr' = "yes"
    BY <1>1 DEF CarriageReturn
  <2>2. CASE kind = "ansi"
    <3>1. /\ cur_col' = 0 /\ alive' \in BOOLEAN /\ last' = "none"
          /\ UNCHANGED <<lines, cur_row, writing, rest>>
      BY <1>1, <2>2 DEF CarriageReturn, DebugLine
    <3>2. QED BY <1>0, <2>1, <3>1 DEF TermTypeOK
  <2>3. CASE kind # "ansi"
    <3>1. Newline /\ last' = "cr"
      BY <1>1, <2>3 DEF CarriageReturn
    <3>2. /\ lines' \in Lines /\ Len(lines') > rows /\ cur_row' \in Int /\ cur_col' = 0
          /\ alive' \in BOOLEAN /\ writing' = "no" /\ rest' = <<>>
      BY <1>0, <2>1, <3>1, NewlineScreen
    <3>3. QED BY <2>1, <3>1, <3>2, EmptySeq DEF TermTypeOK
  <2>4. QED BY <2>2, <2>3
<1>2. CASE LineFeed
  <2>1. Control /\ UNCHANGED <<kind, rows, cols, cur_state>>
    BY <1>2 DEF LineFeed
  <2>2. CASE kind = "ansi"
    <3>1. /\ TermDown(lines) /\ last' = "none"
          /\ UNCHANGED <<cur_col, cur_saw_cr, writing, rest, alive>>
      BY <1>2, <2>2 DEF LineFeed
    <3>2. lines' \in Lines /\ Len(lines') > rows /\ cur_row' \in Int
      BY <3>1, DownScreen DEF TermTypeOK
    <3>3. QED BY <2>1, <3>1, <3>2 DEF TermTypeOK
  <2>3. CASE kind # "ansi" /\ cur_saw_cr = "unset" /\ Die /\ UNCHANGED <<screen, cur_saw_cr>> /\ last' = "lf"
    BY <1>0, <2>1, <2>3, EmptySeq DEF TermTypeOK, Die
  <2>4. CASE kind # "ansi" /\ cur_saw_cr = "no" /\ Newline /\ UNCHANGED cur_saw_cr /\ last' = "lf"
    <3>1. /\ lines' \in Lines /\ Len(lines') > rows /\ cur_row' \in Int /\ cur_col' = 0
          /\ alive' \in BOOLEAN /\ writing' = "no" /\ rest' = <<>>
      BY <1>0, <2>1, <2>4, NewlineScreen
    <3>2. QED BY <2>1, <2>4, <3>1, EmptySeq DEF TermTypeOK
  <2>5. CASE kind # "ansi" /\ cur_saw_cr' = "no" /\ UNCHANGED <<screen, writevars, alive>> /\ last' = "lf"
    BY <2>1, <2>5 DEF TermTypeOK
  <2>6. QED BY <1>2, <2>2, <2>3, <2>4, <2>5 DEF LineFeed
<1>3. CASE Backspace
  BY <1>0, <1>3 DEF Backspace, Moves, NoLineEnd, TermTypeOK
<1>4. CASE Tab
  <2>1. cur_col' \in Int
    BY <1>4, TabColumn DEF Tab, Moves, TermTypeOK
  <2>2. QED BY <1>0, <1>4, <2>1 DEF Tab, Moves, NoLineEnd, TermTypeOK
<1>5. CASE Escape \/ OtherControl
  BY <1>0, <1>5 DEF Escape, OtherControl, NoLineEnd, TermTypeOK, States
<1>6. QED BY <1>1, <1>2, <1>3, <1>4, <1>5

LEMMA TypePst ==
  ASSUME TermTypeOK,
         \/ PstHome \/ PstRight \/ PstUp \/ PstDown \/ PstClearToEol \/ PstClearToEos
         \/ PstClear \/ PstGoto \/ PstX \/ PstY
  PROVE  TermTypeOK'
<1> USE DEF sizevars, cursor, screen, writevars, Lines, Line
<1>0. Pst => /\ writing = "no" /\ rest = <<>> /\ alive = TRUE
             /\ cur_saw_cr' = "no" /\ last' \in {"none", "other"}
             /\ UNCHANGED <<kind, rows, cols>>
  BY DEF Pst, Control, Ready, NoLineEnd, TermTypeOK
<1>1. CASE PstHome
  <2>1. cur_row' \in Int /\ cur_col' \in Int
    BY <1>1, GotoScreen DEF PstHome
  <2>2. QED BY <1>0, <1>1, <2>1 DEF PstHome, TermTypeOK
<1>2. CASE PstRight \/ PstUp
  BY <1>0, <1>2 DEF PstRight, PstUp, Moves, TermTypeOK
<1>3. CASE PstDown
  <2>1. lines' \in Lines /\ Len(lines') > rows /\ cur_row' \in Int
    BY <1>3, DownScreen DEF PstDown, TermTypeOK
  <2>2. QED BY <1>0, <1>3, <2>1 DEF PstDown, TermTypeOK
<1>4. CASE PstClearToEol
  <2>1. Pst /\ ClearToEol /\ UNCHANGED cur_state
    BY <1>4 DEF PstClearToEol
  <2>2. QED BY <1>0, <2>1, ClearToEolScreen, EmptySeq DEF TermTypeOK
<1>5. CASE PstClearToEos
  <2>1. Pst /\ ClearToEos /\ UNCHANGED cur_state
    BY <1>5 DEF PstClearToEos
  <2>2. QED BY <1>0, <2>1, ClearToEosScreen, EmptySeq DEF TermTypeOK
<1>6. CASE PstClear
  <2>1. Pst /\ TermClear /\ UNCHANGED <<writing, rest, alive>> /\ cur_state' = "normal"
    BY <1>6 DEF PstClear, TermClear
  <2>2. rows \in RowSizes /\ cols \in ColSizes /\ rows' = rows /\ cols' = cols
    BY <1>0, <2>1 DEF TermTypeOK
  <2>3. /\ lines' \in Lines /\ Len(lines') > rows
        /\ cur_row' \in Int /\ cur_col' \in Int
    BY <2>1, <2>2, ClearScreen
  <2>4. QED BY <1>0, <2>1, <2>2, <2>3 DEF TermTypeOK, States
<1>7. CASE PstGoto
  BY <1>0, <1>7 DEF PstGoto, TermTypeOK, States
<1>8. CASE PstX \/ PstY
  <2>1. /\ cur_row' \in Int /\ cur_col' \in Int /\ cur_state' \in States
        /\ UNCHANGED <<kind, rows, cols, lines, writing, rest, alive>>
        /\ cur_saw_cr' = "no" /\ last' \in {"none", "other"} /\ writing = "no"
    BY <1>8, TermAssumption DEF PstX, PstY, InState, Ready, NoLineEnd, TermTypeOK, States
  <2>2. QED BY <2>1 DEF TermTypeOK
<1>9. QED BY <1>1, <1>2, <1>3, <1>4, <1>5, <1>6, <1>7, <1>8

LEMMA TypeAnsi ==
  ASSUME TermTypeOK, GatherEscape \/ CsiMove \/ CsiClear \/ CsiGraphics \/ CsiOther
  PROVE  TermTypeOK'
<1> USE DEF sizevars, cursor, screen, writevars, Lines, Line
<1>0. \A st \in States : InState(st) =>
        /\ writing = "no" /\ rest = <<>> /\ alive = TRUE /\ cur_state = st
        /\ cur_saw_cr' = "no" /\ last' \in {"none", "other"}
        /\ UNCHANGED <<kind, rows, cols>>
  BY DEF InState, Ready, NoLineEnd, TermTypeOK
<1>1. CASE GatherEscape \/ CsiOther \/ CsiGraphics
  BY <1>0, <1>1 DEF GatherEscape, CsiOther, CsiGraphics, Die, TermTypeOK, States
<1>2. CASE CsiMove
  <2>1. PICK r \in Int, c \in Int : GotoXY(r, c)
    BY <1>2, TermAssumption DEF CsiMove, TermTypeOK
  <2>2. cur_row' \in Int /\ cur_col' \in Int
    BY <2>1, GotoScreen
  <2>3. QED BY <1>0, <1>2, <2>2 DEF CsiMove, TermTypeOK, States
<1>3. CASE CsiClear
  <2>1. /\ InState("ansi_gather_csi")
        /\ ClearToEol \/ ClearToEos
        /\ cur_state' \in {"normal", cur_state}
    BY <1>3 DEF CsiClear
  <2>2. /\ lines' \in Lines /\ Len(lines') > rows
        /\ cur_row' \in Int /\ cur_col' \in Int
        /\ alive' \in BOOLEAN /\ writing' = "no" /\ rest' = <<>>
    <3>1. writing = "no" /\ alive = TRUE /\ cur_row \in Int /\ cur_col \in Int
      BY <1>0, <2>1 DEF TermTypeOK, States
    <3>2. CASE ClearToEol
      BY <3>1, <3>2, ClearToEolScreen
    <3>3. CASE ClearToEos
      BY <3>1, <3>3, ClearToEosScreen
    <3>4. QED BY <2>1, <3>2, <3>3
  <2>3. /\ UNCHANGED <<kind, rows, cols>> /\ cur_saw_cr' = "no" /\ last' \in {"none", "other"}
        /\ cur_state' \in States
    BY <1>0, <2>1 DEF TermTypeOK, States
  <2>4. QED BY <2>2, <2>3, EmptySeq DEF TermTypeOK
<1>4. QED BY <1>1, <1>2, <1>3

LEMMA TypeOutside ==
  ASSUME TermTypeOK, RunInWindow \/ TermResize \/ ChooseKind
  PROVE  TermTypeOK'
<1> USE DEF sizevars, cursor, screen, parservars, writevars, Lines, Line
<1>1. CASE RunInWindow
  <2>1. /\ writing = "no" /\ TermClear /\ cur_state' = "normal" /\ alive' \in BOOLEAN
        /\ last' = "none" /\ UNCHANGED <<kind, cur_saw_cr, writing, rest>>
        /\ rows' \in RowSizes /\ cols' \in ColSizes
    BY <1>1 DEF RunInWindow, TermClear, TermTypeOK
  <2>2. PICK r \in RowSizes, c \in ColSizes : rows' = r /\ cols' = c
    BY <2>1
  <2>3. /\ lines' \in Lines /\ Len(lines') > r /\ cur_row' \in Int /\ cur_col' \in Int
    BY <2>1, <2>2, ClearScreen
  <2>4. QED BY <2>1, <2>2, <2>3 DEF TermTypeOK, States
<1>2. CASE TermResize
  <2>1. /\ writing = "no"
        /\ UNCHANGED <<kind, cur_state, cur_saw_cr, last, writing, rest, alive>>
    BY <1>2 DEF TermResize
  <2>2. PICK r \in RowSizes, c \in ColSizes : rows' = r /\ cols' = c
    BY <1>2 DEF TermResize
  <2>3. /\ lines' \in Lines /\ Len(lines') > r /\ cur_row' \in Int /\ cur_col' \in Int
    BY <1>2, <2>2, ResizeScreen
  <2>4. QED BY <2>1, <2>2, <2>3 DEF TermTypeOK
<1>3. CASE ChooseKind
  BY <1>3 DEF ChooseKind, TermTypeOK
<1>4. QED BY <1>1, <1>2, <1>3

LEMMA TypeStep == TermTypeOK /\ [Next]_tvars => TermTypeOK'
<1> SUFFICES ASSUME TermTypeOK, [Next]_tvars PROVE TermTypeOK'
  OBVIOUS
<1>1. CASE UNCHANGED tvars
  BY <1>1 DEF tvars, sizevars, screen, cursor, parservars, writevars, TermTypeOK
<1>2. QED BY <1>1, TypeWrite, TypeControl, TypePst, TypeAnsi, TypeOutside DEF Next

\* Whatever bytes come, the lines of the text widget are never fewer than the
\* rows of the screen, and the parser and term_insert agree on who goes on.
THEOREM TermTypeCorrect == Spec => []TermTypeOK
<1>1. QED BY TypeInit, TypeStep, PTL DEF Spec
-----------------------------------------------------------------------------
(* The screen keeps its frame, the cursor stays on it, and the terminal    *)
(* goes on.                                                                *)

\* The steps that may break the frame, take the cursor off the screen, and
\* silence the terminal.
Eos   == CsiClear \/ PstClearToEos
Off   == Backspace \/ Tab \/ PstRight \/ PstUp \/ PstX \/ PstY
Fails == \/ RunInWindow
         \/ DebugLine /\ (CarriageReturn \/ LineFeed)
         \/ cur_saw_cr = "unset" /\ LineFeed
         \/ CsiGraphics /\ cur_state' # "normal"

\* A step that leaves lines, size and cursor alone does no harm.
LEMMA SameScreen ==
  ASSUME UNCHANGED <<rows, cols, lines, cur_row, cur_col>>
  PROVE  (Framed <=> Framed') /\ (OnScreen <=> OnScreen')
  BY DEF Framed, OnScreen

\* A frame and a cursor in it, in terms of lines' and the old size.
LEMMA GoodScreen ==
  ASSUME UNCHANGED <<rows, cols>>
  PROVE  /\ FrameOf(lines', rows, cols) => Framed'
         /\ cur_row' \in 1 .. rows /\ cur_col' \in 0 .. cols => OnScreen'
  BY DEF FrameOf, Framed, OnScreen

LEMMA WriteKeeps ==
  ASSUME TermTypeOK, Framed, OnScreen, Receive \/ FirstLine \/ FullLine \/ LastLine
  PROVE  Framed' /\ OnScreen'
<1> USE DEF sizevars
<1>1. CASE Receive
  BY <1>1, SameScreen DEF Receive, screen, cursor
<1>2. CASE FirstLine
  BY <1>2, FirstLineScreen, GoodScreen DEF FirstLine
<1>3. CASE FullLine
  BY <1>3, FullLineScreen, GoodScreen DEF FullLine
<1>4. CASE LastLine
  BY <1>4, LastLineScreen, GoodScreen DEF LastLine
<1>5. QED BY <1>1, <1>2, <1>3, <1>4

LEMMA ControlKeeps ==
  ASSUME TermTypeOK, Framed, OnScreen,
         \/ CarriageReturn \/ LineFeed \/ Backspace \/ Tab \/ Escape \/ OtherControl
  PROVE  Framed' /\ (OnScreen' \/ Off)
<1> USE DEF sizevars, screen, cursor
<1>0. /\ rows \in Nat \ {0} /\ cols \in Nat \ {0} /\ lines \in Lines /\ Len(lines) > rows
      /\ FrameOf(lines, rows, cols) /\ cur_row \in 1 .. rows /\ cur_col \in 0 .. cols
  BY TermAssumption DEF TermTypeOK, Lines, Line, Framed, OnScreen, FrameOf
<1>1. ASSUME Newline, alive = TRUE, UNCHANGED <<rows, cols>>
      PROVE  Framed' /\ OnScreen'
  <2>1. FrameOf(lines', rows, cols) /\ cur_row' \in 1 .. rows /\ cur_col' = 0
    BY <1>1, NewlineScreen
  <2>2. cur_col' \in 0 .. cols
    BY <1>0, <2>1
  <2>3. QED BY <1>1, <2>1, <2>2, GoodScreen
<1>2. CASE CarriageReturn
  <2>1. alive = TRUE /\ UNCHANGED <<rows, cols>>
    BY <1>2 DEF CarriageReturn, Control, Ready, TermTypeOK
  <2>2. CASE Newline
    BY <1>1, <2>1, <2>2
  <2>3. CASE cur_col' = 0 /\ UNCHANGED <<lines, cur_row>>
    <3>1. cur_row' \in 1 .. rows /\ cur_col' \in 0 .. cols /\ FrameOf(lines', rows, cols)
      BY <1>0, <2>3
    <3>2. QED BY <2>1, <3>1, GoodScreen
  <2>4. QED BY <1>2, <2>2, <2>3 DEF CarriageReturn
<1>3. CASE LineFeed
  <2>1. alive = TRUE /\ UNCHANGED <<rows, cols>>
    BY <1>3 DEF LineFeed, Control, Ready, TermTypeOK
  <2>2. CASE Newline
    BY <1>1, <2>1, <2>2
  <2>3. CASE TermDown(lines) /\ UNCHANGED cur_col
    <3>1. FrameOf(lines', rows, cols) /\ cur_row' \in 1 .. rows
      BY <1>0, <2>3, DownScreen
    <3>2. QED BY <1>0, <2>1, <2>3, <3>1, GoodScreen
  <2>4. CASE UNCHANGED <<lines, cur_row, cur_col>>
    BY <2>1, <2>4, SameScreen
  <2>5. QED BY <1>3, <2>2, <2>3, <2>4 DEF LineFeed
<1>4. CASE Backspace \/ Tab
  BY <1>0, <1>4, GoodScreen DEF Backspace, Tab, Moves, Off
<1>5. CASE Escape \/ OtherControl
  BY <1>5, SameScreen DEF Escape, OtherControl
<1>6. QED BY <1>2, <1>3, <1>4, <1>5

LEMMA PstKeeps ==
  ASSUME TermTypeOK, Framed, OnScreen,
         \/ PstHome \/ PstRight \/ PstUp \/ PstDown \/ PstClearToEol \/ PstClearToEos
         \/ PstClear \/ PstGoto \/ PstX \/ PstY
  PROVE  (Framed' \/ Eos) /\ (OnScreen' \/ Off)
<1> USE DEF sizevars, screen, cursor
<1>0. /\ rows \in Nat \ {0} /\ cols \in Nat \ {0} /\ lines \in Lines /\ Len(lines) > rows
      /\ FrameOf(lines, rows, cols) /\ cur_row \in 1 .. rows /\ cur_col \in 0 .. cols
  BY TermAssumption DEF TermTypeOK, Lines, Line, Framed, OnScreen, FrameOf
<1>1. Pst => writing = "no" /\ alive = TRUE /\ UNCHANGED <<rows, cols>>
  BY DEF Pst, Control, Ready, TermTypeOK
<1>2. CASE PstHome
  <2>1. cur_row' \in 1 .. rows /\ cur_col' \in 0 .. cols - 1
    BY <1>2, GotoScreen DEF PstHome
  <2>2. cur_col' \in 0 .. cols /\ FrameOf(lines', rows, cols)
    BY <1>0, <1>2, <2>1 DEF PstHome
  <2>3. QED BY <1>1, <1>2, <2>1, <2>2, GoodScreen DEF PstHome
<1>3. CASE PstRight \/ PstUp
  BY <1>0, <1>1, <1>3, GoodScreen DEF PstRight, PstUp, Moves, Off
<1>4. CASE PstDown
  <2>1. FrameOf(lines', rows, cols) /\ cur_row' \in 1 .. rows
    BY <1>0, <1>4, DownScreen DEF PstDown
  <2>2. QED BY <1>0, <1>1, <1>4, <2>1, GoodScreen DEF PstDown
<1>5. CASE PstClearToEol
  <2>1. FrameOf(lines', rows, cols) /\ cur_row' = cur_row /\ cur_col' = cur_col
    BY <1>1, <1>5, ClearToEolScreen DEF PstClearToEol
  <2>2. QED BY <1>0, <1>1, <1>5, <2>1, GoodScreen DEF PstClearToEol
<1>6. CASE PstClearToEos
  <2>1. cur_row' = cur_row /\ cur_col' \in 0 .. cols
    BY <1>1, <1>6, ClearToEosScreen DEF PstClearToEos
  <2>2. QED BY <1>0, <1>1, <1>6, <2>1, GoodScreen DEF PstClearToEos, Eos
<1>7. CASE PstClear
  <2>1. rows \in RowSizes /\ cols \in ColSizes /\ rows' = rows /\ cols' = cols /\ TermClear
    BY <1>1, <1>7 DEF PstClear, TermTypeOK
  <2>2. /\ FrameOf(lines', rows, cols)
        /\ cur_row' \in 1 .. rows /\ cur_col' \in 0 .. cols
    BY <2>1, ClearScreen
  <2>3. QED BY <2>1, <2>2, GoodScreen
<1>8. CASE PstGoto
  BY <1>1, <1>8, SameScreen DEF PstGoto
<1>9. CASE PstX \/ PstY
  <2>1. UNCHANGED <<rows, cols, lines>>
    BY <1>9 DEF PstX, PstY, InState
  <2>2. QED BY <1>0, <1>9, <2>1, GoodScreen DEF Off
<1>10. QED BY <1>2, <1>3, <1>4, <1>5, <1>6, <1>7, <1>8, <1>9

LEMMA AnsiKeeps ==
  ASSUME TermTypeOK, Framed, OnScreen, GatherEscape \/ CsiMove \/ CsiClear \/ CsiGraphics \/ CsiOther
  PROVE  (Framed' \/ Eos) /\ OnScreen'
<1> USE DEF sizevars, screen, cursor
<1>0. /\ rows \in Nat \ {0} /\ cols \in Nat \ {0} /\ lines \in Lines /\ Len(lines) > rows
      /\ FrameOf(lines, rows, cols) /\ cur_row \in 1 .. rows /\ cur_col \in 0 .. cols
  BY TermAssumption DEF TermTypeOK, Lines, Line, Framed, OnScreen, FrameOf
<1>1. \A st \in States : InState(st) => /\ writing = "no" /\ alive = TRUE
                                       /\ UNCHANGED <<rows, cols>>
  BY DEF InState, Ready, TermTypeOK
<1>2. CASE GatherEscape \/ CsiOther \/ CsiGraphics
  BY <1>1, <1>2, SameScreen DEF GatherEscape, CsiOther, CsiGraphics, States
<1>3. CASE CsiMove
  <2>1. PICK r \in Int, c \in Int : GotoXY(r, c)
    BY <1>3, TermAssumption DEF CsiMove, TermTypeOK
  <2>2. cur_row' \in 1 .. rows /\ cur_col' \in 0 .. cols - 1
    BY <2>1, GotoScreen
  <2>3. cur_col' \in 0 .. cols
    BY <1>0, <2>2
  <2>4. UNCHANGED <<rows, cols, lines>>
    BY <1>1, <1>3 DEF CsiMove, States
  <2>5. QED BY <1>0, <2>2, <2>3, <2>4, GoodScreen
<1>4. CASE CsiClear
  <2>1. writing = "no" /\ alive = TRUE /\ UNCHANGED <<rows, cols>>
    BY <1>1, <1>4 DEF CsiClear, States
  <2>2. CASE ClearToEol
    BY <1>0, <2>1, <2>2, ClearToEolScreen, GoodScreen
  <2>3. CASE ClearToEos
    <3>1. cur_row' = cur_row /\ cur_col' \in 0 .. cols
      BY <2>1, <2>3, ClearToEosScreen
    <3>2. OnScreen'
      BY <1>0, <2>1, <3>1, GoodScreen
    <3>3. QED BY <1>4, <3>2 DEF Eos
  <2>4. QED BY <1>4, <2>2, <2>3 DEF CsiClear
<1>5. QED BY <1>2, <1>3, <1>4

LEMMA OutsideKeeps ==
  ASSUME TermTypeOK, Framed, OnScreen, RunInWindow \/ TermResize \/ ChooseKind
  PROVE  Framed' /\ OnScreen'
<1> USE DEF sizevars, screen, cursor
<1>1. CASE RunInWindow \/ TermResize
  <2>1. PICK r \in RowSizes, c \in ColSizes : rows' = r /\ cols' = c
    BY <1>1 DEF RunInWindow, TermResize, TermTypeOK
  <2>2. /\ FrameOf(lines', r, c)
        /\ cur_row' \in 1 .. r /\ cur_col' \in 0 .. c
    BY <1>1, <2>1, ClearScreen, ResizeScreen DEF RunInWindow
  <2>3. QED BY <2>1, <2>2 DEF FrameOf, Framed, OnScreen
<1>2. CASE ChooseKind
  BY <1>2, SameScreen DEF ChooseKind
<1>3. QED BY <1>1, <1>2

LEMMA Keeps ==
  ASSUME TermTypeOK, Framed, OnScreen, [Next]_tvars
  PROVE  (Framed' \/ Eos) /\ (OnScreen' \/ Off)
<1>1. CASE UNCHANGED tvars
  BY <1>1, SameScreen DEF tvars, sizevars, screen, cursor
<1>2. QED BY <1>1, WriteKeeps, ControlKeeps, PstKeeps, AnsiKeeps, OutsideKeeps DEF Next

\* On a terminal of any size, with the cursor on the screen, only clearing to
\* the end of the screen changes the number or the width of its lines.
THEOREM KeepsFrameHolds == Spec => KeepsFrame
<1>1. TermTypeOK /\ [Next]_tvars => [Framed /\ OnScreen => Framed' \/ CsiClear \/ PstClearToEos]_tvars
  BY Keeps DEF Eos
<1>2. QED BY <1>1, TermTypeCorrect, PTL DEF Spec, KeepsFrame

\* On a terminal of any size only backspace, tab and the PST moves that set
\* the cursor without term_gotoxy take it off the screen.
THEOREM StaysOnScreenHolds == Spec => StaysOnScreen
<1>1. TermTypeOK /\ [Next]_tvars
        => [Framed /\ OnScreen /\ ~OnScreen'
              => Backspace \/ Tab \/ PstRight \/ PstUp \/ PstX \/ PstY]_tvars
  BY Keeps DEF Off
<1>2. QED BY <1>1, TermTypeCorrect, PTL DEF Spec, StaysOnScreen
-----------------------------------------------------------------------------
LEMMA FailsStep ==
  ASSUME TermTypeOK, [Next]_tvars, OnScreen, alive = TRUE
  PROVE  alive' \/ Fails
<1> USE DEF writevars
<1>1. CASE UNCHANGED tvars \/ Receive \/ FullLine \/ LastLine \/ TermResize \/ ChooseKind
  BY <1>1 DEF tvars, Receive, FullLine, LastLine, TermResize, ChooseKind
<1>2. CASE FirstLine
  <2>1. cols \in Nat /\ cur_col \in 0 .. cols
    BY TermAssumption DEF TermTypeOK, OnScreen
  <2>2. ~(Space < 0)
    BY <2>1 DEF Space
  <2>3. QED BY <1>2, <2>2 DEF FirstLine, WriteFirst
<1>3. CASE CarriageReturn
  BY <1>3, NewlineScreen DEF CarriageReturn, Fails
<1>4. CASE LineFeed
  BY <1>4, NewlineScreen DEF LineFeed, Fails
<1>5. CASE \/ Backspace \/ Tab \/ Escape \/ OtherControl
           \/ PstHome \/ PstRight \/ PstUp \/ PstDown \/ PstClear \/ PstGoto \/ PstX \/ PstY
           \/ GatherEscape \/ CsiMove \/ CsiOther
  BY <1>5 DEF Backspace, Tab, Escape, OtherControl, PstHome, PstRight, PstUp, PstDown, PstClear,
              PstGoto, PstX, PstY, GatherEscape, CsiMove, CsiOther, Moves
<1>6. CASE PstClearToEol \/ PstClearToEos \/ CsiClear
  <2>1. writing = "no" /\ (ClearToEol \/ ClearToEos)
    BY <1>6 DEF PstClearToEol, PstClearToEos, CsiClear, Pst, Control, Ready, InState
  <2>2. QED BY <2>1, ClearToEolScreen, ClearToEosScreen
<1>7. CASE RunInWindow
  BY <1>7 DEF Fails
<1>8. CASE CsiGraphics
  BY <1>8 DEF CsiGraphics, InState, Fails
<1>9. QED BY <1>1, <1>2, <1>3, <1>4, <1>5, <1>6, <1>7, <1>8 DEF Next

\* On a terminal of any size, while the cursor is on the screen no byte
\* silences the terminal, but for a line end after a debug command that
\* failed, a LF that is the first byte ever, and the end of a graphics
\* sequence with a malformed argument.
THEOREM FailsOnlyOffScreenHolds == Spec => FailsOnlyOffScreen
<1>1. TermTypeOK /\ [Next]_tvars
        => [OnScreen /\ alive /\ ~alive'
              => \/ RunInWindow
                 \/ DebugLine /\ (CarriageReturn \/ LineFeed)
                 \/ cur_saw_cr = "unset" /\ LineFeed
                 \/ CsiGraphics /\ cur_state' # "normal"]_tvars
  BY FailsStep DEF Fails, TermTypeOK
<1>2. QED BY <1>1, TermTypeCorrect, PTL DEF Spec, FailsOnlyOffScreen

\* Whatever the terminal kind and whenever it is changed, cur_saw_cr tells of
\* every PST byte whether the byte before it was a CR.
THEOREM SawCrIsLastHolds == Spec => []SawCrIsLast
<1> USE DEF SawCrIsLast, parservars
<1>1. Init => SawCrIsLast
  BY DEF Init
<1>2. SawCrIsLast /\ [Next]_tvars => SawCrIsLast'
  <2> SUFFICES ASSUME SawCrIsLast, [Next]_tvars PROVE SawCrIsLast'
    OBVIOUS
  <2>1. CASE UNCHANGED tvars \/ FirstLine \/ FullLine \/ LastLine \/ TermResize \/ ChooseKind
    BY <2>1 DEF tvars, FirstLine, FullLine, LastLine, TermResize, ChooseKind
  <2>2. NoLineEnd => SawCrIsLast'
    BY DEF NoLineEnd
  <2>3. CASE \/ Receive \/ Backspace \/ Tab \/ Escape \/ OtherControl
             \/ PstHome \/ PstRight \/ PstUp \/ PstDown \/ PstClearToEol \/ PstClearToEos
             \/ PstClear \/ PstGoto \/ PstX \/ PstY
             \/ GatherEscape \/ CsiMove \/ CsiClear \/ CsiGraphics \/ CsiOther
    <3>1. NoLineEnd
      BY <2>3 DEF Receive, Backspace, Tab, Escape, OtherControl, Pst, PstHome, PstRight, PstUp,
                  PstDown, PstClearToEol, PstClearToEos, PstClear, PstGoto, PstX, PstY,
                  GatherEscape, CsiMove, CsiClear, CsiGraphics, CsiOther, InState
    <3>2. QED BY <2>2, <3>1
  <2>4. CASE CarriageReturn
    BY <2>4 DEF CarriageReturn
  <2>5. CASE LineFeed
    BY <2>5 DEF LineFeed
  <2>6. CASE RunInWindow
    BY <2>6 DEF RunInWindow
  <2>7. QED BY <2>1, <2>3, <2>4, <2>5, <2>6 DEF Next
<1>3. QED BY <1>1, <1>2, PTL DEF Spec

-----------------------------------------------------------------------------
(* What term_insert prints.                                                *)

\* The screens of r rows and c columns.
Screens(r, c) == [text : [1 .. r -> [1 .. c -> Chars]], row : 1 .. r, col : 0 .. c]

\* h is what becomes of t as s is typed on it.
Typing(h, t, s, r, c) ==
  /\ h[0] = t
  /\ \A k \in 1 .. Len(s) : h[k] = Put(Wrapped(h[k - 1], r, c), s[k])

LEMMA WrappedScreen ==
  ASSUME NEW r \in Nat \ {0}, NEW c \in Nat \ {0}, NEW t \in Screens(r, c)
  PROVE  Wrapped(t, r, c) \in Screens(r, c) /\ Wrapped(t, r, c).col < c
<1>1. t.row \in 1 .. r /\ t.col \in 0 .. c /\ t.text \in [1 .. r -> [1 .. c -> Chars]]
  BY DEF Screens
<1>2. CASE t.col < c
  BY <1>2 DEF Wrapped
<1>3. CASE ~(t.col < c) /\ t.row < r
  <2>1. Wrapped(t, r, c) = [text |-> t.text, row |-> t.row + 1, col |-> 0]
    BY <1>3 DEF Wrapped
  <2>2. t.row + 1 \in 1 .. r /\ 0 \in 0 .. c /\ 0 < c
    BY <1>1, <1>3
  <2>3. QED BY <1>1, <2>1, <2>2 DEF Screens
<1>4. CASE ~(t.col < c) /\ ~(t.row < r)
  <2> DEFINE S == [1 .. c -> Chars]
             u == Append(Tail(t.text), Blank(c))
  <2>1. Wrapped(t, r, c) = [text |-> u, row |-> t.row, col |-> 0]
    BY <1>4 DEF Wrapped
  <2>2. Blank(c) \in S
    BY DEF Blank, Chars
  <2>3. t.text \in Seq(S) /\ Len(t.text) = r /\ t.text # <<>>
    BY <1>1
  <2> HIDE DEF S
  <2>4. Tail(t.text) \in Seq(S) /\ Len(Tail(t.text)) = r - 1
    BY <2>3, HeadTailProperties
  <2>5. u \in Seq(S) /\ Len(u) = r
    BY <2>2, <2>4, AppendProperties
  <2> HIDE DEF u
  <2>6. u \in [1 .. r -> S]
    BY <2>5
  <2>7. 0 \in 0 .. c /\ 0 < c
    OBVIOUS
  <2>8. QED BY <1>1, <2>1, <2>6, <2>7 DEF Screens, S
<1>5. QED BY <1>2, <1>3, <1>4

LEMMA PutScreen ==
  ASSUME NEW r \in Nat \ {0}, NEW c \in Nat \ {0}, NEW t \in Screens(r, c), t.col < c,
         NEW ch \in Chars
  PROVE  Put(t, ch) \in Screens(r, c)
<1>1. t.row \in 1 .. r /\ t.col \in 0 .. c /\ t.text \in [1 .. r -> [1 .. c -> Chars]]
  BY DEF Screens
<1>2. t.col + 1 \in 0 .. c
  BY <1>1
<1> DEFINE l == [t.text[t.row] EXCEPT ![t.col + 1] = ch]
           u == [t.text EXCEPT ![t.row] = l]
<1>3. l \in [1 .. c -> Chars]
  BY <1>1
<1>4. Put(t, ch) = [text |-> u, row |-> t.row, col |-> t.col + 1]
  BY DEF Put
<1> HIDE DEF l
<1>5. u \in [1 .. r -> [1 .. c -> Chars]]
  BY <1>1, <1>3
<1> HIDE DEF u
<1>6. QED BY <1>1, <1>2, <1>4, <1>5 DEF Screens

\* The recursion of TypedOn has a solution, and all are the same.
LEMMA TypedRuns ==
  ASSUME NEW r \in Nat \ {0}, NEW c \in Nat \ {0}, NEW t \in Screens(r, c), NEW s \in Seq(Chars)
  PROVE  \E h : /\ Typing(h, t, s, r, c)
                /\ TypedOn(t, s, r, c) = Wrapped(h[Len(s)], r, c)
<1> DEFINE n == Len(s)
           D == Screens(r, c)
           step == [i \in 1 .. n |-> [e \in D |-> Put(Wrapped(e, r, c), s[i])]]
           Solves(f) == f = [i \in 0 .. n |-> IF i = 0 THEN t ELSE Put(Wrapped(f[i - 1], r, c), s[i])]
           done == CHOOSE f : Solves(f)
<1>1. n \in Nat /\ \A i \in 1 .. n : s[i] \in Chars
  OBVIOUS
<1>2. TypedOn(t, s, r, c) = Wrapped(done[n], r, c)
  BY DEF TypedOn
<1>3. step \in [1 .. n -> [D -> D]] /\ \A i \in 1 .. n, e \in D : step[i][e] = Put(Wrapped(e, r, c), s[i])
  <2>1. \A i \in 1 .. n, e \in D : Put(Wrapped(e, r, c), s[i]) \in D
    BY <1>1, WrappedScreen, PutScreen
  <2> HIDE DEF D
  <2>2. QED BY <2>1
<1>4. t \in D
  OBVIOUS
<1> HIDE DEF D, step, n
<1>5. PICK g : Folding(g, n, D, t, step)
  BY <1>1, <1>3, <1>4, FoldSolved
<1> DEFINE h == [k \in 0 .. n |-> g[1 .. k]]
<1>6. h[0] = t
  <2>1. 1 .. 0 = {} /\ {} \in SUBSET (1 .. n)
    OBVIOUS
  <2>2. h[0] = g[1 .. 0]
    BY <1>1
  <2>3. g[{}] = t
    BY <1>5, <2>1 DEF Folding
  <2>4. QED BY <2>1, <2>2, <2>3
<1>7. \A k \in 0 .. n : h[k] = g[1 .. k] /\ h[k] \in D
  <2>1. \A k \in 0 .. n : 1 .. k \in SUBSET (1 .. n)
    BY <1>1
  <2>2. QED BY <1>5, <2>1 DEF Folding
<1>8. ASSUME NEW k \in 1 .. n PROVE h[k] = Put(Wrapped(h[k - 1], r, c), s[k])
  <2>1. 1 .. k # {} /\ 1 .. k \in SUBSET (1 .. n) /\ Max(1 .. k) = k /\ (1 .. k) \ {Max(1 .. k)} = 1 .. k - 1
    BY <1>1, FoldSteps
  <2>2. g[1 .. k] = step[k][g[1 .. k - 1]]
    BY <1>5, <2>1 DEF Folding
  <2>3. k - 1 \in 0 .. n /\ k \in 0 .. n
    BY <1>1
  <2>4. h[k] = g[1 .. k] /\ h[k - 1] = g[1 .. k - 1] /\ h[k - 1] \in D
    BY <1>7, <2>3
  <2>5. QED BY <1>3, <2>2, <2>4
<1>9. Solves(h)
  <2>1. h = [k \in 0 .. n |-> h[k]]
    OBVIOUS
  <2> HIDE DEF h
  <2>2. \A k \in 0 .. n : h[k] = IF k = 0 THEN t ELSE Put(Wrapped(h[k - 1], r, c), s[k])
    <3> SUFFICES ASSUME NEW k \in 0 .. n, k # 0
                 PROVE  h[k] = Put(Wrapped(h[k - 1], r, c), s[k])
      BY <1>6
    <3>1. k \in 1 .. n
      BY <1>1
    <3>2. QED BY <1>8, <3>1
  <2>3. QED BY <2>1, <2>2
<1> HIDE DEF h
<1>10. Solves(done)
  <2> HIDE DEF Solves
  <2>1. QED BY <1>9
<1> HIDE DEF done
<1>11. done[0] = t /\ \A k \in 1 .. n : done[k] = Put(Wrapped(done[k - 1], r, c), s[k])
  <2>1. 0 \in 0 .. n /\ \A k \in 1 .. n : k \in 0 .. n /\ k # 0
    BY <1>1
  <2>2. \A k \in 0 .. n : done[k] = IF k = 0 THEN t ELSE Put(Wrapped(done[k - 1], r, c), s[k])
    BY <1>10
  <2> HIDE DEF Solves
  <2>3. QED BY <2>1, <2>2
<1>12. QED BY <1>2, <1>11 DEF Typing, n

LEMMA FirstAndRest ==
  ASSUME NEW S, NEW s \in Seq(S), NEW n \in 0 .. Len(s)
  PROVE  /\ SubSeq(s, 1, n) \in Seq(S) /\ Len(SubSeq(s, 1, n)) = n
         /\ \A i \in 1 .. n : SubSeq(s, 1, n)[i] = s[i]
         /\ SubSeq(s, n + 1, Len(s)) \in Seq(S) /\ Len(SubSeq(s, n + 1, Len(s))) = Len(s) - n
         /\ \A i \in 1 .. Len(s) - n : SubSeq(s, n + 1, Len(s))[i] = s[n + i]
<1> DEFINE m == n + 1
           e == Len(s)
<1>1. n \in Nat /\ e \in Nat /\ n <= e /\ m \in Int /\ e \in Int
  OBVIOUS
<1>2. \A i \in 1 .. n : s[i] \in S
  BY <1>1
<1>3. SubSeq(s, 1, n) \in Seq(S) /\ Len(SubSeq(s, 1, n)) = n
      /\ \A i \in 1 .. n : SubSeq(s, 1, n)[i] = s[i]
  <2>1. n - 1 + 1 = n /\ 1 \in Int /\ n \in Int /\ \A i \in 1 .. n : 1 + i - 1 = i
    BY <1>1
  <2>2. QED BY <1>1, <1>2, <2>1, SubSeqProperties
<1>4. \A i \in m .. e : s[i] \in S
  BY <1>1
<1> HIDE DEF m, e
<1>5. /\ SubSeq(s, m, e) \in Seq(S)
      /\ Len(SubSeq(s, m, e)) = IF m <= e THEN e - m + 1 ELSE 0
      /\ \A i \in 1 .. e - m + 1 : SubSeq(s, m, e)[i] = s[m + i - 1]
  BY <1>1, <1>4, SubSeqProperties
<1>6. /\ e - m + 1 = e - n /\ (IF m <= e THEN e - m + 1 ELSE 0) = e - n
      /\ \A i \in 1 .. e - n : m + i - 1 = n + i
  BY <1>1 DEF m
<1>7. /\ SubSeq(s, m, e) \in Seq(S) /\ Len(SubSeq(s, m, e)) = e - n
      /\ \A i \in 1 .. e - n : SubSeq(s, m, e)[i] = s[n + i]
  BY <1>5, <1>6, Zenon
<1>8. QED BY <1>3, <1>7 DEF m, e

\* What follows on the same screen is the same, wherever the run is cut.
LEMMA TypedFrom ==
  ASSUME NEW r \in Nat \ {0}, NEW c \in Nat \ {0}, NEW t \in Screens(r, c), NEW s \in Seq(Chars),
         NEW u \in Screens(r, c), NEW n \in 0 .. Len(s),
         NEW h, Typing(h, t, s, r, c), TypedOn(t, s, r, c) = Wrapped(h[Len(s)], r, c),
         Wrapped(u, r, c) = Wrapped(h[n], r, c)
  PROVE  TypedOn(u, SubSeq(s, n + 1, Len(s)), r, c) = TypedOn(t, s, r, c)
<1> DEFINE b == SubSeq(s, n + 1, Len(s))
<1>0. b \in Seq(Chars) /\ Len(b) = Len(s) - n /\ \A k \in 1 .. Len(s) - n : b[k] = s[n + k]
  BY FirstAndRest
<1> HIDE DEF b
<1>1. Typing(h, t, s, r, c) /\ TypedOn(t, s, r, c) = Wrapped(h[Len(s)], r, c)
  OBVIOUS
<1>2. PICK j : Typing(j, u, b, r, c) /\ TypedOn(u, b, r, c) = Wrapped(j[Len(b)], r, c)
  BY <1>0, TypedRuns
<1>3. Len(b) \in Nat /\ Len(s) \in Nat /\ n \in Nat /\ n + Len(b) = Len(s)
  BY <1>0
<1> DEFINE m == Len(b)
           W == [k \in 0 .. m |-> Wrapped(j[k], r, c)]
           V == [k \in 0 .. m |-> {Wrapped(h[n + k], r, c)}]
<1>4. \A k \in 0 .. m : W[k] = Wrapped(j[k], r, c) /\ V[k] = {Wrapped(h[n + k], r, c)}
  OBVIOUS
<1> HIDE DEF W, V
<1>5. W[0] \in V[0]
  <2>1. Wrapped(u, r, c) = Wrapped(h[n], r, c) /\ j[0] = u
    BY <1>1, <1>2 DEF Typing
  <2>2. 0 \in 0 .. m /\ n + 0 = n
    BY <1>3
  <2>3. W[0] = Wrapped(j[0], r, c) /\ V[0] = {Wrapped(h[n], r, c)}
    BY <1>4, <2>2
  <2>4. QED BY <2>1, <2>3
<1>6. ASSUME NEW k \in 1 .. m, W[k - 1] \in V[k - 1] PROVE W[k] \in V[k]
  <2>1. k \in 0 .. m /\ k - 1 \in 0 .. m /\ n + k \in 1 .. Len(s) /\ n + (k - 1) = (n + k) - 1
    BY <1>3
  <2>2. Wrapped(j[k - 1], r, c) = Wrapped(h[(n + k) - 1], r, c)
    BY <1>4, <1>6, <2>1
  <2>3. j[k] = Put(Wrapped(j[k - 1], r, c), b[k])
    BY <1>2 DEF Typing
  <2>4. h[n + k] = Put(Wrapped(h[(n + k) - 1], r, c), s[n + k])
    BY <1>1, <2>1 DEF Typing
  <2>5. j[k] = h[n + k]
    BY <1>0, <2>2, <2>3, <2>4
  <2>6. QED BY <1>4, <2>1, <2>5
<1>7. \A k \in 0 .. m : W[k] \in V[k]
  BY <1>3, <1>5, <1>6, StepsStay
<1>8. m \in 0 .. m
  BY <1>3
<1>9. Wrapped(j[m], r, c) = Wrapped(h[n + m], r, c)
  BY <1>4, <1>7, <1>8
<1>10. QED BY <1>1, <1>2, <1>3, <1>9 DEF b

\* Line l with the first n characters of s after its first from characters.
Filled(l, from, s, n) ==
  [j \in DOMAIN l |-> IF j > from /\ j <= from + n THEN s[j - from] ELSE l[j]]

\* Screen t with the first n characters of s at the cursor.
Block(t, s, n) ==
  [text |-> [t.text EXCEPT ![t.row] = Filled(t.text[t.row], t.col, s, n)],
   row |-> t.row, col |-> t.col + n]

\* As long as the line has room, typing fills it.
LEMMA TypedBlock ==
  ASSUME NEW r \in Nat \ {0}, NEW c \in Nat \ {0}, NEW t \in Screens(r, c), NEW s \in Seq(Chars),
         NEW n \in 0 .. Len(s), t.col + n <= c,
         NEW h, Typing(h, t, s, r, c)
  PROVE  h[n] = Block(t, s, n)
<1>1. t.row \in 1 .. r /\ t.col \in 0 .. c /\ t.text \in [1 .. r -> [1 .. c -> Chars]]
      /\ t = [text |-> t.text, row |-> t.row, col |-> t.col]
  BY DEF Screens
<1>2. Len(s) \in Nat /\ n \in Nat
  OBVIOUS
<1> DEFINE l == t.text[t.row]
           B == [k \in 0 .. n |-> {Block(t, s, k)}]
<1>3. \A k \in 0 .. n : B[k] = {Block(t, s, k)}
  OBVIOUS
<1>4. l \in [1 .. c -> Chars] /\ DOMAIN l = 1 .. c
  BY <1>1
<1> HIDE DEF B
<1>5. h[0] \in B[0]
  <2>1. Filled(l, t.col, s, 0) = l
    <3>1. \A j \in DOMAIN l : ~(j > t.col /\ j <= t.col + 0)
      BY <1>1, <1>4
    <3>2. Filled(l, t.col, s, 0) = [j \in DOMAIN l |-> l[j]]
      BY <3>1 DEF Filled
    <3>3. QED BY <1>4, <3>2
  <2>2. [t.text EXCEPT ![t.row] = l] = t.text
    BY <1>1
  <2>3. t.col + 0 = t.col
    BY <1>1
  <2> HIDE DEF l
  <2>4. Block(t, s, 0) = [text |-> t.text, row |-> t.row, col |-> t.col]
    BY <2>1, <2>2, <2>3 DEF Block, l
  <2>5. h[0] = t /\ 0 \in 0 .. n
    BY <1>2 DEF Typing
  <2>6. QED BY <1>1, <1>3, <2>4, <2>5
<1>6. ASSUME NEW k \in 1 .. n, h[k - 1] \in B[k - 1] PROVE h[k] \in B[k]
  <2> DEFINE e == Block(t, s, k - 1)
             old == Filled(l, t.col, s, k - 1)
             new == Filled(l, t.col, s, k)
  <2>1. k \in 0 .. n /\ k - 1 \in 0 .. n /\ k \in 1 .. Len(s)
    BY <1>2
  <2>2. h[k - 1] = e
    BY <1>3, <1>6, <2>1
  <2>3. /\ e.text = [t.text EXCEPT ![t.row] = old]
        /\ e.row = t.row /\ e.col = t.col + (k - 1)
    BY DEF Block
  <2>4. e.col < c /\ e.col + 1 = t.col + k /\ e.col + 1 \in 1 .. c
    BY <1>1, <1>2, <2>3
  <2>5. h[k] = Put(e, s[k])
    BY <2>1, <2>2, <2>4 DEF Typing, Wrapped
  <2>6. [old EXCEPT ![t.col + k] = s[k]] = new
    <3>1. DOMAIN old = 1 .. c /\ old = [j \in 1 .. c |-> old[j]]
      BY <1>4 DEF Filled
    <3>2. \A j \in 1 .. c : j # t.col + k => old[j] = new[j]
      <4> SUFFICES ASSUME NEW j \in 1 .. c, j # t.col + k PROVE old[j] = new[j]
        OBVIOUS
      <4>0. j \in Int /\ k \in Int /\ t.col \in Int /\ j # t.col + k
        BY <1>1, <1>2
      <4>1. (j <= t.col + (k - 1)) <=> (j <= t.col + k)
        BY <4>0
      <4>2. QED BY <1>4, <4>1 DEF Filled
    <3>3. new[t.col + k] = s[k] /\ DOMAIN new = 1 .. c /\ new = [j \in 1 .. c |-> new[j]]
      <4>1. t.col + k \in 1 .. c /\ t.col + k > t.col /\ t.col + k <= t.col + k /\ (t.col + k) - t.col = k
        BY <1>1, <2>3, <2>4
      <4>2. QED BY <1>4, <4>1 DEF Filled
    <3> HIDE DEF old, new
    <3>4. t.col + k \in 1 .. c
      BY <2>3, <2>4
    <3>5. QED BY <3>1, <3>2, <3>3, <3>4
  <2>7. Put(e, s[k]) = [text |-> [e.text EXCEPT ![e.row] = [e.text[e.row] EXCEPT ![e.col + 1] = s[k]]],
                        row |-> e.row, col |-> e.col + 1]
    BY DEF Put
  <2>8. e.text[t.row] = old
    BY <1>1, <2>3
  <2> HIDE DEF e, old, new
  <2>9. Put(e, s[k]) = [text |-> [e.text EXCEPT ![t.row] = new], row |-> t.row, col |-> t.col + k]
    BY <2>3, <2>4, <2>6, <2>7, <2>8
  <2>10. [e.text EXCEPT ![t.row] = new] = [t.text EXCEPT ![t.row] = new]
    BY <1>1, <2>3
  <2>11. Put(e, s[k]) = Block(t, s, k)
    BY <2>9, <2>10 DEF Block, new
  <2>12. QED BY <1>3, <2>1, <2>5, <2>11
<1>7. \A k \in 0 .. n : h[k] \in B[k]
  BY <1>2, <1>5, <1>6, StepsStay
<1>8. QED BY <1>2, <1>3, <1>7

LEMMA ScreenText ==
  ASSUME NEW r \in Nat, NEW c \in Nat, NEW ls \in Lines, FrameOf(ls, r, c)
  PROVE  /\ SubSeq(ls, 1, r) \in [1 .. r -> [1 .. c -> Chars]]
         /\ SubSeq(ls, 1, r) \in Seq(Line) /\ Len(SubSeq(ls, 1, r)) = r
         /\ \A i \in 1 .. r : SubSeq(ls, 1, r)[i] = ls[i] /\ ls[i] \in [1 .. c -> Chars]
<1> DEFINE u == SubSeq(ls, 1, r)
<1>1. ls \in Seq(Line) /\ Len(ls) = r + 1
  BY DEF Lines, FrameOf
<1>2. r \in 0 .. Len(ls) /\ 1 \in 1 .. Len(ls) + 1 /\ r - 1 + 1 = r
  BY <1>1
<1>3. u \in Seq(Line) /\ Len(u) = r /\ \A i \in 1 .. r : u[i] = ls[i]
  BY <1>1, <1>2, SubSeqProperties
<1> HIDE DEF u
<1>4. \A i \in 1 .. r : ls[i] \in Seq(Chars) /\ Len(ls[i]) = c
  BY <1>1 DEF FrameOf, Line
<1>5. \A i \in 1 .. r : ls[i] \in [1 .. c -> Chars]
  BY <1>4
<1>6. u \in [1 .. r -> [1 .. c -> Chars]]
  <2>1. u = [i \in 1 .. r |-> u[i]]
    BY <1>3
  <2>2. QED BY <1>3, <1>5, <2>1
<1>7. QED BY <1>3, <1>5, <1>6 DEF u

\* Writing p over the screen is filling a line with the text p begins.
LEMMA OverwriteFills ==
  ASSUME NEW rr \in Nat, NEW cc \in Nat, NEW ls \in Lines, FrameOf(ls, rr, cc),
         NEW r \in 1 .. rr, NEW c \in 0 .. cc, NEW s \in Line,
         NEW n \in 0 .. Len(s), c + n <= cc
  PROVE  SubSeq(Overwrite(ls, r, c, c + n, SubSeq(s, 1, n)), 1, rr) =
           [SubSeq(ls, 1, rr) EXCEPT ![r] = Filled(ls[r], c, s, n)]
<1> DEFINE l == ls[r]
           p == SubSeq(s, 1, n)
           new == (SubSeq(l, 1, c) \o p) \o SubSeq(l, c + n + 1, Len(l))
           v == Overwrite(ls, r, c, c + n, p)
<1>p. p \in Seq(Chars) /\ Len(p) = n /\ \A j \in 1 .. n : p[j] = s[j]
  <2>1. s \in Seq(Chars)
    BY DEF Line
  <2>2. QED BY <2>1, FirstAndRest
<1>0. l \in Seq(Chars) /\ Len(l) = cc /\ l \in [1 .. cc -> Chars] /\ n \in Nat
      /\ Len(ls) = rr + 1 /\ ls \in Seq(Line)
  <2>1. l \in [1 .. cc -> Chars]
    BY ScreenText
  <2>2. s \in Seq(Chars) /\ Len(ls) = rr + 1 /\ ls \in Seq(Line)
    BY DEF Line, Lines, FrameOf
  <2>3. n \in Nat
    BY <2>2
  <2> HIDE DEF l
  <2>4. QED BY <2>1, <2>2, <2>3
<1>1. v = [ls EXCEPT ![r] = new]
  <2>1. ~(r < 1) /\ ~(r > Len(ls))
    BY <1>0
  <2>2. v = [ls EXCEPT ![r] = SubSeq(l, 1, Clamp(c, 0, Len(l))) \o p
               \o SubSeq(l, Clamp(c + n, Clamp(c, 0, Len(l)), Len(l)) + 1, Len(l))]
    BY <2>1 DEF Overwrite
  <2>3. Clamp(c, 0, Len(l)) = c /\ Clamp(c + n, c, Len(l)) = c + n
    BY <1>0 DEF Clamp
  <2> HIDE DEF v, l
  <2>4. QED BY <2>2, <2>3
<1> HIDE DEF l, p, v
<1>2. new \in [1 .. cc -> Chars] /\ \A j \in 1 .. cc :
        new[j] = IF j > c /\ j <= c + n THEN p[j - c] ELSE l[j]
  <2> DEFINE before == SubSeq(l, 1, c)
             after  == SubSeq(l, c + n + 1, Len(l))
             first  == before \o p
  <2>1. before \in Seq(Chars) /\ Len(before) = c /\ \A j \in 1 .. c : before[j] = l[j]
    <3>1. 1 \in 1 .. Len(l) + 1 /\ c \in 0 .. Len(l) /\ c - 1 + 1 = c
      BY <1>0
    <3>2. QED BY <1>0, <3>1, SubSeqProperties
  <2>2. /\ after \in Seq(Chars) /\ Len(after) = cc - (c + n)
        /\ \A j \in 1 .. cc - (c + n) : after[j] = l[j + (c + n)]
    <3> DEFINE f == c + n + 1
               e == Len(l)
    <3>1. f \in 1 .. Len(l) + 1 /\ e \in 0 .. Len(l) /\ c + n \in Int
      BY <1>0
    <3>2. /\ after \in Seq(Chars)
          /\ Len(after) = IF f <= e THEN e - f + 1 ELSE 0
          /\ \A j \in 1 .. e - f + 1 : after[j] = l[f + j - 1]
      <4>1. after = SubSeq(l, f, e)
        OBVIOUS
      <4>2. f \in Int /\ e \in Int /\ \A i \in f .. e : i \in 1 .. cc
        BY <1>0, <3>1
      <4> HIDE DEF f, e, after
      <4>3. \A i \in f .. e : l[i] \in Chars
        BY <1>0, <4>2
      <4>4. QED BY <4>1, <4>2, <4>3, SubSeqProperties
    <3> HIDE DEF after
    <3>3. Len(l) - (c + n + 1) + 1 = cc - (c + n) /\ cc - (c + n) >= 0
      BY <1>0
    <3>4. \A j \in 1 .. cc - (c + n) : (c + n + 1) + j - 1 = j + (c + n)
      BY <1>0, <3>1
    <3>5. QED BY <1>0, <3>1, <3>2, <3>3, <3>4
  <2> HIDE DEF before, after
  <2>3. /\ first \in Seq(Chars) /\ Len(first) = c + n
        /\ \A j \in 1 .. c + n : first[j] = IF j <= c THEN before[j] ELSE p[j - c]
    BY <1>0, <1>p, <2>1, ConcatProperties
  <2> HIDE DEF first
  <2>4. /\ new \in Seq(Chars) /\ Len(new) = cc
        /\ \A j \in 1 .. cc : new[j] = IF j <= c + n THEN first[j] ELSE after[j - (c + n)]
    <3>1. new = first \o after
      BY DEF first, before, after
    <3> HIDE DEF new
    <3>2. c + n \in Nat /\ (c + n) + (cc - (c + n)) = cc
      BY <1>0
    <3>3. first \in Seq(Chars) /\ after \in Seq(Chars) /\ Len(first) = c + n /\ Len(after) = cc - (c + n)
      BY <2>2, <2>3
    <3>4. /\ new \in Seq(Chars) /\ Len(new) = Len(first) + Len(after)
          /\ \A j \in 1 .. Len(first) + Len(after) :
               new[j] = IF j <= Len(first) THEN first[j] ELSE after[j - Len(first)]
      BY <3>1, <3>3, ConcatProperties
    <3>5. Len(first) + Len(after) = cc
      BY <3>2, <3>3
    <3>6. QED BY <3>3, <3>4, <3>5, Zenon
  <2> HIDE DEF new
  <2>5. new \in [1 .. cc -> Chars]
    BY <2>4
  <2>6. ASSUME NEW j \in 1 .. cc
        PROVE  new[j] = IF j > c /\ j <= c + n THEN p[j - c] ELSE l[j]
    <3>1. CASE j <= c
      <4>1. j \in 1 .. c + n /\ j \in 1 .. c /\ j <= c + n /\ ~(j > c)
        BY <1>0, <3>1
      <4>2. QED BY <2>1, <2>3, <2>4, <3>1, <4>1
    <3>2. CASE j > c /\ j <= c + n
      <4>1. j \in 1 .. c + n /\ ~(j <= c)
        BY <1>0, <3>2
      <4>2. QED BY <2>3, <2>4, <3>2, <4>1
    <3>3. CASE j > c + n
      <4>1. j - (c + n) \in 1 .. cc - (c + n) /\ (j - (c + n)) + (c + n) = j /\ ~(j <= c + n)
        BY <1>0, <3>3
      <4>2. QED BY <2>2, <2>4, <4>1
    <3>4. QED BY <1>0, <3>1, <3>2, <3>3
  <2>7. QED BY <2>5, <2>6
<1> HIDE DEF new
<1>3. new = Filled(l, c, s, n)
  <2>1. DOMAIN l = 1 .. cc /\ new = [j \in 1 .. cc |-> new[j]]
    BY <1>0, <1>2
  <2>2. \A j \in 1 .. cc : j > c /\ j <= c + n => j - c \in 1 .. n
    BY <1>0
  <2>3. \A j \in 1 .. cc : new[j] = IF j > c /\ j <= c + n THEN s[j - c] ELSE l[j]
    BY <1>0, <1>p, <1>2, <2>2
  <2>4. QED BY <2>1, <2>3 DEF Filled
<1> DEFINE a == SubSeq(v, 1, rr)
           b == SubSeq(ls, 1, rr)
<1>4. v \in Seq(Line) /\ Len(v) = rr + 1
  <2>1. new \in Line
    BY <1>2 DEF Line
  <2>2. QED BY <1>0, <1>1, <2>1
<1>5. v[r] = new /\ \A i \in 1 .. rr : i # r => v[i] = ls[i]
  BY <1>0, <1>1
<1>6. /\ a \in Seq(Line) /\ Len(a) = rr /\ \A i \in 1 .. rr : a[i] = v[i]
      /\ b \in Seq(Line) /\ Len(b) = rr /\ \A i \in 1 .. rr : b[i] = ls[i]
  <2>1. rr \in 0 .. rr + 1 /\ 1 \in 1 .. rr + 2 /\ rr - 1 + 1 = rr
    OBVIOUS
  <2>2. QED BY <1>0, <1>4, <2>1, SubSeqProperties
<1> HIDE DEF a, b
<1>7. a = [i \in 1 .. rr |-> a[i]] /\ b = [i \in 1 .. rr |-> b[i]]
  BY <1>6
<1>8. a = [b EXCEPT ![r] = new]
  <2>1. \A i \in 1 .. rr : a[i] = IF i = r THEN new ELSE b[i]
    BY <1>5, <1>6
  <2>2. QED BY <1>7, <2>1
<1>9. QED BY <1>3, <1>8 DEF a, b, v, l, p

\* term_down takes a full line to the next.
LEMMA DownWraps ==
  ASSUME rows \in Nat \ {0}, cols \in Nat \ {0}, NEW ls \in Lines, FrameOf(ls, rows, cols),
         cur_row \in 1 .. rows, TermDown(ls)
  PROVE  [text |-> SubSeq(lines', 1, rows), row |-> cur_row', col |-> 0] =
           Wrapped([text |-> SubSeq(ls, 1, rows), row |-> cur_row, col |-> cols], rows, cols)
<1> DEFINE full == [text |-> SubSeq(ls, 1, rows), row |-> cur_row, col |-> cols]
<1>0. ~(cols < cols)
  OBVIOUS
<1>1. CASE cur_row < rows
  <2>1. lines' = ls /\ cur_row' = cur_row + 1
    BY <1>1 DEF TermDown
  <2>2. Wrapped(full, rows, cols) = [text |-> SubSeq(ls, 1, rows), row |-> cur_row + 1, col |-> 0]
    BY <1>0, <1>1 DEF Wrapped
  <2>3. QED BY <2>1, <2>2
<1>2. CASE ~(cur_row < rows)
  <2>1. lines' = Scrolled(ls) /\ cur_row' = cur_row
    BY <1>2 DEF TermDown
  <2> DEFINE n == rows + 1
             end == <<>> \o Blank(cols)
             long == [ls EXCEPT ![n] = end]
             up == Tail(long)
             seen == SubSeq(ls, 1, rows)
  <2>2. Wrapped(full, rows, cols) = [text |-> Append(Tail(seen), Blank(cols)), row |-> cur_row, col |-> 0]
    BY <1>0, <1>2 DEF Wrapped
  <2>3. n \in Nat /\ Len(ls) = n /\ ls[n] = <<>> /\ ls \in Seq(Line)
    BY DEF FrameOf, Lines
  <2>4. Blank(cols) \in Line
    BY BlankLine
  <2>5. end = Blank(cols)
    BY <2>4, ConcatEmptySeq DEF Line
  <2>6. Scrolled(ls) = Append(up, <<>>)
    BY <2>3 DEF Scrolled
  <2> HIDE DEF end
  <2>7. long \in Seq(Line) /\ Len(long) = n /\ long[n] = Blank(cols)
        /\ \A i \in 1 .. rows : long[i] = ls[i]
    <3>1. n \in 1 .. Len(ls) /\ \A i \in 1 .. rows : i # n /\ i \in 1 .. Len(ls)
      BY <2>3
    <3> HIDE DEF n
    <3>2. QED BY <2>3, <2>4, <2>5, <3>1, Replaced
  <2> HIDE DEF long
  <2>8. up \in Seq(Line) /\ Len(up) = rows /\ \A i \in 1 .. rows : up[i] = long[i + 1]
    <3>1. long # <<>> /\ n - 1 = rows
      BY <2>3, <2>7, EmptySeq
    <3>2. QED BY <2>7, <3>1, HeadTailProperties
  <2> HIDE DEF up
  <2>9. seen \in Seq(Line) /\ Len(seen) = rows /\ seen # <<>> /\ \A i \in 1 .. rows : seen[i] = ls[i]
    <3>1. seen \in Seq(Line) /\ Len(seen) = rows /\ \A i \in 1 .. rows : seen[i] = ls[i]
      BY ScreenText
    <3> HIDE DEF seen
    <3>2. QED BY <3>1, EmptySeq
  <2> HIDE DEF seen
  <2>10. Tail(seen) \in Seq(Line) /\ Len(Tail(seen)) = rows - 1
         /\ \A i \in 1 .. rows - 1 : Tail(seen)[i] = ls[i + 1]
    <3>1. \A i \in 1 .. rows - 1 : i + 1 \in 1 .. rows
      OBVIOUS
    <3>2. QED BY <2>9, <3>1, HeadTailProperties
  <2> DEFINE w == Append(Tail(seen), Blank(cols))
             v == SubSeq(Append(up, <<>>), 1, rows)
  <2>11. w \in Seq(Line) /\ Len(w) = rows /\ w[rows] = Blank(cols)
         /\ \A i \in 1 .. rows - 1 : w[i] = ls[i + 1]
    BY <2>4, <2>10, AppendProperties
  <2>12. v \in Seq(Line) /\ Len(v) = rows /\ \A i \in 1 .. rows : v[i] = up[i]
    <3> DEFINE longer == Append(up, <<>>)
    <3>1. <<>> \in Line
      BY EmptySeq DEF Line
    <3>2. longer \in Seq(Line) /\ Len(longer) = rows + 1 /\ \A i \in 1 .. rows : longer[i] = up[i]
      BY <2>8, <3>1, AppendProperties
    <3> HIDE DEF longer
    <3>3. rows \in 0 .. rows + 1 /\ 1 \in 1 .. rows + 2 /\ rows - 1 + 1 = rows
      OBVIOUS
    <3>4. SubSeq(longer, 1, rows) \in Seq(Line) /\ Len(SubSeq(longer, 1, rows)) = rows
          /\ \A i \in 1 .. rows : SubSeq(longer, 1, rows)[i] = longer[i]
      BY <3>2, <3>3, SubSeqProperties
    <3>5. QED BY <3>2, <3>4 DEF longer
  <2> HIDE DEF w, v
  <2>13. \A i \in 1 .. rows : v[i] = w[i]
    <3> SUFFICES ASSUME NEW i \in 1 .. rows PROVE v[i] = w[i]
      OBVIOUS
    <3>1. v[i] = long[i + 1]
      BY <2>8, <2>12
    <3>2. CASE i = rows
      BY <2>7, <2>11, <3>1, <3>2
    <3>3. CASE i # rows
      <4>1. i \in 1 .. rows - 1 /\ i + 1 \in 1 .. rows
        BY <3>3
      <4>2. QED BY <2>7, <2>11, <3>1, <4>1
    <3>4. QED BY <3>2, <3>3
  <2>14. v = w
    BY <2>11, <2>12, <2>13, SeqEqual
  <2>15. QED BY <2>1, <2>2, <2>6, <2>14 DEF v, w
<1>3. QED BY <1>1, <1>2

\* The screen on which Typed begins.
Begun ==
  [text |-> SubSeq(lines, 1, rows), row |-> cur_row,
   col |-> IF writing = "more" THEN 0 ELSE cur_col]

LEMMA BegunScreen ==
  TermTypeOK /\ Framed /\ OnScreen
    => Begun \in Screens(rows, cols) /\ rows \in Nat \ {0} /\ cols \in Nat \ {0}
<1> SUFFICES ASSUME TermTypeOK, Framed, OnScreen
             PROVE  Begun \in Screens(rows, cols) /\ rows \in Nat \ {0} /\ cols \in Nat \ {0}
  OBVIOUS
<1>1. rows \in Nat \ {0} /\ cols \in Nat \ {0} /\ lines \in Lines /\ FrameOf(lines, rows, cols)
  BY TermAssumption DEF TermTypeOK, Framed, FrameOf, Lines, Line
<1>2. SubSeq(lines, 1, rows) \in [1 .. rows -> [1 .. cols -> Chars]]
  BY <1>1, ScreenText
<1>3. cur_row \in 1 .. rows /\ (IF writing = "more" THEN 0 ELSE cur_col) \in 0 .. cols
  BY <1>1 DEF OnScreen
<1>4. QED BY <1>1, <1>2, <1>3 DEF Begun, Screens

LEMMA BegunScreenNext ==
  (TermTypeOK /\ Framed /\ OnScreen)' => (Begun \in Screens(rows, cols))'
BY BegunScreen, PTL

\* A step that writes n characters from column c of the cursor's row, and
\* leaves the screen where the wrapped block would, shows what typing shows.
LEMMA WritesInOrder ==
  ASSUME TermTypeOK, Framed, OnScreen, TermTypeOK', Framed', OnScreen',
         UNCHANGED <<rows, cols>>,
         NEW n \in 0 .. Len(rest), rest' = SubSeq(rest, n + 1, Len(rest)), Begun.col + n <= cols,
         \/ Begun' = Block(Begun, rest, n)
         \/ Begun' = Wrapped(Block(Begun, rest, n), rows, cols)
  PROVE  Typed' = Typed
<1> DEFINE t == Begun
           u == Begun'
           r == rows
           c == cols
           s == rest
           b == rest'
<1>1. t \in Screens(r, c) /\ r \in Nat \ {0} /\ c \in Nat \ {0} /\ s \in Seq(Chars)
  BY BegunScreen DEF TermTypeOK
<1>2. u \in Screens(r, c) /\ b \in Seq(Chars)
  <2>1. Begun' \in Screens(rows', cols')
    BY BegunScreenNext
  <2>2. rest' \in Seq(Chars)
    BY DEF TermTypeOK
  <2>3. QED BY <2>1, <2>2
<1>3. Typed = TypedOn(t, s, r, c)
  BY DEF Typed, Begun
<1>4. Typed' = TypedOn(u, b, r, c)
  BY DEF Typed, Begun
<1>5. n \in Nat /\ n \in 0 .. Len(s) /\ b = SubSeq(s, n + 1, Len(s)) /\ t.col + n <= c
  BY <1>1
<1>6. PICK h : Typing(h, t, s, r, c) /\ TypedOn(t, s, r, c) = Wrapped(h[Len(s)], r, c)
  BY <1>1, TypedRuns
<1>7. Wrapped(u, r, c) = Wrapped(h[n], r, c)
  <2>1. h[n] = Block(t, s, n)
    <3> HIDE DEF t, u, r, c, s, b
    <3>1. QED BY <1>1, <1>5, <1>6, TypedBlock
  <2>2. CASE u = Block(t, s, n)
    BY <2>1, <2>2
  <2>3. CASE u = Wrapped(Block(t, s, n), r, c)
    <3> DEFINE v == Block(t, s, n)
    <3>1. v.col = t.col + n /\ v.col \in Nat
      <4>1. v.col = t.col + n
        BY DEF Block
      <4>2. t.col \in 0 .. c
        BY <1>1 DEF Screens
      <4>3. QED BY <1>5, <4>1, <4>2
    <3> HIDE DEF v
    <3>2. Wrapped(v, r, c).col < c
      <4>1. CASE v.col < c
        BY <4>1 DEF Wrapped
      <4>2. CASE ~(v.col < c)
        <5>1. Wrapped(v, r, c).col = 0
          BY <4>2 DEF Wrapped
        <5>2. QED BY <1>1, <5>1
      <4>3. QED BY <4>1, <4>2
    <3>3. u.col < c
      BY <2>3, <3>2 DEF v
    <3>4. Wrapped(u, r, c) = u
      BY <3>3 DEF Wrapped
    <3>5. QED BY <2>1, <2>3, <3>4
  <2>4. QED BY <2>2, <2>3
<1> HIDE DEF t, u, r, c, s, b
<1>8. TypedOn(u, b, r, c) = TypedOn(t, s, r, c)
  BY <1>1, <1>2, <1>5, <1>6, <1>7, TypedFrom
<1>9. QED BY <1>3, <1>4, <1>8

\* What the text is when the cursor's row is filled from the column of Begun.
LEMMA FillsScreen ==
  ASSUME TermTypeOK, Framed, OnScreen, NEW n \in 0 .. Len(rest), Begun.col + n <= cols
  PROVE  LET ls == Overwrite(lines, cur_row, Begun.col, Begun.col + n, SubSeq(rest, 1, n)) IN
         /\ ls \in Lines /\ FrameOf(ls, rows, cols)
         /\ Block(Begun, rest, n) =
              [text |-> SubSeq(ls, 1, rows), row |-> cur_row, col |-> Begun.col + n]
<1> DEFINE p == SubSeq(rest, 1, n)
           k == Begun.col
           ls == Overwrite(lines, cur_row, k, k + n, p)
<1>1. /\ rows \in Nat \ {0} /\ cols \in Nat \ {0} /\ lines \in Lines /\ FrameOf(lines, rows, cols)
      /\ cur_row \in 1 .. rows /\ rest \in Seq(Chars) /\ Len(lines) > 0
  BY TermAssumption DEF TermTypeOK, Framed, FrameOf, Lines, Line, OnScreen
<1>2. k \in 0 .. cols
  BY BegunScreen DEF Screens
<1>3. p \in Seq(Chars) /\ Len(p) = n
  BY <1>1, FirstAndRest
<1>4. p \in Line /\ rest \in Line /\ k + n <= cols /\ rows \in Nat /\ cols \in Nat
  BY <1>1, <1>3 DEF Line
<1> HIDE DEF p, k
<1>5. ls \in Lines
  <2>1. k \in Int /\ k + n \in Int /\ cur_row \in Int
    BY <1>1, <1>2
  <2>2. QED BY <1>1, <1>4, <2>1, OverwriteLines
<1>6. FrameOf(ls, rows, cols)
  BY <1>1, <1>2, <1>3, <1>4, OverwriteFrame
<1>7. SubSeq(ls, 1, rows) = [SubSeq(lines, 1, rows) EXCEPT ![cur_row] = Filled(lines[cur_row], k, rest, n)]
  BY <1>1, <1>2, <1>4, OverwriteFills DEF p
<1> HIDE DEF ls
<1>8. Begun.text = SubSeq(lines, 1, rows) /\ Begun.row = cur_row /\ Begun.text[cur_row] = lines[cur_row]
  <2>1. Begun.text = SubSeq(lines, 1, rows) /\ Begun.row = cur_row
    BY DEF Begun
  <2>2. SubSeq(lines, 1, rows)[cur_row] = lines[cur_row]
    BY <1>1, ScreenText
  <2>3. QED BY <2>1, <2>2
<1>9. Block(Begun, rest, n) = [text |-> SubSeq(ls, 1, rows), row |-> cur_row, col |-> k + n]
  BY <1>7, <1>8 DEF Block, k
<1>10. QED BY <1>5, <1>6, <1>9 DEF ls, k, p

LEMMA PrintsStep ==
  ASSUME TermTypeOK, Framed, OnScreen, writing # "no", [Next]_tvars, TermTypeOK'
  PROVE  Typed' = Typed
<1>0. /\ rows \in Nat \ {0} /\ cols \in Nat \ {0} /\ rest \in Seq(Chars) /\ Len(rest) \in Nat
      /\ cur_row \in 1 .. rows /\ cur_col \in 0 .. cols /\ rest # <<>>
  BY TermAssumption DEF TermTypeOK, OnScreen
<1>1. CASE UNCHANGED tvars
  BY <1>1 DEF tvars, sizevars, screen, cursor, writevars, Typed
<1>2. ASSUME FirstLine \/ FullLine \/ LastLine
      PROVE  Framed' /\ OnScreen' /\ UNCHANGED <<rows, cols>>
  BY <1>2, WriteKeeps DEF FirstLine, FullLine, LastLine, sizevars
<1>3. CASE FirstLine
  <2>1. writing = "first" /\ Begun.col = cur_col
    BY <1>3 DEF FirstLine, Begun
  <2>2. ASSUME NEW n \in 0 .. Len(rest), NEW wraps \in BOOLEAN, WriteFirst(n, wraps),
               cur_col + n <= cols, wraps => cur_col + n = cols, wraps <=> rest' # <<>>
        PROVE  Typed' = Typed
    <3> DEFINE ls == Overwrite(lines, cur_row, cur_col, cur_col + n, SubSeq(rest, 1, n))
    <3>1. /\ ls \in Lines /\ FrameOf(ls, rows, cols)
          /\ Block(Begun, rest, n) = [text |-> SubSeq(ls, 1, rows), row |-> cur_row, col |-> cur_col + n]
      BY <2>1, <2>2, FillsScreen
    <3>2. /\ DownIfFull(wraps, ls) /\ cur_col' = cur_col + n
          /\ rest' = SubSeq(rest, n + 1, Len(rest))
          /\ writing' = IF wraps THEN "more" ELSE "no"
      BY <2>2 DEF WriteFirst
    <3> HIDE DEF ls
    <3>3. CASE wraps
      <4>1. TermDown(ls) /\ writing' = "more"
        BY <3>2, <3>3 DEF DownIfFull
      <4>2. Begun' = [text |-> SubSeq(lines', 1, rows), row |-> cur_row', col |-> 0]
        BY <1>2, <1>3, <4>1 DEF Begun
      <4>3. Begun' = Wrapped(Block(Begun, rest, n), rows, cols)
        BY <1>0, <2>2, <3>1, <3>3, <4>1, <4>2, DownWraps
      <4>4. QED BY <1>2, <1>3, <2>1, <2>2, <3>2, <4>3, WritesInOrder
    <3>4. CASE ~wraps
      <4>1. lines' = ls /\ cur_row' = cur_row /\ writing' = "no"
        BY <3>2, <3>4 DEF DownIfFull
      <4>2. Begun' = [text |-> SubSeq(ls, 1, rows), row |-> cur_row, col |-> cur_col + n]
        BY <1>2, <1>3, <3>2, <4>1 DEF Begun
      <4>3. QED BY <1>2, <1>3, <2>1, <2>2, <3>1, <3>2, <4>2, WritesInOrder
    <3>5. QED BY <3>3, <3>4
  <2>3. ~(Space < 0)
    BY <1>0 DEF Space
  <2>4. CASE Space >= Len(rest) /\ WriteFirst(Len(rest), FALSE)
    <3>1. rest' = <<>>
      BY <1>0, <2>4, SubSeqEmpty DEF WriteFirst
    <3>2. cur_col + Len(rest) <= cols /\ Len(rest) \in 0 .. Len(rest)
      BY <1>0, <2>4 DEF Space
    <3>3. QED BY <2>2, <2>4, <3>1, <3>2
  <2>5. CASE Space \in 0 .. Len(rest) - 1 /\ WriteFirst(Space, TRUE)
    <3>1. Space \in 0 .. Len(rest) /\ cur_col + Space = cols /\ Space < Len(rest)
      BY <1>0, <2>5 DEF Space
    <3>2. rest' # <<>>
      <4>1. Len(SubSeq(rest, Space + 1, Len(rest))) > 0
        BY <1>0, <3>1, Part
      <4>2. rest' = SubSeq(rest, Space + 1, Len(rest))
        BY <2>5 DEF WriteFirst
      <4>3. Len(<<>>) = 0
        OBVIOUS
      <4>4. Len(rest') > 0
        BY <4>1, <4>2, Zenon
      <4>5. rest' = <<>> => Len(rest') = 0
        BY <4>3, Zenon
      <4>6. QED BY <4>4, <4>5
    <3>3. cur_col + Space <= cols
      BY <1>0, <3>1
    <3> HIDE DEF Space
    <3>4. QED BY <2>2, <2>5, <3>1, <3>2, <3>3
  <2>6. QED BY <1>3, <2>3, <2>4, <2>5 DEF FirstLine
<1>4. CASE FullLine
  <2>1. writing = "more" /\ Begun.col = 0 /\ cols \in 0 .. Len(rest)
    BY <1>0, <1>4 DEF FullLine, Begun
  <2>2. LineEnd(cur_row) = cols
    BY <1>0 DEF LineEnd, Framed
  <2> DEFINE ls == Overwrite(lines, cur_row, 0, cols, SubSeq(rest, 1, cols))
  <2>3. TermDown(ls) /\ cur_col' = 0 /\ rest' = SubSeq(rest, cols + 1, Len(rest))
    BY <1>4, <2>2 DEF FullLine
  <2>4. 0 + cols = cols
    BY <1>0
  <2>5. /\ ls \in Lines /\ FrameOf(ls, rows, cols)
        /\ Block(Begun, rest, cols) = [text |-> SubSeq(ls, 1, rows), row |-> cur_row, col |-> cols]
    BY <1>0, <2>1, <2>4, FillsScreen
  <2> HIDE DEF ls
  <2>6. Begun' = [text |-> SubSeq(lines', 1, rows), row |-> cur_row', col |-> 0]
    BY <1>2, <1>4, <2>3 DEF Begun
  <2>7. Begun' = Wrapped(Block(Begun, rest, cols), rows, cols)
    BY <1>0, <2>3, <2>5, <2>6, DownWraps
  <2>8. Begun.col + cols <= cols
    BY <1>0, <2>1
  <2>9. QED BY <1>2, <1>4, <2>1, <2>3, <2>7, <2>8, WritesInOrder
<1>5. CASE LastLine
  <2> DEFINE n == Len(rest)
  <2>1. writing = "more" /\ Begun.col = 0 /\ n \in 0 .. n /\ n < cols /\ 0 + n = n
    BY <1>0, <1>5 DEF LastLine, Begun
  <2>2. SubSeq(rest, 1, n) = rest
    BY <1>0, SubSeqFull
  <2> DEFINE ls == Overwrite(lines, cur_row, 0, n, rest)
  <2>3. lines' = ls /\ cur_row' = cur_row /\ cur_col' = n /\ writing' = "no"
    BY <1>5 DEF LastLine
  <2>4. Block(Begun, rest, n) = [text |-> SubSeq(ls, 1, rows), row |-> cur_row, col |-> n]
    <3>1. Begun.col + n <= cols /\ Begun.col + n = n
      BY <1>0, <2>1
    <3> HIDE DEF n
    <3>2. Block(Begun, rest, n) =
            [text |-> SubSeq(Overwrite(lines, cur_row, Begun.col, Begun.col + n, SubSeq(rest, 1, n)), 1, rows),
             row |-> cur_row, col |-> Begun.col + n]
      BY <2>1, <3>1, FillsScreen DEF n
    <3>3. QED BY <2>1, <2>2, <3>1, <3>2
  <2> HIDE DEF ls
  <2>5. Begun' = Block(Begun, rest, n)
    BY <1>2, <1>5, <2>3, <2>4 DEF Begun
  <2>6. rest' = SubSeq(rest, n + 1, n)
    BY <1>0, <1>5, SubSeqEmpty DEF LastLine
  <2>7. Begun.col + n <= cols
    BY <1>0, <2>1
  <2>8. QED BY <1>2, <1>5, <2>1, <2>5, <2>6, <2>7, WritesInOrder
<1>6. CASE Next
  <2>1. ~Ready
    BY DEF Ready
  <2>2. ~Receive
    BY <2>1 DEF Receive
  <2>3. ~(CarriageReturn \/ LineFeed \/ Backspace \/ Tab \/ Escape \/ OtherControl)
    BY <2>1 DEF CarriageReturn, LineFeed, Backspace, Tab, Escape, OtherControl, Control
  <2>4. ~(\/ PstHome \/ PstRight \/ PstUp \/ PstDown \/ PstClearToEol \/ PstClearToEos
          \/ PstClear \/ PstGoto)
    BY <2>1 DEF PstHome, PstRight, PstUp, PstDown, PstClearToEol, PstClearToEos, PstClear, PstGoto,
                Pst, Control
  <2>5. ~(PstX \/ PstY \/ GatherEscape \/ CsiMove \/ CsiClear \/ CsiGraphics \/ CsiOther)
    BY <2>1 DEF PstX, PstY, GatherEscape, CsiMove, CsiClear, CsiGraphics, CsiOther, InState
  <2>6. ~(RunInWindow \/ TermResize \/ ChooseKind)
    BY DEF RunInWindow, TermResize, ChooseKind
  <2>7. QED BY <1>3, <1>4, <1>5, <1>6, <2>2, <2>3, <2>4, <2>5, <2>6 DEF Next
<1>7. QED BY <1>1, <1>6

\* However many characters come in one read, and on a screen of any size,
\* term_insert shows what typing them one by one would show.
THEOREM PrintsInOrderHolds == Spec => PrintsInOrder
<1>1. TermTypeOK /\ TermTypeOK' /\ [Next]_tvars
        => [Framed /\ OnScreen /\ writing # "no" => Typed' = Typed]_tvars
  BY PrintsStep
<1>2. QED BY <1>1, TermTypeCorrect, PTL DEF Spec, PrintsInOrder
=============================================================================
