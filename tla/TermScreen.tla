----------------------------- MODULE TermScreen -----------------------------
(***************************************************************************)
(* The terminal window of src/src/tkterm.tcl: the lines of its text        *)
(* widget, the cursor, and the byte parser term_recv for the ANSI and the  *)
(* PST dialect.  A step is one turn of term_recv's loop: a byte, or a run  *)
(* of printable characters, which term_insert writes in several steps.     *)
(* The place where a read ends makes no difference to a byte, for the      *)
(* parser's state is kept in variables; it can cut a run in two.           *)
(*                                                                         *)
(* A character is blank or not: colours and attributes are left out, and a *)
(* character that is not blank may be the back-quote of a debug command.   *)
(* The argument of an escape sequence is chosen when its last letter       *)
(* comes.  The screen is always in graphics mode, since term_clear, which  *)
(* every run begins with, ends in "graphicsSet 1".                         *)
(***************************************************************************)
EXTENDS Integers, Sequences

CONSTANTS
  RowSizes,    \* the terminal heights in the options
  ColSizes,    \* and widths
  TabStop,     \* 8 in the code
  Args,        \* the numbers in escape sequences, and PST positions
  MaxRun,      \* bound: printable characters in a row
  MaxLines,    \* bound: lines in the text widget
  MaxLen,      \* bound: characters in a line
  MaxOff       \* bound: how far the cursor strays from the screen

ASSUME TermAssumption ==
  /\ RowSizes \subseteq Nat \ {0}
  /\ ColSizes \subseteq Nat \ {0}
  /\ TabStop \in Nat \ {0}
  /\ Args \subseteq Int
  /\ MaxRun \in Nat /\ MaxLines \in Nat /\ MaxLen \in Nat /\ MaxOff \in Nat

VARIABLES
  kind,        \* config(internal_term): "ansi", or another, treated as PST
  rows, cols,  \* the size of the screen
  lines,       \* the lines of the text widget, the empty one at its end too
  cur_row,     \* the cursor; rows count from 1
  cur_col,     \* and columns from 0; cols: the next character wraps
  cur_state,   \* the parser
  cur_saw_cr,  \* the last byte was CR; it does not exist before the first byte
  writing,     \* where term_insert is: "no", its "first" line, or "more"
  rest,        \* what it has yet to write
  alive,       \* Terminal_Data is the pipe's fileevent: no Tcl error so far
  last         \* history: the last byte of this run, if it was a PST one

sizevars   == <<rows, cols>>
cursor     == <<cur_row, cur_col>>
screen     == <<lines, cursor>>
parservars == <<cur_state, cur_saw_cr, last>>
writevars  == <<writing, rest>>
tvars      == <<kind, sizevars, screen, parservars, writevars, alive>>

Kinds   == {"ansi", "pst"}
Chars   == {" ", "x"}
States  == {"normal", "ansi_gather_escape", "ansi_gather_csi",
            "pst_getxy", "pst_getx", "pst_gety"}
Blank(n)  == [i \in 1 .. n |-> " "]
Blanks(n, c) == [k \in 1 .. n |-> Blank(c)]
Screen(r, c) == [i \in 1 .. r + 1 |-> IF i <= r THEN Blank(c) ELSE <<>>]

Init ==
  /\ kind \in Kinds
  /\ rows \in RowSizes /\ cols \in ColSizes
  /\ lines = Screen(rows, cols)
  /\ cur_row = 1 /\ cur_col = 0
  /\ cur_state = "normal" /\ cur_saw_cr = "unset"
  /\ writing = "no" /\ rest = <<>>
  /\ alive = TRUE
  /\ last = "none"

\* The bounds: from beyond them only a new run or another size goes on.
Within ==
  /\ Len(lines) <= MaxLines
  /\ \A i \in 1 .. Len(lines) : Len(lines[i]) <= MaxLen
  /\ cur_row \in -MaxOff .. rows + MaxOff /\ cur_col \in -MaxOff .. cols + MaxOff

\* term_recv takes the next byte.
Ready == alive /\ writing = "no" /\ Within

\* Mutant of Die: term_insert goes on.
DieWritesOn == alive' = FALSE /\ UNCHANGED writevars

\* A Tcl error in term_recv: the fileevent is deleted, the rest is lost.
Die == alive' = FALSE /\ writing' = "no" /\ rest' = <<>>
-----------------------------------------------------------------------------
(* The text widget.                                                        *)

Clamp(n, low, high) == IF n < low THEN low ELSE IF n > high THEN high ELSE n

\* "delete $r.$c $r.$e" and "insert $r.$c $s".  Tk takes a row before the
\* first for the start of the text, one after the last for its end.
Overwrite(ls, r, c, e, s) ==
  IF r < 1 THEN [ls EXCEPT ![1] = s \o @]
  ELSE IF r > Len(ls) THEN [ls EXCEPT ![Len(ls)] = @ \o s]
  ELSE LET from == Clamp(c, 0, Len(ls[r]))
           to   == Clamp(e, from, Len(ls[r]))
       IN [ls EXCEPT ![r] = SubSeq(@, 1, from) \o s \o SubSeq(@, to + 1, Len(@))]

\* $r.end
LineEnd(r) == IF r \in 1 .. Len(lines) THEN Len(lines[r]) ELSE 0

\* Mutant of Scrolled: the first line stays.
ScrolledNot(ls) == Append([ls EXCEPT ![Len(ls)] = @ \o Blank(cols)], <<>>)

\* The first line goes, a blank one comes at the end.
Scrolled(ls) == Append(Tail([ls EXCEPT ![Len(ls)] = @ \o Blank(cols)]), <<>>)

\* term_down, the lines being ls by now.
TermDown(ls) ==
  IF cur_row < rows
  THEN lines' = ls /\ cur_row' = cur_row + 1
  ELSE lines' = Scrolled(ls) /\ cur_row' = cur_row

\* Mutant of GotoXY: rows count from 0.
GotoXYZero(r, c) ==
  /\ cur_row' = Clamp(r, 0, rows)
  /\ cur_col' = Clamp(c, 0, cols - 1)

\* term_gotoxy, after cur_row and cur_col were set.
GotoXY(r, c) ==
  /\ cur_row' = Clamp(r, 1, rows)
  /\ cur_col' = Clamp(c, 0, cols - 1)
-----------------------------------------------------------------------------
(* Printable characters: term_insert.                                      *)

\* Mutant of NoLineEnd: the CR is not forgotten.
NoLineEndKept == UNCHANGED cur_saw_cr /\ last' = IF kind = "pst" THEN "other" ELSE "none"

\* What a byte other than CR and LF does to the line-end state.
NoLineEnd == cur_saw_cr' = "no" /\ last' = IF kind = "pst" THEN "other" ELSE "none"

\* term_recv has found a run of printable characters.
Receive ==
  /\ Ready /\ cur_state = "normal"
  /\ \E n \in 1 .. MaxRun : rest' \in [1 .. n -> Chars]
  /\ writing' = "first"
  /\ NoLineEnd
  /\ UNCHANGED <<kind, sizevars, screen, cur_state, alive>>

\* Mutant of DownIfFull: the row stays the same when the line is full.
DownNever(wraps, ls) == lines' = ls /\ UNCHANGED cur_row

DownIfFull(wraps, ls) == IF wraps THEN TermDown(ls) ELSE lines' = ls /\ UNCHANGED cur_row

\* "write first line": the first n characters of the rest.
WriteFirst(n, wraps) ==
  /\ DownIfFull(wraps, Overwrite(lines, cur_row, cur_col, cur_col + n, SubSeq(rest, 1, n)))
  /\ cur_col' = cur_col + n
  /\ rest' = SubSeq(rest, n + 1, Len(rest))
  /\ writing' = IF rest' = <<>> THEN "no" ELSE "more"
  /\ UNCHANGED alive

Space == cols - cur_col

\* Right of the last column "incr ... -$chars_to_write" is given two minus
\* signs and fails.
FirstLine ==
  /\ writing = "first"
  /\ \/ Space < 0 /\ Die /\ UNCHANGED screen
     \/ Space >= Len(rest) /\ WriteFirst(Len(rest), FALSE)
     \/ Space \in 0 .. Len(rest) - 1 /\ WriteFirst(Space, TRUE)
  /\ UNCHANGED <<kind, sizevars, parservars>>

\* "write full lines"
FullLine ==
  /\ writing = "more" /\ Len(rest) >= cols
  /\ TermDown(Overwrite(lines, cur_row, 0, LineEnd(cur_row), SubSeq(rest, 1, cols)))
  /\ cur_col' = 0
  /\ rest' = SubSeq(rest, cols + 1, Len(rest))
  /\ writing' = IF rest' = <<>> THEN "no" ELSE "more"
  /\ UNCHANGED <<kind, sizevars, parservars, alive>>

\* "write last line"
LastLine ==
  /\ writing = "more" /\ Len(rest) < cols
  /\ lines' = Overwrite(lines, cur_row, 0, Len(rest), rest)
  /\ cur_col' = Len(rest)
  /\ rest' = <<>> /\ writing' = "no"
  /\ UNCHANGED <<kind, sizevars, cur_row, parservars, alive>>

\* The spaces of term_clear_to_eol and _eos: they never wrap.
Spaces(ls) ==
  Overwrite(ls, cur_row, cur_col, cols, Blank(cols - cur_col))

\* Mutant of ClearToEol: it fails on a line that is full.
ClearToEolFull ==
  \/ cur_col >= cols /\ Die /\ UNCHANGED screen
  \/ cur_col < cols /\ lines' = Spaces(lines) /\ UNCHANGED <<cursor, alive, writevars>>

ClearToEol ==
  \/ cur_col > cols /\ Die /\ UNCHANGED screen
  \/ cur_col <= cols /\ lines' = Spaces(lines) /\ UNCHANGED <<cursor, alive, writevars>>

\* The loop of term_clear_to_eos over the rows below i.  Each round empties
\* the line that the round before left empty and gives it a blank line with a
\* line end of its own; above the first line it inserts without emptying.  So
\* what stood two lines below the cursor, or lower, stays, below the screen.
BlankBelow(ls, i) ==
  LET above == Blanks(0 - i, cols) \o ls
      at    == IF i < 0 THEN 0 ELSE i
  IN IF i < rows
     THEN SubSeq(above, 1, at) \o Blanks(rows - at, cols) \o <<<<>>>>
          \o SubSeq(above, at + 2, Len(above))
     ELSE ls

\* The cursor is saved, and left where the spaces end.
ClearToEos ==
  \/ cur_col > cols /\ Die /\ UNCHANGED screen
  \/ /\ cur_col <= cols
     /\ lines' = BlankBelow(Spaces(lines), cur_row)
     /\ cur_col' = cols
     /\ UNCHANGED <<cur_row, alive, writevars>>
-----------------------------------------------------------------------------
(* Control characters, state "normal".                                     *)

Control == Ready /\ cur_state = "normal"
Pst     == Control /\ kind # "ansi" /\ NoLineEnd /\ UNCHANGED <<kind, sizevars>>

Moves(r, c) ==
  /\ cur_row' = r /\ cur_col' = c
  /\ UNCHANGED <<lines, cur_state, writevars, alive>>

\* The line the cursor is on may be a debug command, which may fail.
DebugLine ==
  /\ cur_col # 0
  /\ cur_row \in 1 .. Len(lines) /\ lines[cur_row] # <<>> /\ lines[cur_row][1] # " "

\* term_newline
Newline ==
  /\ cur_col' = 0
  /\ UNCHANGED <<writevars>>
  /\ \/ TermDown(lines) /\ UNCHANGED alive
     \/ DebugLine /\ alive' = FALSE /\ UNCHANGED <<lines, cur_row>>

CarriageReturn ==
  /\ Control
  /\ cur_saw_cr' = "yes"
  /\ \/ /\ kind = "ansi" /\ last' = "none"
        /\ cur_col' = 0
        /\ alive' \in {TRUE, ~DebugLine}
        /\ UNCHANGED <<lines, cur_row, writevars>>
     \/ kind # "ansi" /\ last' = "cr" /\ Newline
  /\ UNCHANGED <<kind, sizevars, cur_state>>

\* Reading cur_saw_cr before it was ever set is an error.
LineFeed ==
  /\ Control
  /\ \/ /\ kind = "ansi" /\ last' = "none"
        /\ TermDown(lines)
        /\ UNCHANGED <<cur_col, cur_saw_cr, writevars, alive>>
     \/ /\ kind # "ansi" /\ last' = "lf"
        /\ \/ cur_saw_cr = "unset" /\ Die /\ UNCHANGED <<screen, cur_saw_cr>>
           \/ cur_saw_cr = "no" /\ Newline /\ UNCHANGED cur_saw_cr
           \/ /\ cur_saw_cr = "yes" /\ cur_saw_cr' = "no"
              /\ UNCHANGED <<screen, writevars, alive>>
  /\ UNCHANGED <<kind, sizevars, cur_state>>

Backspace ==
  /\ Control /\ NoLineEnd
  /\ Moves(cur_row, cur_col - 1)
  /\ UNCHANGED <<kind, sizevars>>

Tab ==
  /\ Control /\ NoLineEnd
  /\ Moves(cur_row, ((cur_col + TabStop) \div TabStop) * TabStop)
  /\ UNCHANGED <<kind, sizevars>>

Escape ==
  /\ Control /\ kind = "ansi" /\ NoLineEnd
  /\ cur_state' = "ansi_gather_escape"
  /\ UNCHANGED <<kind, sizevars, screen, writevars, alive>>

\* A bell, or a byte that means nothing in this dialect.
OtherControl ==
  /\ Control /\ NoLineEnd
  /\ UNCHANGED <<kind, sizevars, screen, cur_state, writevars, alive>>

PstHome  == Pst /\ GotoXY(1, 0) /\ UNCHANGED <<lines, cur_state, writevars, alive>>
PstRight == Pst /\ Moves(cur_row, cur_col + 1)
PstUp    == Pst /\ Moves(cur_row - 1, cur_col)
PstDown  == Pst /\ TermDown(lines) /\ UNCHANGED <<cur_col, cur_state, writevars, alive>>
PstClearToEol == Pst /\ ClearToEol /\ UNCHANGED cur_state
PstClearToEos == Pst /\ ClearToEos /\ UNCHANGED cur_state

\* term_clear: the text widget is emptied, and term_init fills it again.
TermClear ==
  /\ lines' = Screen(rows', cols')
  /\ cur_row' = 1 /\ cur_col' = 0
  /\ cur_state' = "normal"

PstClear == Pst /\ TermClear /\ UNCHANGED <<writevars, alive>>

PstGoto ==
  /\ Pst
  /\ cur_state' \in {"pst_getxy", "pst_getx", "pst_gety"}
  /\ UNCHANGED <<screen, writevars, alive>>
-----------------------------------------------------------------------------
(* The other states of the parser.                                         *)

\* Any byte is then part of a sequence.
InState(s) ==
  /\ Ready /\ cur_state = s
  /\ NoLineEnd
  /\ UNCHANGED <<kind, sizevars>>

PstX ==
  \E n \in Args :
    \/ /\ InState("pst_getxy") /\ n >= 0
       /\ cur_col' = n /\ cur_state' = "pst_gety"
       /\ UNCHANGED <<lines, cur_row, writevars, alive>>
    \/ /\ InState("pst_getx") /\ n >= 0
       /\ cur_col' = n /\ cur_state' = "normal"
       /\ UNCHANGED <<lines, cur_row, writevars, alive>>

PstY ==
  \E n \in Args :
    /\ InState("pst_gety") /\ n >= 0
    /\ cur_row' = n + 1 /\ cur_state' = "normal"
    /\ UNCHANGED <<lines, cur_col, writevars, alive>>

GatherEscape ==
  /\ InState("ansi_gather_escape")
  /\ cur_state' \in {"normal", "ansi_gather_csi"}
  /\ UNCHANGED <<screen, writevars, alive>>

\* A cursor sequence: A to D and G with a number, H and f with none, one or
\* two.  What "scan" does not find leaves the row or column as it was.
CsiMove ==
  /\ InState("ansi_gather_csi") /\ cur_state' = "normal"
  /\ \/ \E n \in Args :
          \/ GotoXY(cur_row - n, cur_col) \/ GotoXY(cur_row + n, cur_col)
          \/ GotoXY(cur_row, cur_col + n) \/ GotoXY(cur_row, cur_col - n)
          \/ GotoXY(cur_row, n)
     \/ GotoXY(1, 0)
     \/ \E r \in Args : \E c \in Args \cup {cur_col} : GotoXY(r, c - 1)
     \/ GotoXY(cur_row, cur_col - 1)
  /\ UNCHANGED <<lines, writevars, alive>>

\* K and J; after an error the state stays.
CsiClear ==
  /\ InState("ansi_gather_csi")
  /\ ClearToEol \/ ClearToEos
  /\ cur_state' = IF alive' THEN "normal" ELSE cur_state

\* m sets colours, which are left out.  An argument that is no number and yet
\* compares as one between 30 and 47, as "31:" or "31,1" do, is an error in
\* "expr $n - 30".
CsiGraphics ==
  /\ InState("ansi_gather_csi")
  /\ \/ cur_state' = "normal" /\ UNCHANGED <<writevars, alive>>
     \/ cur_state' = cur_state /\ Die
  /\ UNCHANGED screen

\* Another letter, or one more character of the sequence.
CsiOther ==
  /\ InState("ansi_gather_csi")
  /\ cur_state' \in {"normal", cur_state}
  /\ UNCHANGED <<screen, writevars, alive>>
-----------------------------------------------------------------------------
(* From outside.                                                           *)

\* RunInWindow; if the window was closed it is made in the size set now.  When
\* the command cannot be started there is no pipe to read.
RunInWindow ==
  /\ writing = "no"
  /\ \/ UNCHANGED sizevars
     \/ rows' \in RowSizes /\ cols' \in ColSizes
  /\ TermClear
  /\ alive' \in BOOLEAN /\ last' = "none"
  /\ UNCHANGED <<kind, cur_saw_cr, writevars>>

\* A line as term_resize fits it into the new width.
Fit(l) ==
  IF cols' < cols THEN SubSeq(l, 1, IF Len(l) < cols' THEN Len(l) ELSE cols')
  ELSE IF Len(l) < cols' THEN l \o Blank(cols' - Len(l)) ELSE l

TermResize ==
  /\ writing = "no"
  /\ rows' \in RowSizes /\ cols' \in ColSizes /\ <<rows', cols'>> # <<rows, cols>>
  /\ lines' = [i \in 1 .. rows' + 1 |->
                 IF i > rows' THEN <<>>
                 ELSE IF i <= rows THEN Fit(lines[i]) ELSE Blank(cols')]
  /\ cur_row' = IF cur_row > rows' THEN rows' ELSE cur_row
  /\ cur_col' = IF cur_col >= cols' THEN cols' - 1 ELSE cur_col
  /\ UNCHANGED <<kind, parservars, writevars, alive>>

\* The terminal's radio buttons in the Options menu.
ChooseKind ==
  /\ writing = "no"
  /\ kind' \in Kinds \ {kind}
  /\ UNCHANGED <<sizevars, screen, parservars, writevars, alive>>

Next ==
  \/ Receive \/ FirstLine \/ FullLine \/ LastLine
  \/ CarriageReturn \/ LineFeed \/ Backspace \/ Tab \/ Escape \/ OtherControl
  \/ PstHome \/ PstRight \/ PstUp \/ PstDown \/ PstClearToEol \/ PstClearToEos
  \/ PstClear \/ PstGoto \/ PstX \/ PstY
  \/ GatherEscape \/ CsiMove \/ CsiClear \/ CsiGraphics \/ CsiOther
  \/ RunInWindow \/ TermResize \/ ChooseKind

Spec == Init /\ [][Next]_tvars
-----------------------------------------------------------------------------
(* Properties.                                                             *)

\* The text widget has the rows of the screen, each of its width, and the
\* empty line that always ends a text widget.
Framed ==
  /\ Len(lines) = rows + 1
  /\ \A i \in 1 .. rows : Len(lines[i]) = cols
  /\ lines[rows + 1] = <<>>

OnScreen == cur_row \in 1 .. rows /\ cur_col \in 0 .. cols

\* Every variable has its type, and what term_insert has yet to write agrees
\* with the place it has reached.
TermTypeOK ==
  /\ kind \in Kinds /\ rows \in RowSizes /\ cols \in ColSizes
  /\ lines \in Seq(Seq(Chars)) /\ Len(lines) > rows
  /\ cur_row \in Int /\ cur_col \in Int
  /\ cur_state \in States /\ cur_saw_cr \in {"unset", "no", "yes"}
  /\ writing \in {"no", "first", "more"} /\ rest \in Seq(Chars)
  /\ writing = "no" <=> rest = <<>>
  /\ writing # "no" => alive /\ cur_state = "normal"
  /\ alive \in BOOLEAN
  /\ last \in {"none", "cr", "lf", "other"}

\* With the cursor on the screen, nothing changes the number or the width of
\* the lines but clearing to the end of the screen.
KeepsFrame ==
  [][Framed /\ OnScreen => Framed' \/ CsiClear \/ PstClearToEos]_tvars

\* The cursor leaves the screen only by backspace, tab and the PST moves that
\* set it without term_gotoxy; no print, line end, ANSI sequence, run or
\* change of size takes it off.
StaysOnScreen ==
  [][Framed /\ OnScreen /\ ~OnScreen'
       => Backspace \/ Tab \/ PstRight \/ PstUp \/ PstX \/ PstY]_tvars

\* While the cursor is on the screen no byte silences the terminal, but for a
\* line end after a debug command, a LF that is the first byte ever, and the m
\* of a graphics sequence whose argument is malformed.
FailsOnlyOffScreen ==
  [][OnScreen /\ alive /\ ~alive'
       => \/ RunInWindow
          \/ DebugLine /\ (CarriageReturn \/ LineFeed)
          \/ cur_saw_cr = "unset" /\ LineFeed
          \/ CsiGraphics /\ cur_state' # "normal"]_tvars

\* In PST mode CR, LF and CR LF are one line end each, however they are cut
\* by reads: cur_saw_cr tells whether the byte before was a CR.
SawCrIsLast ==
  last # "none" => (cur_saw_cr = "yes" <=> last = "cr")

\* A screen t of r rows and c columns as a person sees it, with a line that is
\* full already wrapped.
Wrapped(t, r, c) ==
  IF t.col < c THEN t
  ELSE IF t.row < r THEN [text |-> t.text, row |-> t.row + 1, col |-> 0]
  ELSE [text |-> Append(Tail(t.text), Blank(c)), row |-> t.row, col |-> 0]

\* The next character, which does not wrap.
Put(t, ch) ==
  [text |-> [t.text EXCEPT ![t.row][t.col + 1] = ch], row |-> t.row, col |-> t.col + 1]

\* What is seen when s has been typed on it, one character after the other.
TypedOn(t, s, r, c) ==
  LET done[i \in 0 .. Len(s)] ==
        IF i = 0 THEN t ELSE Put(Wrapped(done[i - 1], r, c), s[i])
  IN Wrapped(done[Len(s)], r, c)

\* What is seen when the rest has been typed; the lines after the first start
\* at column 0, whatever cur_col still is.
Typed ==
  TypedOn([text |-> SubSeq(lines, 1, rows), row |-> cur_row,
           col |-> IF writing = "more" THEN 0 ELSE cur_col], rest, rows, cols)

\* However many characters come in one read, term_insert shows what typing
\* them one by one would show (up to when a full line wraps, at once or with
\* the next character, for in that the code depends on the cut).
PrintsInOrder ==
  [][Framed /\ OnScreen /\ writing # "no"
       => Typed' = Typed]_tvars
=============================================================================
