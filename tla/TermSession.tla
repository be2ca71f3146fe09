----------------------------- MODULE TermSession -----------------------------
(***************************************************************************)
(* A terminal session of tkterm.tcl: the window, the pipe to the program   *)
(* that was started in it, the fileevent that reads the pipe, the blink    *)
(* timer, and the debug windows of debugwin.tcl that lines of the          *)
(* program's output create and draw in.  What the terminal shows of a line *)
(* is module TermScreen's; here a line is shown whole, and a line that     *)
(* starts with "`" is then given to RunCmd.                                *)
(*                                                                         *)
(* Tcl runs one handler at a time, so a handler is one step, and the       *)
(* program, the user and the clock act between the handlers.               *)
(***************************************************************************)
EXTENDS Integers, SequencesExt

CONSTANTS
  Names,    \* names of debug windows, none of them empty
  Lines,    \* the lines a program may print
  Chunk,    \* lines that one read of 1024 characters takes at most
  MaxRuns,  \* programs started, bound on the runs
  MaxLines  \* lines a program prints, bound on the programs

(* A line: plain text, a window to make, or words for windows.  A line     *)
(* that makes a window may have a flaw: options that are an error before   *)
(* the toplevel is there, as a colour of a term window that is no number,  *)
(* or after it, as a colour of a plot, or a size, that Tk does not take.   *)
(* The word "bad" is an error in each kind of window: "origin" without its *)
(* numbers in a plot, a word that is no number in a term window.           *)
Kinds == {"term", "plot", "scope"}
Words == {"text", "update", "close", "other", "bad"}
Flaws == {"none", "early", "late"}
Plain == [is |-> "plain"]
Make(n, k, delay, flaw) ==
  [is |-> "make", name |-> n, kind |-> k, delay |-> delay, flaw |-> flaw]
Say(ns, ws) == [is |-> "say", to |-> ns, words |-> ws]

ASSUME SessionAssumption ==
  /\ Chunk \in Nat \ {0} /\ MaxRuns \in Nat /\ MaxLines \in Nat
  /\ \A l \in Lines :
       \/ l = Plain
       \/ \E n \in Names, k \in Kinds, d \in BOOLEAN, f \in Flaws :
            l = Make(n, k, d, f) /\ (f = "early" => k = "term")
       \/ /\ l.is = "say" /\ l = Say(l.to, l.words) /\ l.to # <<>>
          /\ l.to \in Seq(Names) /\ l.words \in Seq(Words)

VARIABLES
  toplev,    \* the terminal window exists
  timers,    \* term_timer calls that wait in the event loop
  runs,      \* programs that were started or could not be, so far
  term_pipe, \* the run whose channel it is, 0 for ""
  open,      \* runs whose channel is open
  readable,  \* runs whose channel has a fileevent handler
  eof,       \* runs whose channel met the end of the output in a read
  exited,    \* runs whose program is gone and whose channel is open
  printed,   \* what the last program printed
  unread,    \* what of it waits in the channel
  shown,     \* what the terminal shows since term_clear
  debug      \* the arrays of DebugWin, and the windows there are

channels == <<term_pipe, open, readable, eof, exited>>
vars == <<toplev, timers, channels, runs, printed, unread, shown, debug>>

Runs == 1..MaxRuns

(* A Tcl array is a function on its elements.  debugwin(n) is always       *)
(* .toplev<n>, so a window is known by its name; cmd holds debugwin and    *)
(* debugcmd, which are set together; window holds the names whose window   *)
(* is on the screen, and bare those of them that have no text and no       *)
(* canvas in it.                                                           *)
NoWindows == [window |-> {}, bare |-> {}, cmd |-> <<>>, delayed |-> <<>>, queue |-> <<>>]

Init ==
  /\ toplev = FALSE /\ timers = 0
  /\ runs = 0 /\ term_pipe = 0
  /\ open = {} /\ readable = {} /\ eof = {} /\ exited = {}
  /\ printed = <<>> /\ unread = <<>>
  /\ shown = <<>>
  /\ debug = NoWindows

(***************************************************************************)
(* Debug windows.  d is a value of debug with a field ok, FALSE from the   *)
(* Tcl error on that ends the handler.                                     *)
(***************************************************************************)
Assign(f, n, v) == [x \in DOMAIN f \cup {n} |-> IF x = n THEN v ELSE f[x]]

Fail(d) == [d EXCEPT !.ok = FALSE]

(* CreateTermWindow, CreatePlotWindow and the arrays RunCmd then sets; an  *)
(* element cmd_queue(name) is set too, but only cmd_queue(.toplev<name>)   *)
(* is ever used.  A scope is a plot window with another command.  An error *)
(* of the text or the canvas leaves the toplevel, and no array is set.     *)
Create(d, l) ==
  IF l.name \in d.window THEN d
  ELSE CASE l.flaw = "none" ->
              [d EXCEPT !.window = @ \cup {l.name},
                        !.cmd = Assign(@, l.name, l.kind),
                        !.delayed = Assign(@, l.name, l.delay)]
         [] l.flaw = "early" -> Fail(d)
         [] l.flaw = "late" ->
              Fail([d EXCEPT !.window = @ \cup {l.name}, !.bare = @ \cup {l.name}])

(* What .toplev<n>.txt or .toplev<n>.p is there for.                       *)
Drawn(d, n) == n \in d.window \ d.bare

(* Text that finds its window closed is an error, and so is a word that is *)
(* no command and no number.                                               *)
TermWord(d, n, w) ==
  IF ~d.ok THEN d
  ELSE CASE w = "text" -> IF n \in d.window THEN d ELSE Fail(d)
         [] w = "close" -> [d EXCEPT !.window = @ \ {n}]
         [] w = "update" -> d
         [] w \in {"other", "bad"} -> Fail(d)

TermCmd(d, n, ws) ==
  IF ~Drawn(d, n) THEN d ELSE FoldLeft(LAMBDA e, w : TermWord(e, n, w), d, ws)

(* "delete", by which "close" is run, is no Tcl command.                   *)
PlotCmd(d, n, ws) ==
  IF Drawn(d, n) /\ Range(ws) \cap {"close", "bad"} # {} THEN Fail(d) ELSE d

(* debug_scope.tcl is never loaded, so ScopeCmd does not exist.            *)
Do(d, n, ws) ==
  CASE d.cmd[n] = "term" -> TermCmd(d, n, ws)
    [] d.cmd[n] = "plot" -> PlotCmd(d, n, ws)
    [] d.cmd[n] = "scope" -> Fail(d)

QueueWord(d, n, w) ==
  IF ~d.ok THEN d
  ELSE IF w # "update" THEN
    [d EXCEPT !.queue = Assign(@, n, IF n \in DOMAIN @ THEN Append(@[n], w) ELSE <<w>>)]
  ELSE IF n \notin DOMAIN d.queue THEN Fail(d)
  ELSE LET done == Do(d, n, d.queue[n])
       IN IF done.ok THEN [done EXCEPT !.queue[n] = <<>>] ELSE done

QueueCmds(d, n, ws) == FoldLeft(LAMBDA e, w : QueueWord(e, n, w), d, ws)

Send(d, n, ws) ==
  IF ~d.ok THEN d ELSE IF d.delayed[n] THEN QueueCmds(d, n, ws) ELSE Do(d, n, ws)

(* The words that name windows, and then the rest: a name that is no       *)
(* window is a word like any other.                                        *)
Known(d, ns) ==
  LET strange == {i \in DOMAIN ns : ns[i] \notin DOMAIN d.cmd}
  IN IF strange = {} THEN Len(ns) ELSE Min(strange) - 1

(* Mutant: the arrays are cleared and the windows stay.                    *)
DestroyArrays(d) == [d EXCEPT !.cmd = <<>>]

RunCmd(d, l) ==
  IF l.is = "make" THEN Create(d, l)
  ELSE LET k == Known(d, l.to)
           rest == [i \in 1..(Len(l.to) - k) |-> "other"] \o l.words
       IN FoldLeft(LAMBDA e, n : Send(e, n, rest), d, SubSeq(l.to, 1, k))

(* The windows that a name in debugwin leads to.                           *)
DestroyWindows(d) ==
  [d EXCEPT !.window = @ \ DOMAIN d.cmd, !.bare = @ \ DOMAIN d.cmd, !.cmd = <<>>]

(***************************************************************************)
(* The terminal.                                                           *)
(***************************************************************************)
(* term_recv and term_newline on one line; after an error the rest of what *)
(* was read is dropped.                                                    *)
Receive(s, l) ==
  IF ~s.ok THEN s
  ELSE LET t == [s EXCEPT !.shown = Append(@, l)]
       IN IF l.is = "plain" THEN t ELSE RunCmd(t, l)

term_recv(ls) ==
  FoldLeft(Receive,
           [ok |-> TRUE, shown |-> shown, window |-> debug.window, bare |-> debug.bare,
            cmd |-> debug.cmd, delayed |-> debug.delayed, queue |-> debug.queue],
           ls)

DebugOf(s) == [x \in DOMAIN NoWindows |-> s[x]]

Close(r) ==
  /\ open' = open \ {r} /\ readable' = readable \ {r}
  /\ eof' = eof \ {r} /\ exited' = exited \ {r}
  /\ unread' = <<>>

close_term ==
  /\ Close(term_pipe) /\ term_pipe' = 0
  /\ debug' = DestroyWindows(debug)

(* Mutant: end of file is looked for before the read that meets it.        *)
AtEndEarlier(r, left) == r \in eof

AtEnd(r, left) == r \in exited /\ left = <<>>

Taken == SubSeq(unread, 1, IF Len(unread) < Chunk THEN Len(unread) ELSE Chunk)
Left == SubSeq(unread, Len(Taken) + 1, Len(unread))

(* The channel is readable: there is output, or its end.  The read takes   *)
(* what there is, up to a chunk, and notes the end when it comes to it.    *)
Reads ==
  /\ term_pipe \in readable /\ Taken # <<>>
  /\ unread' = Left
  /\ eof' = IF Len(Taken) < Chunk /\ AtEnd(term_pipe, Left) THEN eof \cup {term_pipe} ELSE eof
  /\ UNCHANGED <<toplev, timers, runs, printed, term_pipe, open, exited>>

Shows ==
  \E s \in {term_recv(Taken)} :
    /\ shown' = s.shown /\ debug' = DebugOf(s)
    /\ readable' = IF s.ok THEN readable ELSE readable \ {term_pipe}

ReadsEnd ==
  /\ term_pipe \in readable /\ Taken = <<>> /\ AtEnd(term_pipe, Left)
  /\ close_term
  /\ UNCHANGED <<toplev, timers, runs, printed, shown>>

Terminal_Data == (Reads /\ Shows) \/ ReadsEnd

(* Mutant: the screen of the last program stays.                           *)
term_clear_not == UNCHANGED shown

term_clear == shown' = <<>>

(* A new program in the window; the debug windows of the last one stay.    *)
(* When the program cannot be started the error comes after the rest.      *)
RunInWindow ==
  /\ runs < MaxRuns
  /\ runs' = runs + 1
  /\ toplev' = TRUE
  /\ timers' = IF toplev THEN timers ELSE timers + 1
  /\ term_clear
  /\ printed' = <<>> /\ unread' = <<>>
  /\ eof' = eof \ {term_pipe} /\ exited' = exited \ {term_pipe}
  /\ \/ /\ term_pipe' = runs + 1
        /\ open' = (open \ {term_pipe}) \cup {runs + 1}
        /\ readable' = (readable \ {term_pipe}) \cup {runs + 1}
     \/ /\ term_pipe' = 0
        /\ open' = open \ {term_pipe} /\ readable' = readable \ {term_pipe}
  /\ UNCHANGED debug

(* force_close_term, or the window manager: closing the window runs        *)
(* close_term from its <Destroy> binding.                                  *)
Destroy ==
  /\ toplev' = FALSE
  /\ close_term
  /\ UNCHANGED <<timers, runs, printed, shown>>

(* The close box, Control-z, Control-] or Command-w.                       *)
UserCloses == toplev /\ Destroy

(* A key, or a change of size that term_resize reports.                    *)
term_send == toplev /\ term_pipe \in eof /\ Destroy

(* A blink that finds no window is the last of its timer; the others only  *)
(* change a colour and wait again.                                         *)
term_timer ==
  /\ timers > 0 /\ ~toplev
  /\ timers' = timers - 1
  /\ UNCHANGED <<toplev, channels, runs, printed, unread, shown, debug>>

(***************************************************************************)
(* The program and the user.                                               *)
(***************************************************************************)
ProgramPrints ==
  /\ term_pipe \in open \ exited /\ Len(printed) < MaxLines
  /\ \E l \in Lines : printed' = Append(printed, l) /\ unread' = Append(unread, l)
  /\ UNCHANGED <<toplev, timers, channels, runs, shown, debug>>

ProgramEnds ==
  /\ term_pipe \in open \ exited
  /\ exited' = exited \cup {term_pipe}
  /\ UNCHANGED <<toplev, timers, term_pipe, open, readable, eof, runs, printed, unread, shown, debug>>

ClosesDebugWindow ==
  \E n \in debug.window :
    /\ debug' = [debug EXCEPT !.window = @ \ {n}, !.bare = @ \ {n}]
    /\ UNCHANGED <<toplev, timers, channels, runs, printed, unread, shown>>

Next ==
  \/ Terminal_Data \/ RunInWindow \/ UserCloses \/ term_send
  \/ term_timer \/ ProgramPrints \/ ProgramEnds \/ ClosesDebugWindow

(* The event loop serves a readable channel sooner or later; Shows takes   *)
(* no part in whether it can.                                              *)
Spec == Init /\ [][Next]_vars /\ WF_<<unread, term_pipe>>(Reads \/ ReadsEnd)

-----------------------------------------------------------------------------
(* As long as the terminal listens to a program, and when it has closed    *)
(* its channel by itself, nothing the program printed is lost, doubled or  *)
(* out of order, and nothing of an earlier program is in between: reads of *)
(* bounded size, end of file, and a new program in the same window.        *)
OutputInOrder ==
  toplev /\ (term_pipe = 0 \/ term_pipe \in readable) =>
    shown \o unread = printed

(* Windows, channels and timers go together: the one open channel is       *)
(* term_pipe, a terminal that is gone leaves neither channel nor debug     *)
(* window, every debug window can be reached by its name, and a terminal   *)
(* blinks.  The exception is a window whose making failed: nothing is ever *)
(* drawn in it, no name need lead to it, and it may outlive the terminal,  *)
(* although close_term is to destroy any debug window of it.               *)
NothingLeftBehind ==
  /\ open = {term_pipe} \ {0}
  /\ \A n \in debug.window : Drawn(debug, n) => n \in DOMAIN debug.cmd
  /\ IF toplev THEN timers > 0 ELSE open = {} /\ debug.cmd = <<>>

(* A line that can end in a Tcl error: a window to make with a flaw, or    *)
(* more than text for windows that are there to take it.                   *)
CanFail(l) ==
  \/ l.is = "make" /\ l.flaw # "none"
  \/ /\ l.is = "say"
     /\ \/ Range(l.words) \cap {"update", "close", "other", "bad"} # {}
        \/ \E n \in Range(l.to) : n \notin DOMAIN debug.cmd \/ debug.cmd[n] = "scope"

Silenced(r) == r \notin readable /\ CanFail(Last(shown))

(* The channel of a program that has ended is closed in the end, unless a  *)
(* line for a debug window has silenced the terminal before.               *)
EndsWithProgram ==
  \A r \in Runs : r \in exited ~> r \notin open \/ Silenced(r)

=============================================================================
