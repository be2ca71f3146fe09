------------------------------ MODULE Launcher ------------------------------
(***************************************************************************)
(* The launchers of FlexProp, flexprop_win.c and flexprop_native.c: the    *)
(* command line is cut into arguments (setargv, in Windows builds with     *)
(* TCL_BROKEN_MAINARGS), the GUI's script is put before them (fixup_argv), *)
(* the interpreter's packages are initialised (Tcl_AppInit), and the       *)
(* script runs.  The system gives the command line and the path of the     *)
(* executable; what a package's initialisation returns is the library's.   *)
(***************************************************************************)
EXTENDS Integers, Sequences, SequencesExt

CONSTANTS
  Lines,      \* command lines that may be anything, as sequences of characters
  Arguments,  \* lists of arguments that another program starts this one with
  Exes,       \* where the executable may be: directory, separator and name
  MaxPath     \* MAX_PATH of Windows, PATH_MAX elsewhere

\* There is a program's name on a command line, and the executable has one.
ASSUME LauncherAssumption ==
  /\ \A s \in Lines : /\ s \in Seq(STRING)
                      /\ \A i \in DOMAIN s : s[i] # "NUL"
                      /\ \E i \in DOMAIN s : s[i] # "SP"
  /\ \A a \in Arguments : /\ a \in Seq(Seq(STRING)) /\ a # <<>>
                          /\ \A i \in DOMAIN a : \A k \in DOMAIN a[i] : a[i][k] # "NUL"
  /\ \A e \in Exes : /\ e.dir \in Seq(STRING) /\ e.sep \in {"/", "BS"}
                     /\ e.name \in Seq(STRING) /\ e.name # <<>>
                     /\ \A i \in DOMAIN e.name : e.name[i] \notin {"/", "BS"}
  /\ MaxPath \in Nat \ {0}

VARIABLES
  pc,
  build,      \* "win" or "native"
  sent,       \* the arguments that were meant, or Anything
  cmdLine, p, \* setargv: the command line, and the place in it
  argv, arg,  \* setargv: the arguments that are complete, and the one begun
  inquote,    \* setargv: in a quoted string?
  used,       \* setargv: the characters of argSpace that are taken
  exe,        \* where the executable is, or Unknown
  library,    \* what the environment says of TCL_LIBRARY and TK_LIBRARY
  inited      \* the packages initialised

vars == <<pc, build, sent, cmdLine, p, argv, arg, inquote, used, exe,
          library, inited>>
scan == <<cmdLine, p, arg, inquote, used>>

Anything == <<<<"?">>>>
Unknown  == [dir |-> <<>>, sep |-> "", name |-> <<>>]

SP == "SP"
DQ == "DQ"
BS == "BS"
SL == "/"
Script == <<SL, "s", "r", "c", SL, "t", "c", "l">>     \* "/src/flexprop.tcl"
TclLib == <<SL, "l", "i", "b">>                        \* "/tcl_library/..."

Times(c, n) == [i \in 1..n |-> c]

\* How a program that starts another quotes one argument: a backslash before
\* a quote, and two for one where only backslashes come before a quote or the
\* end.  And how it writes a list of arguments.
Doubled(a, i) ==
  /\ a[i] = BS
  /\ \E j \in (i + 1)..(Len(a) + 1) :
       (j > Len(a) \/ a[j] = DQ) /\ \A k \in i..(j - 1) : a[k] = BS

Escaped(a, i) == (IF a[i] = DQ \/ Doubled(a, i) THEN <<BS>> ELSE <<>>) \o <<a[i]>>

Quoted(a) ==
  IF a = <<>> \/ SP \in Range(a) \/ DQ \in Range(a)
  THEN <<DQ>> \o FlattenSeq([i \in 1..Len(a) |-> Escaped(a, i)]) \o <<DQ>> ELSE a

CommandLine(args) == Tail(FlattenSeq([i \in 1..Len(args) |-> <<SP>> \o Quoted(args[i])]))

Init ==
  /\ build \in {"win", "native"}
  /\ \/ build = "win" /\ sent = Anything /\ cmdLine \in Lines
     \/ build = "win" /\ sent \in Arguments /\ cmdLine = CommandLine(sent)
     \/ build = "native" /\ sent \in Arguments /\ cmdLine = <<>>
  /\ pc = IF build = "win" THEN "args" ELSE "hook"
  /\ argv = IF build = "win" THEN <<>> ELSE sent
  /\ p = 1 /\ arg = <<>> /\ inquote = FALSE /\ used = 0
  /\ exe = Unknown /\ library = <<>> /\ inited = {}
-----------------------------------------------------------------------------
(* setargv                                                                 *)

At(i) == IF i <= Len(cmdLine) THEN cmdLine[i] ELSE "NUL"

\* Where something else than c comes next.
Past(c) == CHOOSE i \in p..(Len(cmdLine) + 1) : At(i) # c /\ \A j \in p..(i - 1) : At(j) = c

\* Mutant of Guess: only single spaces are between arguments.
GuessSingle ==
  1 + Cardinality({i \in 2..Len(cmdLine) : cmdLine[i] = SP /\ cmdLine[i - 1] = SP})

\* The arguments there is room for: one more than there are runs of spaces.
Guess ==
  1 + Cardinality({i \in 1..Len(cmdLine) : cmdLine[i] = SP /\ (i = 1 \/ cmdLine[i - 1] # SP)})

\* The next argument begins at the next character that is no space, if any.
NextArg ==
  /\ pc = "args"
  /\ p' = Past(SP)
  /\ pc' = IF Len(argv) < Guess /\ At(p') # "NUL" THEN "arg" ELSE "main"
  /\ inquote' = FALSE
  /\ UNCHANGED <<build, sent, cmdLine, argv, arg, used, exe, library, inited>>

\* Is the character to be copied: anything but a quote, a quote after an odd
\* number of backslashes, or the second of a pair of quotes in quotes?
Copies(quote, n, next) ==
  ~quote \/ n % 2 = 1 \/ (inquote /\ next = DQ)

Ends(c, in) == c = "NUL" \/ (~in /\ c = SP)

\* One turn of the loop: backslashes, and what comes after them.
NextChar ==
  /\ pc = "arg"
  /\ LET q     == Past(BS)
         n     == q - p
         quote == At(q) = DQ
         copy  == Copies(quote, n, At(q + 1))
         skips == quote /\ n % 2 = 0 /\ copy
         in    == IF quote /\ ~copy THEN ~inquote ELSE inquote
         done  == Ends(At(q), in)
         slash == Times(BS, IF quote THEN n \div 2 ELSE n)
         whole == arg \o slash \o (IF copy /\ ~done THEN <<At(q)>> ELSE <<>>)
     IN  /\ arg' = IF done THEN <<>> ELSE whole
         /\ used' = IF done THEN used + Len(whole) + 1 ELSE used
         /\ p' = q + (CASE done -> 0 [] skips -> 2 [] OTHER -> 1)
         /\ inquote' = in
         /\ argv' = IF done THEN Append(argv, whole) ELSE argv
         /\ pc' = IF done THEN "args" ELSE "arg"
  /\ UNCHANGED <<build, sent, cmdLine, exe, library, inited>>

Slashes(s) == [i \in DOMAIN s |-> IF s[i] = BS THEN SL ELSE s[i]]

\* _tWinMain: forward slashes in the name of the program.
Main ==
  /\ pc = "main"
  /\ argv' = [argv EXCEPT ![1] = Slashes(@)]
  /\ pc' = "hook"
  /\ UNCHANGED <<scan, build, sent, exe, library, inited>>
-----------------------------------------------------------------------------
(* fixup_argv                                                              *)

\* GetModuleFileName or readlink: a path that is too long is cut.
PathRead(e) == LET s == e.dir \o <<e.sep>> \o e.name
               IN  SubSeq(s, 1, IF Len(s) < MaxPath THEN Len(s) ELSE MaxPath - 1)

\* Mutant of MyRemoveFileSpec: the slash stays.
MyRemoveFileSpecSlash(s) ==
  LET t == [i \in DOMAIN s |-> IF i < Len(s) /\ s[i] = BS THEN SL ELSE s[i]]
      ends == {i \in 2..Len(t) : t[i] = SL}
  IN  IF ends = {} THEN t ELSE SubSeq(t, 1, Max(ends))

\* All slashes are forward ones but in the last place; what comes before the
\* last of them is left, or everything when that is the first character.
MyRemoveFileSpec(s) ==
  LET t == [i \in DOMAIN s |-> IF i < Len(s) /\ s[i] = BS THEN SL ELSE s[i]]
      ends == {i \in 2..Len(t) : t[i] = SL}
  IN  IF ends = {} THEN t ELSE SubSeq(t, 1, Max(ends) - 1)

\* The script goes after the program's name, and the arguments after it.
WithScript(args, s) == <<args[1], s>> \o Tail(args)

\* On Linux (of the native build) the system's libraries are used.
fixup_argv ==
  /\ pc = "hook"
  /\ \E e \in Exes \cup {Unknown}, linux \in BOOLEAN :
       /\ linux => build = "native"
       /\ LET dir == IF e # Unknown THEN MyRemoveFileSpec(PathRead(e))
                     ELSE IF build = "native" THEN <<".">>
                     ELSE <<>>    \* the test for failure is of the length
          IN  /\ argv' = WithScript(argv, dir \o Script)
              /\ library' = IF linux THEN <<>> ELSE dir \o TclLib
       /\ exe' = e
  /\ pc' = "init"
  /\ UNCHANGED <<scan, build, sent, inited>>
-----------------------------------------------------------------------------
(* Tcl_AppInit, called by Tk_Main                                          *)

\* The packages in their order; the static ones where they are compiled in.
Packages == IF build = "win" THEN <<"Tcl", "Tk", "registry", "dde", "P2Debug">>
            ELSE <<"Tcl", "Tk">>

Pending == {i \in DOMAIN Packages : Packages[i] \notin inited}
Package == Packages[Min(Pending)]

Tcl_AppInit ==
  /\ pc = "init"
  /\ \/ /\ Pending # {} /\ inited' = inited \cup {Package}
        /\ pc' = "init"
     \/ /\ Pending # {} /\ Package # "P2Debug"    \* that always returns TCL_OK
        /\ pc' = "error" /\ UNCHANGED inited
     \/ /\ Pending = {}
        /\ pc' = "running" /\ UNCHANGED inited
  /\ UNCHANGED <<scan, build, sent, argv, exe, library>>

Next == NextArg \/ NextChar \/ Main \/ fixup_argv \/ Tcl_AppInit

Spec == Init /\ [][Next]_vars
-----------------------------------------------------------------------------
(* What the comment before setargv says of a command line, rule by rule.   *)

\* What has been read of a line: the arguments that are complete, and of the
\* one begun its characters, and n backslashes; mode is "between" arguments,
\* "plain" outside and "quoted" inside a quoted string, or "shut": after the
\* quote at the end of one.
Reading(args, a, n, mode) == [args |-> args, arg |-> a, n |-> n, mode |-> mode]

Closed(d) ==
  IF d.mode = "between" THEN d
  ELSE Reading(Append(d.args, d.arg \o Times(BS, d.n)), <<>>, 0, "between")

Step(d, c) ==
  LET quoted == d.mode = "quoted"
      same   == IF quoted THEN "quoted" ELSE "plain"
      to(a, mode) == Reading(d.args, a, 0, mode)
      half   == d.arg \o Times(BS, d.n \div 2)
  IN  CASE c = BS -> Reading(d.args, d.arg, d.n + 1, same)
        \* 2N + 1 backslashes + quote -> literal
        [] c = DQ /\ d.n % 2 = 1 -> to(half \o <<DQ>>, same)
        \* quote + quote in a quoted string -> single quote
        [] c = DQ /\ d.n % 2 = 0 /\ d.mode = "shut" -> to(half \o <<DQ>>, "quoted")
        \* 2N backslashes + quote -> N backslashes + begin quoted string; or its end
        [] c = DQ /\ d.n % 2 = 0 /\ d.mode # "shut" -> to(half, IF quoted THEN "shut" ELSE "quoted")
        [] c = SP /\ ~quoted -> Closed(d)
        \* N backslashes + non-quote -> literal
        [] OTHER -> to(d.arg \o Times(BS, d.n) \o <<c>>, same)

Read(s) == FoldLeft(Step, Reading(<<>>, <<>>, 0, "between"), s)

Documented(s) == Closed(Read(s)).args

\* The arguments are what the comment says, whatever the command line, and
\* the arguments that were meant where they were quoted for it: none is lost
\* because the guess of their number was too low.  And setargv writes no more
\* characters than the block it allocated has: the command line and one.
ParsesAsDocumented ==
  /\ used + Len(arg) <= Len(cmdLine) + 1
  /\ pc = "main" =>
       /\ argv = Documented(cmdLine)
       /\ sent = Anything \/ argv = sent

\* Once the interpreter runs, it runs the script beside the executable, with
\* its libraries from there or from the system and the arguments it was
\* given, and every package is initialised.  Not so where the path of the
\* executable is too long, not found, or in the root: see README.
StartsItsScript ==
  pc = "running" =>
    /\ sent = Anything \/ Tail(Tail(argv)) = Tail(sent)
    /\ exe.dir # <<>> /\ Len(exe.dir) + Len(exe.name) + 1 < MaxPath =>
         /\ argv[2] = Slashes(exe.dir) \o Script
         /\ library \in {Slashes(exe.dir) \o TclLib, <<>>}
    /\ inited = Range(Packages)
=============================================================================
