-------------------------------- MODULE Shell --------------------------------
(***************************************************************************)
(* The command line shell of samples/shell/shell.c, by which a user copies *)
(* files between the host and the media of the board.  A command is read   *)
(* (fgets, parse_cmd) and runs to its end; the steps are those between     *)
(* which a file of the host can change or a transfer can fail.             *)
(*                                                                         *)
(* The file systems and the C library are external: a tree per medium, a   *)
(* mount table and a current directory, and calls that may fail.  Text is  *)
(* a sequence of symbols, one for each name, slash or blank.  The RAM disk *)
(* driver (xmem) is the medium of "/ram"; what is printed is left out, and *)
(* so is the name a null argument has: it is one no command line can give. *)
(***************************************************************************)
EXTENDS Integers, Sequences, FiniteSets, SequencesExt

CONSTANTS
  Typed,       \* what the user may type: the words of a command
  Gaps,        \* the blanks between two words
  Media,       \* what the media hold at the start
  HostFiles,   \* what another program may make or remove on the host
  LineSize,    \* the size of cmdbuf
  PATH_MAX,    \* the size of tempname and tempdir
  MaxLines     \* bound: how many lines the user types

VARIABLES
  line,        \* the characters typed and not yet read
  typed,       \* history: how many lines that were
  meant,       \* history: the words the user meant by the line, or Cut
  cmd,         \* what parse_cmd made of the line, and the call's variables
  at,          \* where the shell stands
  tempname, tempdir,
  open,        \* the FILEs and DIRs in use
  cwd,         \* external: the current directory
  mounted,     \* external: the media in place
  disks,       \* external: the tree of each medium
  home,        \* history: the current directory before the command
  quiet        \* history: no call has failed and the host has kept still

lib  == <<mounted, disks>>
temp == <<tempname, tempdir>>
vars == <<line, typed, meant, cmd, at, temp, open, cwd, lib, home, quiet>>

SL == "/"
SP == " "
NL == "newline"
NULL  == <<"null">>
Cut   == <<>>
NoCmd == [op |-> <<>>, arg1 |-> NULL, arg2 |-> NULL]
Dir   == <<-1>>                \* what a directory "holds"
Blank == [r \in {<<>>} |-> Dir] \* a medium that is formatted
Host  == <<"host">>
Built == {<<n>> : n \in {"sd", "flash", "pfs", "ram"}}  \* the media the shell knows

IsBlank(c) == c \in {SP, NL}

\* The media hold files and directories; the user types one to three words, and
\* only the last of three may have blanks within it.
ASSUME ShellAssumption ==
  /\ LineSize \in Nat \ {0, 1} /\ PATH_MAX \in Nat \ {0, 1} /\ MaxLines \in Nat
  /\ {Host} \cup Built \subseteq DOMAIN Media
  /\ \A m \in DOMAIN Media :
       /\ DOMAIN Media[m] \subseteq Seq(Seq(STRING))
       /\ \A q \in DOMAIN Media[m] : Media[m][q] \in Seq(Nat) \cup {Dir}
  /\ \A f \in HostFiles : /\ f.path \in Seq(Seq(STRING)) \ {<<>>}
                          /\ f.holds \in Seq(Nat) \cup {Dir}
  /\ \A ws \in Typed :
       /\ ws \in Seq(Seq(STRING)) /\ Len(ws) \in 1..3
       /\ \A i \in DOMAIN ws : /\ ws[i] # <<>> /\ ~IsBlank(ws[i][1])
                              /\ \A j \in DOMAIN ws[i] : ws[i][j] # NL /\ (ws[i][j] = SP => i = 3)
  /\ \A g \in Gaps : g \in Seq({SP}) \ {<<>>}
-----------------------------------------------------------------------------
(* The library: names, files and directories.                              *)

\* The names of a path: what is between its slashes, but for nothing.
NameEnds(s, i) == s[i] # SL /\ (i = Len(s) \/ s[i+1] = SL)
NameTo(s, i) == SubSeq(s, Min({j \in 1..i : \A k \in j..i : s[k] # SL}), i)
Names(s) ==
  FoldLeftDomain(LAMBDA ns, i : IF NameEnds(s, i) THEN Append(ns, NameTo(s, i)) ELSE ns, <<>>, s)

Path(s) == IF s # <<>> /\ Head(s) = SL THEN Names(s) ELSE cwd \o Names(s)

Here(p)   == p # <<>> /\ Head(p) \in mounted /\ Tail(p) \in DOMAIN disks[Head(p)]
File(p)   == disks[Head(p)][Tail(p)]
IsDir(p)  == p = <<>> \/ (Here(p) /\ File(p) = Dir)
IsFile(p) == Here(p) /\ File(p) # Dir
\* A file or a directory may be made there.
IsFree(p) == Len(p) > 1 /\ IsDir(Front(p)) /\ ~IsDir(p)
Below(p)  == {q \in DOMAIN disks[Head(p)] : IsStrictPrefix(Tail(p), q)}

Put(p, x) == disks' = [disks EXCEPT ![Head(p)] =
               [q \in DOMAIN @ \cup {Tail(p)} |-> IF q = Tail(p) THEN x ELSE @[q]]]
Drop(p)   == disks' = [disks EXCEPT ![Head(p)] =
               [q \in DOMAIN @ \ ({Tail(p)} \cup Below(p)) |-> @[q]]]

\* rename moves what is below, too.
Move(a, b) ==
  /\ Here(a) /\ IsFree(b) /\ Head(a) = Head(b) /\ ~IsPrefix(a, b)
  /\ disks' = [disks EXCEPT ![Head(a)] =
       LET was(q) == Tail(a) \o SubSeq(q, Len(b), Len(q))
           keep   == DOMAIN @ \ ({Tail(a)} \cup Below(a))
           new    == {Tail(b) \o SubSeq(q, Len(a), Len(q)) : q \in {Tail(a)} \cup Below(a)}
       IN  [q \in keep \cup new |-> IF q \in new THEN @[was(q)] ELSE @[q]]]

Text(p) == IF p = <<>> THEN <<SL>> ELSE FlattenSeq([i \in DOMAIN p |-> <<SL>> \o p[i]])
getcwd(buf) == IF Len(Text(cwd)) < PATH_MAX THEN Text(cwd) ELSE buf
chdir(p) == cwd' = IF IsDir(p) THEN p ELSE cwd
-----------------------------------------------------------------------------
(* Reading a command.                                                      *)

SkipBlanks(s) ==
  LET i == SelectInSeq(s, LAMBDA c : ~IsBlank(c)) IN IF i = 0 THEN <<>> ELSE SubSeq(s, i, Len(s))

FirstBlank(s) == SelectInSeq(s, IsBlank)
LineEnd(s)    == SelectInSeq(s, LAMBDA c : c = NL)

\* The characters of s before the one at i, or all, and those after it, or none.
Before(s, i) == IF i = 0 THEN s ELSE SubSeq(s, 1, i - 1)
After(s, i)  == IF i = 0 THEN <<>> ELSE SubSeq(s, i + 1, Len(s))

\* Mutant of parse_cmd: the second argument ends with its first word.
parse_cmd_words(buf) ==
  LET ws == Names([i \in DOMAIN buf |-> IF IsBlank(buf[i]) THEN SL ELSE buf[i]])
      w(i) == IF i \in DOMAIN ws THEN ws[i] ELSE NULL
  IN  [op |-> IF ws = <<>> THEN <<>> ELSE ws[1], arg1 |-> w(2), arg2 |-> w(3)]

parse_cmd(buf) ==
  LET orNull(s) == IF s = <<>> THEN NULL ELSE s
      c  == SkipBlanks(buf)
      i  == FirstBlank(c)
      a1 == SkipBlanks(After(c, i))
      j  == FirstBlank(a1)
      a2 == SkipBlanks(After(a1, j))
  IN  [op   |-> Before(c, i),
       arg1 |-> orNull(Before(a1, j)),
       arg2 |-> orNull(Before(a2, LineEnd(a2)))]

Init ==
  /\ line = <<>> /\ typed = 0 /\ meant = Cut /\ cmd = NoCmd /\ at = "prompt"
  /\ tempname = <<>> /\ tempdir = <<>> /\ open = {}
  /\ disks = Media /\ quiet = TRUE
  /\ mounted \in {{}, {Host}}
  /\ cwd = (IF mounted = {} THEN <<>> ELSE <<Host>>)
  /\ home = <<>>

\* A line of the words ws, and what the user means by them.
LineOf(ws, g) ==
  FlattenSeq([i \in DOMAIN ws |-> IF i < 3 THEN ws[i] \o g ELSE ws[i]]) \o <<NL>>
Meant(ws) == [i \in 1..3 |-> IF i \in DOMAIN ws THEN ws[i] ELSE NULL]

Types ==
  /\ at = "prompt" /\ line = <<>> /\ typed < MaxLines
  /\ typed' = typed + 1
  /\ \E ws \in Typed, g \in Gaps : line' = LineOf(ws, g) /\ meant' = Meant(ws)
  /\ UNCHANGED <<cmd, at, temp, open, cwd, lib, home, quiet>>

\* fgets and parse_cmd.  A line that does not fit goes on as the next command.
Prompt ==
  /\ at = "prompt" /\ line # <<>>
  /\ LET end == LineEnd(line)
         n   == IF end < LineSize THEN end ELSE LineSize - 1
     IN  /\ cmd' = parse_cmd(SubSeq(line, 1, n))
         /\ line' = SubSeq(line, n + 1, Len(line))
         /\ meant' = IF n < end THEN Cut ELSE meant
  /\ at' = IF cmd'.op = <<>> THEN "prompt" ELSE "run"
  /\ home' = cwd /\ quiet' = TRUE
  /\ UNCHANGED <<typed, temp, open, cwd, lib>>

\* The command is done; the words mean nothing any more.
Done ==
  /\ at' = "prompt" /\ cmd' = NoCmd
  /\ meant' = IF line = <<>> THEN Cut ELSE meant
  /\ home' = <<>> /\ UNCHANGED <<line, typed>>

Running(ops) == at = "run" /\ cmd.op \in {<<o>> : o \in ops}

\* A command of one call, which changes the library's state by act, or fails.
Simple(ops, act) ==
  /\ Running(ops) /\ Done
  /\ (act /\ UNCHANGED quiet) \/ (UNCHANGED lib /\ quiet' = FALSE)
  /\ UNCHANGED <<temp, open, cwd>>

Tree(act) == act /\ UNCHANGED mounted
Mounted(ms) == mounted' = ms /\ UNCHANGED disks
-----------------------------------------------------------------------------
(* The commands of main.                                                   *)

Cd ==
  /\ Running({"cd"}) /\ Done
  /\ IF cmd.arg1 = NULL
     THEN tempdir' = getcwd(tempdir) /\ UNCHANGED cwd
     ELSE chdir(Path(cmd.arg1)) /\ UNCHANGED tempdir
  /\ UNCHANGED <<tempname, open, lib, quiet>>

Del ==
  LET p == Path(cmd.arg1) IN Simple({"del", "rm"}, Tree(IsFile(p) /\ Drop(p)))

Mkdir ==
  LET p == Path(cmd.arg1) IN
  Simple({"mkdir", "md"}, Tree(IsFree(p) /\ ~Here(p) /\ Put(p, Dir)))

Rmdir ==
  LET p == Path(cmd.arg1) IN
  Simple({"rmdir", "rd"}, Tree(Len(p) > 1 /\ IsDir(p) /\ Below(p) = {} /\ Drop(p)))

Ren == Simple({"ren", "mv"}, Tree(Move(Path(cmd.arg1), Path(cmd.arg2))))

\* do_mount and do_mkfs compare their argument with the names they know; at
\* another one they do nothing.
do_mount ==
  Simple({"mount"}, Mounted(mounted \cup {m \in Built : cmd.arg1 = <<SL>> \o m}))

\* The image in the file is a medium of its own.
do_mountfat ==
  Simple({"mountfat"}, /\ IsFile(Path(cmd.arg2)) /\ Tail(cmd.arg1) \in DOMAIN disks
                       /\ Mounted(mounted \cup {Tail(cmd.arg1)}))

do_umount == Simple({"umount", "unmount"}, Mounted(mounted \ {Tail(cmd.arg1)}))

do_mkfs ==
  Simple({"mkfs"}, Tree(disks' = [m \in DOMAIN disks |->
                                    IF m \in {<<"flash">>, <<"pfs">>} /\ cmd.arg1 = <<SL>> \o m
                                    THEN Blank ELSE disks[m]]))

\* _execve does not return.
Exec ==
  /\ Running({"exec", "chain"})
  /\ IsFile(Path(cmd.arg1)) /\ at' = "gone"
  /\ UNCHANGED <<line, typed, meant, cmd, temp, open, cwd, lib, home, quiet>>

\* It fails, or the command is help, or is not known.
OtherCommand ==
  /\ ~Running({"cd", "copy", "cp", "del", "rm", "dir", "ls", "mkdir", "md", "ren", "mv", "rmdir",
               "rd", "type", "cat", "mkfs", "mount", "mountfat", "umount", "unmount"})
  /\ at = "run" /\ Done
  /\ UNCHANGED <<temp, open, cwd, lib, quiet>>
-----------------------------------------------------------------------------
(* dir: the directory is made the current one while it is listed.          *)

DirHandle(p) == [path |-> p, mode |-> "dir"]

do_dir ==
  /\ Running({"dir", "ls"})
  /\ tempname' = IF cmd.arg1 = NULL THEN getcwd(tempname) ELSE tempname
  /\ LET filename == IF cmd.arg1 = NULL THEN tempname' ELSE cmd.arg1
         p == Path(filename)
     IN \/ /\ ~IsDir(p) /\ Done
           /\ UNCHANGED <<tempdir, open, cwd, lib, quiet>>
        \/ /\ IsDir(p) /\ Done /\ quiet' = FALSE      \* opendir fails
           /\ UNCHANGED <<tempdir, open, cwd, lib>>
        \/ /\ IsDir(p) /\ at' = "list"
           /\ open' = open \cup {DirHandle(p)}
           /\ tempdir' = getcwd(tempdir)
           /\ cwd' = p
           /\ UNCHANGED <<line, typed, meant, cmd, lib, home, quiet>>

ListEnd ==
  /\ at = "list" /\ Done
  /\ open' = {h \in open : h.mode # "dir"}
  /\ chdir(Path(tempdir))
  /\ UNCHANGED <<temp, lib, quiet>>
-----------------------------------------------------------------------------
(* copy and type.                                                          *)

\* The search of strrchr is for the address of "/" taken as a character, which
\* the build decides: it finds nothing, or the last of some character (a zero
\* byte, which would be found behind the name, is left out).
Basenames(src) ==
  {src} \cup {SubSeq(src, i + 1, Len(src)) : i \in
                {j \in DOMAIN src : \A k \in j+1..Len(src) : src[k] # src[j]}}

Dest == IF cmd.op \in {<<"type">>, <<"cat">>} THEN NULL ELSE cmd.arg2

Reads(p)  == [path |-> p, mode |-> "rb"]
Writes(p) == [path |-> p, mode |-> "wb"]

\* Mutant of Close: the file written to is left open.
CloseInput(hs) == open' = open \ {h \in hs : h.mode # "wb"}

Close(hs) == open' = open \ hs

\* The name of a file in directory dest, as far as tempname takes it.
Into(dest, src) ==
  {SubSeq(n, 1, IF Len(n) < PATH_MAX THEN Len(n) ELSE PATH_MAX - 1) :
     n \in {dest \o <<SL>> \o b : b \in Basenames(src)}}

\* The tests of do_copy, the destination's name, and the first fopen.
do_copy ==
  /\ Running({"copy", "cp", "type", "cat"})
  /\ LET src  == Path(cmd.arg1)
         into == Dest # NULL /\ IsDir(Path(Dest))
     IN \/ /\ IsDir(src) /\ Done
           /\ UNCHANGED <<temp, open, cwd, lib, quiet>>
        \/ /\ ~IsDir(src)
           /\ \E dest \in IF into THEN Into(Dest, cmd.arg1) ELSE {Dest} :
                /\ tempname' = IF into THEN dest ELSE tempname
                /\ \/ /\ Done /\ quiet' = FALSE            \* fopen fails
                      /\ UNCHANGED open
                   \/ /\ IsFile(src) /\ at' = "fopen"
                      /\ cmd' = [op |-> cmd.op, src |-> src, arg2 |-> dest, pos |-> 0]
                      /\ open' = open \cup {Reads(src)}
                      /\ UNCHANGED <<line, typed, meant, home, quiet>>
           /\ UNCHANGED <<tempdir, cwd, lib>>

\* The second fopen empties the file, or makes it.  stdout is always open.
OpenDest ==
  /\ at = "fopen"
  /\ LET p == Path(cmd.arg2) IN
     \/ /\ cmd.arg2 = NULL /\ at' = "copy"
        /\ UNCHANGED <<line, typed, meant, cmd, temp, open, cwd, lib, home, quiet>>
     \/ /\ cmd.arg2 # NULL /\ IsFree(p) /\ Put(p, <<>>) /\ at' = "copy"
        /\ open' = open \cup {Writes(p)}
        /\ UNCHANGED <<line, typed, meant, cmd, temp, cwd, mounted, home, quiet>>
     \/ /\ cmd.arg2 # NULL /\ Done /\ quiet' = FALSE
        /\ Close({Reads(cmd.src)})
        /\ UNCHANGED <<temp, cwd, lib>>

\* fgetc and fputc; nobody asks whether the write worked.
CopyByte ==
  /\ at = "copy" /\ IsFile(cmd.src) /\ cmd.pos < Len(File(cmd.src))
  /\ cmd' = [cmd EXCEPT !.pos = @ + 1]
  /\ \/ cmd.arg2 = NULL /\ UNCHANGED <<lib, quiet>>
     \/ /\ cmd.arg2 # NULL /\ IsFile(Path(cmd.arg2))
        /\ Put(Path(cmd.arg2), Append(File(Path(cmd.arg2)), File(cmd.src)[cmd.pos + 1]))
        /\ UNCHANGED <<mounted, quiet>>
     \/ cmd.arg2 # NULL /\ UNCHANGED lib /\ quiet' = FALSE
  /\ UNCHANGED <<line, typed, meant, at, temp, open, cwd, home>>

\* Mutants of AtEnd: the last byte is lost; the end is not seen.
AtEndEarly == IsFile(cmd.src) => cmd.pos + 1 >= Len(File(cmd.src))
AtEndNever == ~IsFile(cmd.src)

AtEnd == IsFile(cmd.src) => cmd.pos >= Len(File(cmd.src))

CloseBoth ==
  /\ at = "copy" /\ Done
  /\ Close({Reads(cmd.src), Writes(Path(cmd.arg2))})
  /\ UNCHANGED <<temp, cwd, lib>>

CopyEnd == at = "copy" /\ AtEnd /\ CloseBoth /\ UNCHANGED quiet

\* An error in reading looks like the end of the file.
ReadError == CloseBoth /\ quiet' = FALSE
-----------------------------------------------------------------------------
\* Another program on the host makes or removes a file or a directory.  What it
\* does to one that is open shows as a call that fails.
HostChanges ==
  /\ \E f \in HostFiles :
       LET p == <<Host>> \o f.path IN
       /\ \A h \in open : h.mode # "dir" => ~IsPrefix(p, h.path)
       /\ Tail(p) \notin DOMAIN disks[Host] => Front(f.path) \in DOMAIN disks[Host]
                                               /\ disks[Host][Front(f.path)] = Dir
       /\ IF Tail(p) \in DOMAIN disks[Host] THEN Drop(p) ELSE Put(p, f.holds)
  /\ quiet' = (quiet /\ at = "prompt")
  /\ UNCHANGED <<line, typed, meant, cmd, at, temp, open, cwd, mounted, home>>

Command ==
  \/ Cd \/ Del \/ Mkdir \/ Rmdir \/ Ren \/ do_mount \/ do_mountfat \/ do_umount \/ do_mkfs
  \/ Exec \/ OtherCommand \/ do_dir \/ ListEnd \/ do_copy \/ OpenDest \/ CopyByte \/ CopyEnd

\* fgets finds the end of the input, and main returns.
Leave ==
  /\ at = "prompt" /\ line = <<>> /\ at' = "gone"
  /\ UNCHANGED <<line, typed, meant, cmd, temp, open, cwd, lib, home, quiet>>

Next == Types \/ Prompt \/ Command \/ ReadError \/ Leave \/ HostChanges

\* a command waits for nobody; fgets waits for the user.
Spec == Init /\ [][Next]_vars /\ WF_vars(Command)
-----------------------------------------------------------------------------
(* Properties.                                                             *)

\* fgets and parse_cmd: a line that fits cmdbuf runs as the words it was typed
\* as, the last of them with the blanks it has; only a line that was cut does
\* not.
RunsWhatWasMeant == at = "run" /\ meant # Cut => <<cmd.op, cmd.arg1, cmd.arg2>> = meant

\* Every way out of do_dir and do_copy: no file and no directory stays open,
\* and but for cd the user is where he was, unless a call failed, the name of
\* that directory does not fit tempdir, or it is not there any more.
LeavesNothing ==
  [][at \notin {"prompt", "gone"} /\ at' = "prompt" =>
       /\ open' = {}
       /\ \/ cmd.op = <<"cd">> \/ ~quiet' \/ ~IsDir(home)
          \/ Len(Text(home)) >= PATH_MAX
          \/ cwd' = home]_vars

\* do_copy: when no call fails and the host keeps still, the destination ends
\* up with what the source holds, provided they are two files.
CopyCopies ==
  [][at = "copy" /\ at' = "prompt" /\ quiet' /\ cmd.arg2 # NULL /\ Path(cmd.arg2) # cmd.src =>
       File(Path(cmd.arg2)) = File(cmd.src)]_vars

\* The loops of do_dir and do_copy: a command ends, even when it copies a file
\* onto itself and the host changes files meanwhile.
CommandsEnd == at \notin {"prompt", "gone"} ~> at \in {"prompt", "gone"}
=============================================================================
