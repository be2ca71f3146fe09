-------------------------------- MODULE Build --------------------------------
(***************************************************************************)
(* Compiling, running and flashing: the handlers of gui.tcl that call the  *)
(* compiler and the loader, and the two variables that say what they work  *)
(* on, BINFILE and curProj, which the handlers of module Editor also       *)
(* assign.                                                                 *)
(*                                                                         *)
(* "exec" waits for the compiler without serving the event loop, so the    *)
(* compiler is one step after saveFilesForCompile.  "Run" goes on to the   *)
(* loader in the same step; "flash" first waits in a message box, where    *)
(* tabs are reloaded and files are written.  Compiler and loader are       *)
(* external: the compiler fails, or makes a binary from the text that is   *)
(* on disk; the loader runs, or cannot be started.  Options, ports, the    *)
(* listing window and the output pane are left out.                        *)
(***************************************************************************)
EXTENDS Editor

CONSTANTS
  Projects,    \* the files whose name ends in .fpide or .side
  Roots,       \* sets of names with the same [file rootname], x.spin and x.c
  Special      \* "-xTAQOZ", "-xDEBUG", "-xTERM", lisp.binary: doSpecial's names

\* [file rootname f].binary: a binary is known here by the names it is made of.
BinaryOf(f)  == {g \in Files : f = g \/ \E s \in Roots : {f, g} \subseteq s}
Binaries     == {BinaryOf(f) : f \in Files}

ASSUME BuildAssumption ==
  /\ Projects \subseteq Files
  /\ Roots \subseteq SUBSET Files
  /\ \A s, t \in Roots : s = t \/ s \cap t = {}
  /\ \A s \in Aliases : \E t \in Roots : s \subseteq t
  /\ Special \notin Files \cup Binaries \cup {NoFile}
  /\ Binaries \cap (Files \cup {NoFile}) = {}

VARIABLES
  BINFILE,     \* the binary to load, or NoFile
  curProj,     \* the open project, or NoFile
  made,        \* external: the binaries on disk, and the text each was made from
  job,         \* history: what the compiler was given in this handler, see Job
  board        \* history: the binary the last step loaded, and its text, or Nothing

buildvars == <<BINFILE, curProj, made, job, board>>
allvars   == <<vars, buildvars>>

Junk         == -2       \* what a compiler makes of a binary
Anything     == -3       \* no promise what it shall be
Nothing      == <<NoFile, Empty>>
NoJob        == [source |-> NoFile, read |-> Junk, shown |-> Anything]
OnDisk       == DOMAIN made

\* What currentFile can return, but for an unnamed tab.
Sources      == Files \cup Binaries \cup {Special}

BuildInit ==
  /\ Init
  /\ BINFILE = NoFile /\ curProj = NoFile
  /\ made = <<>>
  /\ job = NoJob
  /\ board = Nothing
-----------------------------------------------------------------------------
(* The editor's handlers, with what they do to BINFILE and curProj.        *)

\* A step that runs neither the compiler nor the loader.
NoTool ==
  /\ job' = IF stage = "askFlash" THEN job ELSE NoJob
  /\ board' = Nothing

\* The end of loadSourceFile: a project file that was loaded is the project.
Loaded(f) ==
  curProj' = IF f \in Projects /\ filenames'[select'] = f THEN f ELSE curProj

\* doOpenFile clears BINFILE; a link and openLastFiles do not.
OpenSource(f) ==
  /\ OpenFile(f) /\ Loaded(f)
  /\ BINFILE' = BINFILE \/ BINFILE' = NoFile
  /\ BINFILE' # BINFILE => f \in Normal
  /\ NoTool /\ UNCHANGED made

\* A link to a file that is not there.
ClickOnLink(f) ==
  /\ \/ CreateLinked(f) /\ Loaded(f)
     \/ NotCreated(f) /\ f \notin exists /\ UNCHANGED curProj
  /\ NoTool /\ UNCHANGED <<BINFILE, made>>

\* The third way is a file that cannot be opened for writing.
NewProject(f) ==
  /\ \/ CreateNewProject(f) /\ Loaded(f)
     \/ NotCreated(f) /\ f \in Normal /\ UNCHANGED curProj
     \/ Idle /\ UNCHANGED <<vars, curProj>>
  /\ BINFILE' = NoFile
  /\ NoTool /\ UNCHANGED made

SaveAs(f) ==
  /\ SaveFileAs(f)
  /\ BINFILE' = NoFile
  /\ NoTool /\ UNCHANGED <<curProj, made>>

\* The handlers that can reach saveFile with a tab that has no name.
SaveMayName ==
  /\ AnswerSave \/ CheckUnnamed \/ \E f \in Files : SaveCurFile(f)
  /\ BINFILE' = IF filenames' = filenames THEN BINFILE ELSE NoFile
  /\ NoTool /\ UNCHANGED <<curProj, made>>

\* Mutant of ForgetProject: filenames of the tab is cleared before it is compared.
ForgetProjectLate == curProj' = IF filenames'[cur] = curProj THEN NoFile ELSE curProj

\* closeTab: with the project's tab the project is closed.
ForgetProject == curProj' = IF filenames[cur] = curProj THEN NoFile ELSE curProj

CloseTheTab ==
  /\ DestroyTab /\ ForgetProject
  /\ NoTool /\ UNCHANGED <<BINFILE, made>>

EditorOnly ==
  /\ \/ SaveFileFromWindow \/ AnswerOverwrite \/ CheckChanges \/ Leave
     \/ CheckNamed \/ ReloadForCompile \/ AnswerReload
     \/ CreateNewTab \/ Edit \/ Undo \/ Redo \/ ToggleAutoreload
     \/ CloseTab \/ ExitProgram \/ StartCompile \/ CheckFocusIn
     \/ \E w \in Tabs : SelectTab(w)
     \/ \E f \in Files : ExternalWrite(f) \/ ExternalDelete(f)
  /\ NoTool /\ UNCHANGED <<BINFILE, curProj, made>>
-----------------------------------------------------------------------------
(* The compiler and the loader.                                            *)

\* The file to compile.  With no tab there is no filenames element to read.
CurrentFile ==
  IF BINFILE # NoFile THEN BINFILE
  ELSE IF curProj # NoFile THEN curProj ELSE filenames[select]

HasCurrentFile == BINFILE # NoFile \/ curProj # NoFile \/ select \in tabs

\* The compiler, given s, makes binary b; it stands for b itself if that is s.
Makes(s, b) ==
  \E x \in Texts \cup {Junk} :
    /\ \/ s \in exists /\ b = BinaryOf(s) /\ x = disk[s]
       \/ s \in OnDisk /\ b = s /\ x = Junk
    /\ made' = [c \in OnDisk \cup {b} |-> IF c = b THEN x ELSE made[c]]

\* The loader gets binary b.
Load(b) == board' = <<b, IF b \in OnDisk' THEN made'[b] ELSE Empty>>

\* doJustRun, and doJustFlash once it has its answer: the loader runs, or
\* cannot be started or is not wanted.
JustRun(b) == Load(b) \/ board' = Nothing

\* What "Compile and run" promises of the text it runs, as its entry in the
\* menu is understood: the text the selected tab shows.  No promise with a
\* project or a binary, for broken ties, undone edits and a version on disk
\* that came after the tab was looked at.
Shown ==
  IF \/ BINFILE # NoFile \/ curProj # NoFile
     \/ select \in loose \cup undone \/ Newer(filenames[select])
  THEN Anything ELSE text[select]

\* What the compiler is given: a file name, the text it reads there, and what
\* the selected tab showed at that moment.
Job(s) ==
  [source |-> s, read |-> IF s \in exists THEN disk[s] ELSE Junk, shown |-> Shown]

\* Mutant of CompileFails: the compiler's exit status is lost.
CompileStatusLost ==
  /\ stage' = "none"
  /\ BINFILE' = IF CurrentFile \in Files THEN BinaryOf(CurrentFile) ELSE CurrentFile
  /\ UNCHANGED made
  /\ JustRun(BINFILE')

\* Mutant of CompileFails: BINFILE becomes the binary of no file.
CompileFailsUnnamed ==
  /\ stage' = "none"
  /\ BINFILE' = BinaryOf(NoFile)
  /\ board' = Nothing /\ UNCHANGED made

\* The compiler fails: status 1, and doCompileRun and doCompileFlash go no
\* further.
CompileFails ==
  /\ stage' = "none"
  /\ BINFILE' = NoFile
  /\ board' = Nothing /\ UNCHANGED made

\* It works, and the menu entry was Compile, or Run, which loads at once, or
\* Flash, which asks first.
CompileWorks ==
  \E b \in Binaries :
    /\ Makes(CurrentFile, b)
    /\ BINFILE' = b
    /\ \/ stage' = "none" /\ JustRun(b)
       \/ stage' = "askFlash" /\ board' = Nothing

\* doCompile, doCreateZip, doCompileRun, doCompileFlash after saveFilesForCompile.
DoCompile ==
  /\ Compile
  /\ \/ /\ HasCurrentFile
        /\ job' = Job(CurrentFile)
        /\ CompileFails \/ CompileWorks
     \/ /\ ~HasCurrentFile /\ stage' = "none"
        /\ NoTool /\ UNCHANGED <<BINFILE, made>>
  /\ UNCHANGED curProj

\* doLoadRun: BINFILE is cleared again, unless an error ends the handler first.
LoadBinary(b) ==
  /\ Idle
  /\ b \in OnDisk
  /\ job' = NoJob /\ UNCHANGED <<vars, curProj, made>>
  /\ \/ BINFILE' = NoFile /\ JustRun(b)
     \/ BINFILE' = b /\ board' = Nothing

\* doLoadFlash, up to the question.
FlashBinary(b) ==
  /\ LoadFlash
  /\ b \in OnDisk
  /\ BINFILE' = b
  /\ NoTool /\ UNCHANGED <<curProj, made>>

\* doJustFlash with its answer; doLoadFlash clears BINFILE as doLoadRun does.
JustFlash ==
  /\ AnswerFlash
  /\ UNCHANGED <<curProj, made, job>>
  /\ \/ op = "compile" /\ UNCHANGED BINFILE /\ JustRun(BINFILE)
     \/ op = "flash" /\ BINFILE' = NoFile /\ JustRun(BINFILE)
     \/ op = "flash" /\ UNCHANGED BINFILE /\ board' = Nothing

\* doSpecial leaves its name in BINFILE.
DoSpecial ==
  /\ Idle
  /\ job' = NoJob /\ UNCHANGED <<vars, curProj, made>>
  /\ BINFILE' = Special
  /\ JustRun(Special)

BuildNext ==
  \/ EditorOnly \/ SaveMayName \/ CloseTheTab \/ DoCompile \/ JustFlash \/ DoSpecial
  \/ \E f \in Files : OpenSource(f) \/ ClickOnLink(f) \/ NewProject(f) \/ SaveAs(f)
  \/ \E b \in Binaries : LoadBinary(b) \/ FlashBinary(b)

BuildSpec == BuildInit /\ [][BuildNext]_allvars
-----------------------------------------------------------------------------
(* Properties.                                                             *)

\* What currentFile and the %S and %B of a command line can be.
BuildTypeOK ==
  /\ BINFILE \in Sources \cup {NoFile}
  /\ curProj \in Projects \cup {NoFile}
  /\ OnDisk \subseteq Binaries /\ made \in [OnDisk -> Texts \cup {Junk}]
  /\ job \in [source : Sources \cup {NoFile}, read : Texts \cup {Junk},
              shown : Texts \cup {Anything}]
  /\ board \in (Sources \cup {NoFile}) \X (Texts \cup {Junk})

\* BINFILE never names a binary that was not made: a compile that failed
\* takes its name away, and the dialogs offer only files that are there.
BinaryIsThere == BINFILE \in Binaries => BINFILE \in OnDisk

\* What "Compile and run" and "Compile and flash" load is the binary that the
\* compiler made in this very handler, from what it read in the file that it
\* was given, whatever is reloaded or written while the flash question waits.
RunsThisBuild ==
  [][op = "compile" /\ board' # Nothing =>
       /\ board'[1] = BINFILE'
       /\ job'.source \in Files => board'[2] = job'.read]_allvars

\* They run the text that the tab showed when the compiler ran (what it may
\* not show any more when the flash question is answered), but for what Shown
\* excepts: saveFilesForCompile, currentFile and BINFILE agree.
RunsWhatTabShows ==
  [][op = "compile" /\ board' # Nothing => job'.shown \in {Anything, board'[2]}]_allvars

\* When its last tab is closed, the project is closed.
ProjectGoesWithItsTab ==
  [][tabs' # tabs /\ curProj \in {filenames[w] : w \in tabs} =>
       curProj \in {filenames'[w] : w \in tabs'} \/ curProj' = NoFile]_allvars
=============================================================================
