------------------------------- MODULE Editor -------------------------------
(***************************************************************************)
(* The notebook of editor tabs of src/src/gui.tcl and the files on disk    *)
(* they are loaded from and saved to.  The program is one Tcl event loop:  *)
(* a handler runs alone, but other programs write the disk at any moment,  *)
(* and while a handler waits in a message box the event loop goes on       *)
(* serving <FocusIn>.  Handlers that loop over the tabs or wait in a       *)
(* dialog are therefore several steps, with op, cur, stage and needRead    *)
(* for the place they have reached.                                        *)
(*                                                                         *)
(* The code tells files by their names: filenames, filetimes and getTabFor *)
(* compare strings.  The dialogs, the command line and the last session    *)
(* give normalized names; findFileOnPath hands on a link to a missing file *)
(* as it is written there, and an absolute link unnormalized.  So one file *)
(* can have several names here, of which one at most is normal.            *)
(*                                                                         *)
(* A text is what a person reads: its encoding and the white space at its  *)
(* end, which saveFileFromWindow trims, are left out.  The text a file has *)
(* at the start is denoted by a name of the file, 0 is the empty text, and *)
(* 1..MaxText are texts typed here or written by another program, each     *)
(* different from all before it.                                           *)
(*                                                                         *)
(* BINFILE and curProj, which some of these handlers also assign, are the  *)
(* state of module Build, which extends the handlers with them.            *)
(***************************************************************************)
EXTENDS Integers, Sequences, FiniteSets

CONSTANTS
  Files,       \* the file names that come up
  Normal,      \* those that file dialogs and "file normalize" give
  Aliases,     \* sets of different names of one file
  NoFile,      \* the empty file name of a tab that was never saved
  MaxTabs,     \* bound: how many tabs are ever created
  MaxText,     \* bound: how many texts are ever typed or written
  MaxClock,    \* bound: the last second of the clock
  SameSecond   \* TRUE: another program may write within the second of our
               \* last look at the file (file mtime counts whole seconds)

\* The names f and g are names of one file.
SameFile(f, g) == f = g \/ \E s \in Aliases : {f, g} \subseteq s

ASSUME EditorAssumption ==
  /\ NoFile \notin Files
  /\ Normal \subseteq Files
  /\ Aliases \subseteq SUBSET Files
  /\ \A s, t \in Aliases : s = t \/ s \cap t = {}
  /\ \A f, g \in Normal : SameFile(f, g) => f = g
  /\ MaxTabs \in Nat \ {0}
  /\ MaxText \in Nat
  /\ MaxClock \in Nat
  /\ SameSecond \in BOOLEAN

VARIABLES
  tabs,        \* the tabs in the notebook, [.p.nb tabs]
  TABCOUNTER,  \* the name of the next tab; tabs stay in creation order
  select,      \* the selected tab, [.p.nb select]
  filenames,   \* the file name of each tab
  text,        \* the text in each tab
  modified,    \* ar(modified) of each tab's ctext widget
  past,        \* undo stack of each tab, latest text last
  future,      \* redo stack of each tab
  autoreload,  \* config(autoreload)
  exists,      \* the files on disk
  disk,        \* what they contain
  mtime,       \* and when they were written
  filetimes,   \* per file NAME: the time of the version last seen, or Unset
  clock,       \* the time of day in seconds
  fresh,       \* how many different texts there have been
  op,          \* the running handler
  cur,         \* the tab it is at
  stage,       \* what it does next there
  needRead,    \* saveFilesForCompile's local of that name
  base,        \* history: the version on disk each tab was last in step with
  loose,       \* history: tabs whose tie to their file was broken, see Loosen
  undone,      \* history: tabs where undo or redo was used since then
  asked        \* history: tabs "Save file?" was asked about in this handler

tabvars   == <<tabs, TABCOUNTER, select, filenames>>
textvars  == <<text, modified, past, future>>
diskvars  == <<exists, disk, mtime, clock, fresh>>
opvars    == <<op, cur, stage, needRead>>
histvars  == <<base, loose, undone, asked>>
vars      == <<tabvars, textvars, autoreload, diskvars, filetimes, opvars, histvars>>

Tabs     == 0 .. MaxTabs - 1
NoTab    == -1
Unset    == -1
Empty    == 0
Texts    == (0 .. MaxText) \cup Files

Dialogs  == {"askSave", "askOverwrite", "askReload", "askFlash"}
Stages   == Dialogs \cup {"none", "check", "save", "reload", "destroy",
                          "leave", "build", "saved", "failed"}
Ops      == {"idle", "save", "close", "exit", "compile", "flash", "exited"}

Idle     == op = "idle"

\* The event loop is served: no handler is running, or one waits in a message
\* box, or saveFilesForCompile in the file dialog for a tab without a name.
Served ==
  \/ Idle
  \/ stage \in Dialogs
  \/ stage = "check" /\ op = "compile" /\ filenames[cur] = NoFile

NamesOf(f)   == {g \in Files : SameFile(f, g)}
FirstName(f) == CHOOSE g \in NamesOf(f) : TRUE
TabsOf(f)    == {w \in tabs : filenames[w] = f}
NoTime(f)    == f \in exists /\ filetimes[f] = Unset
Newer(f)     == f \in exists /\ filetimes[f] # Unset /\ mtime[f] > filetimes[f]

Init ==
  /\ tabs = {0} /\ TABCOUNTER = 1 /\ select = 0
  /\ filenames = [w \in Tabs |-> NoFile]
  /\ text = [w \in Tabs |-> Empty]
  /\ modified = [w \in Tabs |-> FALSE]
  /\ past = [w \in Tabs |-> <<>>]
  /\ future = [w \in Tabs |-> <<>>]
  /\ autoreload \in BOOLEAN
  /\ exists \in {e \in SUBSET Files : \A f \in e : NamesOf(f) \subseteq e}
  /\ disk = [f \in Files |-> IF f \in exists THEN FirstName(f) ELSE Empty]
  /\ mtime = [f \in Files |-> 0]
  /\ filetimes = [f \in Files |-> Unset]
  /\ clock = 0 /\ fresh = 0
  /\ op = "idle" /\ cur = NoTab /\ stage = "none" /\ needRead = FALSE
  /\ base = [w \in Tabs |-> Empty]
  /\ loose = {} /\ undone = {} /\ asked = {}
-----------------------------------------------------------------------------
(* Reading and writing files.                                              *)

\* filetimes[f] is about to say that version v of f has been seen, by one
\* tab or by none: every other tab of f no longer notices that it is behind.
Loosen(f) == loose \cup TabsOf(f)

\* loadFileToWindow: the tab shows the file, as the handler has left it.
LoadFileToWindow(w, f) ==
  /\ text' = [text EXCEPT ![w] = disk'[f]]
  /\ modified' = [modified EXCEPT ![w] = FALSE]
  /\ past' = [past EXCEPT ![w] = <<>>]
  /\ future' = [future EXCEPT ![w] = <<>>]
  /\ filetimes' = [filetimes EXCEPT ![f] = mtime'[f]]
  /\ base' = [base EXCEPT ![w] = disk'[f]]
  /\ loose' = Loosen(f) \ {w}
  /\ undone' = undone \ {w}

\* The times at which something other than a save can stamp a file.
Stamps == {t \in {clock, clock + 1} : t <= MaxClock /\ (SameSecond \/ t > clock)}

\* The file f gets text x at time t, whatever it is called.
PutFile(f, x, t) ==
  /\ exists' = exists \cup NamesOf(f)
  /\ disk' = [g \in Files |-> IF SameFile(f, g) THEN x ELSE disk[g]]
  /\ mtime' = [g \in Files |-> IF SameFile(f, g) THEN t ELSE mtime[g]]
  /\ clock' = t

GoTo(s) == stage' = s /\ UNCHANGED <<op, cur, needRead, asked>>

Finish(o, s) ==
  op' = o /\ stage' = s /\ cur' = NoTab /\ needRead' = FALSE /\ asked' = {}

\* The handler raised a Tcl error: it ends there, and exitProgram's catch
\* makes that an exit.
Abort == IF op = "exit" THEN Finish("exited", "failed") ELSE Finish("idle", "none")

\* Mutants of Later: a list of every tab ever made; an index that stays.
LaterClosedToo(w) == {v \in 0 .. TABCOUNTER - 1 : v > w}
LaterAgain(w)     == {v \in tabs : v >= w}

\* What "lindex $t [incr i]" finds next in the list of tabs.
Later(w) == {v \in tabs : v > w}

Advance(w) ==
  /\ needRead' = FALSE /\ asked' = asked
  /\ IF Later(w) = {}
     THEN /\ stage' = IF op' = "exit" THEN "leave" ELSE "build"
          /\ cur' = NoTab
     ELSE /\ stage' = "check"
          /\ cur' \in Later(w) /\ \A v \in Later(w) : cur' <= v

\* saveFile returned to its caller.
Return ==
  \/ op = "save" /\ Finish("idle", "none")
  \/ op = "close" /\ GoTo("destroy")
  \/ op = "exit" /\ op' = op /\ Advance(cur)
  \/ op = "compile" /\ ~needRead /\ op' = op /\ Advance(cur)
  \/ op = "compile" /\ needRead /\ GoTo("reload")

\* Tabs that have the file f by another name, looked at in this very second.
SeenNow(f) == {w \in tabs : LET g == filenames[w] IN
                 g \in NamesOf(f) \ {f} /\ filetimes[g] = clock}

\* saveFileFromWindow from "open $fname w" on: it succeeds, cannot open the
\* file, or has truncated it when the disk is full.  ft is filetimes so far.
WriteFile(w, f, ft) ==
  \/ /\ PutFile(f, text[w], clock)
     /\ filetimes' = [ft EXCEPT ![f] = clock]
     /\ modified' = [modified EXCEPT ![w] = FALSE]
     /\ base' = [base EXCEPT ![w] = text[w]]
     /\ loose' = (Loosen(f) \cup SeenNow(f)) \ {w}
     /\ undone' = undone \ {w}
     /\ Return
     /\ UNCHANGED <<fresh, text, past, future>>
  \/ /\ filetimes' = ft
     /\ loose' = IF ft = filetimes THEN loose ELSE Loosen(f)
     /\ \/ UNCHANGED <<exists, disk, mtime, clock>>
        \/ \E t \in Stamps : PutFile(f, Empty, t)
     /\ Abort
     /\ UNCHANGED <<fresh, textvars, base, undone>>

\* Mutant of MustAsk: the sense of Auto Reload inverted.
AsksInverted(f) == Newer(f) /\ autoreload

\* Whether saveFileFromWindow asks before it overwrites.
MustAsk(f) == Newer(f) /\ ~autoreload

\* saveFileFromWindow: look whether another program changed the file, then
\* write.
SaveFileFromWindow ==
  LET f    == filenames[cur]
      seen == [filetimes EXCEPT ![f] = mtime[f]]
  IN
  /\ stage = "save"
  /\ \/ /\ NoTime(f)                      \* no such element in filetimes
        /\ Abort
        /\ UNCHANGED <<textvars, diskvars, filetimes, base, loose, undone>>
     \/ /\ MustAsk(f)
        /\ filetimes' = seen
        /\ loose' = Loosen(f)
        /\ GoTo("askOverwrite")
        /\ UNCHANGED <<textvars, diskvars, base, undone>>
     \/ Newer(f) /\ ~MustAsk(f) /\ WriteFile(cur, f, seen)
     \/ ~NoTime(f) /\ ~Newer(f) /\ WriteFile(cur, f, filetimes)
  /\ UNCHANGED <<tabvars, autoreload>>

\* Mutant of AnswerOverwrite: "no" also takes the modified mark away.
AnswerOverwriteClears ==
  /\ stage = "askOverwrite"
  /\ Return
  /\ modified' = [modified EXCEPT ![cur] = FALSE]
  /\ UNCHANGED <<tabvars, text, past, future, autoreload, diskvars, filetimes,
                 base, loose, undone>>

\* "File has changed on disk; overwrite it?"
AnswerOverwrite ==
  /\ stage = "askOverwrite"
  /\ \/ WriteFile(cur, filenames[cur], filetimes)
     \/ Return /\ UNCHANGED <<textvars, diskvars, filetimes, base, loose, undone>>
  /\ UNCHANGED <<tabvars, autoreload>>
-----------------------------------------------------------------------------
(* Tabs and typing.                                                        *)

\* newTabName and createNewTab: TABCOUNTER names the tab.
AddTab ==
  /\ TABCOUNTER < MaxTabs
  /\ tabs' = tabs \cup {TABCOUNTER}
  /\ select' = TABCOUNTER
  /\ TABCOUNTER' = TABCOUNTER + 1

CreateNewTab ==
  /\ Idle
  /\ AddTab
  /\ UNCHANGED <<filenames, textvars, autoreload, diskvars, filetimes, opvars, histvars>>

SelectTab(w) ==
  /\ Idle
  /\ w \in tabs /\ w # select
  /\ select' = w
  /\ UNCHANGED <<tabs, TABCOUNTER, filenames, textvars, autoreload, diskvars, filetimes,
                 opvars, histvars>>

\* Mutant of MarkModified: a ctext subcommand that forgets it.
MarkNothing(w) == UNCHANGED modified

\* ctext::modified $win 1, which insert, delete, paste and cut end in.
MarkModified(w) == modified' = [modified EXCEPT ![w] = TRUE]

\* The user types in the selected tab.
Edit ==
  /\ Idle
  /\ select \in tabs
  /\ fresh < MaxText
  /\ fresh' = fresh + 1
  /\ text' = [text EXCEPT ![select] = fresh']
  /\ MarkModified(select)
  /\ past' = [past EXCEPT ![select] = Append(@, text[select])]
  /\ future' = [future EXCEPT ![select] = <<>>]
  /\ UNCHANGED <<tabvars, autoreload, exists, disk, mtime, clock, filetimes, opvars, histvars>>

\* ctext passes "edit undo" to the Tk text widget and leaves ar(modified).
Undo ==
  /\ Idle
  /\ select \in tabs
  /\ past[select] # <<>>
  /\ LET n == Len(past[select]) IN
       /\ text' = [text EXCEPT ![select] = past[select][n]]
       /\ past' = [past EXCEPT ![select] = SubSeq(@, 1, n - 1)]
       /\ future' = [future EXCEPT ![select] = Append(@, text[select])]
  /\ undone' = undone \cup {select}
  /\ UNCHANGED <<tabvars, modified, autoreload, diskvars, filetimes, opvars, base, loose, asked>>

Redo ==
  /\ Idle
  /\ select \in tabs
  /\ future[select] # <<>>
  /\ LET n == Len(future[select]) IN
       /\ text' = [text EXCEPT ![select] = future[select][n]]
       /\ future' = [future EXCEPT ![select] = SubSeq(@, 1, n - 1)]
       /\ past' = [past EXCEPT ![select] = Append(@, text[select])]
  /\ undone' = undone \cup {select}
  /\ UNCHANGED <<tabvars, modified, autoreload, diskvars, filetimes, opvars, base, loose, asked>>

\* The check button "Auto Reload Files if changed externally".
ToggleAutoreload ==
  /\ Idle
  /\ autoreload' = ~autoreload
  /\ UNCHANGED <<tabvars, textvars, diskvars, filetimes, opvars, histvars>>

\* Nothing is loaded.
LoadNothing == UNCHANGED <<filenames, textvars, filetimes, base, loose, undone>>

\* loadSourceFile for a file no tab has, into the selected tab if that is an
\* empty new one, else into a new tab, which stays when uread fails.
LoadFileToTab(f) ==
  /\ \/ /\ select \in tabs /\ filenames[select] = NoFile /\ ~modified[select]
        /\ UNCHANGED <<tabs, TABCOUNTER, select>>
     \/ /\ select \in tabs => filenames[select] # NoFile \/ modified[select]
        /\ AddTab
  /\ \/ /\ filenames' = [filenames EXCEPT ![select'] = f]
        /\ LoadFileToWindow(select', f)
     \/ LoadNothing

\* Mutant of TabsFor: only the selected tab is looked at.
TabsForSelected(f) == {w \in tabs : w = select /\ filenames[w] = f}

\* The tabs getTabFor can find; it returns the first.
TabsFor(f) == TabsOf(f)

\* getTabFor found the name in a tab: only select it.
ShowTabOf(f) ==
  /\ select' \in TabsFor(f) /\ \A v \in TabsFor(f) : select' <= v
  /\ UNCHANGED <<tabs, TABCOUNTER>> /\ LoadNothing

LoadSourceFile(f) == IF TabsFor(f) # {} THEN ShowTabOf(f) ELSE LoadFileToTab(f)

\* doOpenFile, doClickOnError, openLastFiles, doClickOnLink for a file that
\* is there: loadSourceFile of a name from a dialog or a link.
OpenFile(f) ==
  /\ Idle
  /\ f \in exists
  /\ UNCHANGED <<autoreload, diskvars, opvars, asked>>
  /\ LoadSourceFile(f)

\* doClickOnLink for a file that is not there: doCreate 1 writes a blank one,
\* under the name that is written in the link.
CreateLinked(f) ==
  /\ Idle
  /\ f \notin exists
  /\ \E t \in Stamps : PutFile(f, Empty, t)
  /\ UNCHANGED <<fresh, autoreload, opvars, asked>>
  /\ LoadSourceFile(f)

\* CreateLinked or CreateNewProject has opened the file and cannot write it;
\* when it cannot open it either, nothing changes.
NotCreated(f) ==
  /\ Idle
  /\ f \notin exists \/ f \in Normal
  /\ \E t \in Stamps : PutFile(f, Empty, t)
  /\ UNCHANGED <<tabs, TABCOUNTER, select, fresh, autoreload, opvars, asked>>
  /\ LoadNothing

\* createNewProject writes the project file over whatever is there.
CreateNewProject(f) ==
  /\ Idle
  /\ f \in Normal
  /\ fresh < MaxText /\ fresh' = fresh + 1
  /\ \E t \in Stamps : PutFile(f, fresh', t)
  /\ UNCHANGED <<autoreload, opvars, asked>>
  /\ LoadSourceFile(f)
-----------------------------------------------------------------------------
(* Save File, Save File As.                                                *)

\* The tab is given a file name before anything is written there.
Rename(w, f) ==
  /\ filenames' = [filenames EXCEPT ![w] = f]
  /\ loose' = loose \cup {w}

\* saveFile from "saveFileFromWindow" on; a tab without a name first asks
\* for one, f.
SaveFile(w, f) ==
  /\ stage' = "save"
  /\ IF filenames[w] = NoFile
     THEN f \in Normal /\ Rename(w, f)
     ELSE f = filenames[w] /\ UNCHANGED <<filenames, loose>>

SaveCurFile(f) ==
  /\ Idle /\ select \in tabs
  /\ op' = "save" /\ cur' = select
  /\ SaveFile(select, f)
  /\ UNCHANGED <<tabs, TABCOUNTER, select, textvars, autoreload, diskvars, filetimes,
                 needRead, base, undone, asked>>

SaveFileAs(f) ==
  /\ Idle /\ select \in tabs /\ f \in Normal
  /\ op' = "save" /\ cur' = select /\ stage' = "save"
  /\ Rename(select, f)
  /\ UNCHANGED <<tabs, TABCOUNTER, select, textvars, autoreload, diskvars, filetimes,
                 needRead, base, undone, asked>>
-----------------------------------------------------------------------------
(* Close tab, exit.                                                        *)

CloseTab ==
  /\ Idle /\ select \in tabs
  /\ op' = "close" /\ cur' = select /\ stage' = "check"
  /\ UNCHANGED <<tabvars, textvars, autoreload, diskvars, filetimes, needRead, histvars>>

\* exitProgram: checkAllChanges walks the tabs.
ExitProgram ==
  /\ Idle
  /\ op' = "exit" /\ Advance(NoTab)
  /\ UNCHANGED <<tabvars, textvars, autoreload, diskvars, filetimes, base, loose, undone>>

\* Mutant of MustAskSave: new files are closed without a question, as with
\* the lines checkChanges has commented out.
AskSaveNamed(w) == modified[w] /\ filenames[w] # NoFile

\* Whether checkChanges asks "Save file?".
MustAskSave(w) == modified[w]

CheckChanges ==
  /\ stage = "check" /\ op \in {"close", "exit"}
  /\ IF MustAskSave(cur)
     THEN /\ stage' = "askSave" /\ asked' = asked \cup {cur}
          /\ UNCHANGED <<op, cur, needRead>>
     ELSE Return
  /\ UNCHANGED <<tabvars, textvars, autoreload, diskvars, filetimes, base, loose, undone>>

\* "Save file?": no, yes, or yes and then no file name for it.
AnswerSave ==
  /\ stage = "askSave"
  /\ \/ Return /\ UNCHANGED <<filenames, loose>>
     \/ \E f \in Files : SaveFile(cur, f) /\ UNCHANGED <<op, cur, needRead, asked>>
  /\ UNCHANGED <<tabs, TABCOUNTER, select, textvars, autoreload, diskvars, filetimes,
                 base, undone>>

\* The rest of closeTab; the notebook selects a neighbour of the tab.
DestroyTab ==
  /\ stage = "destroy"
  /\ tabs' = tabs \ {cur}
  /\ IF tabs' = {} THEN select' = NoTab ELSE select' \in tabs'
  /\ filenames' = [filenames EXCEPT ![cur] = NoFile]
  /\ text' = [text EXCEPT ![cur] = Empty]
  /\ modified' = [modified EXCEPT ![cur] = FALSE]
  /\ past' = [past EXCEPT ![cur] = <<>>]
  /\ future' = [future EXCEPT ![cur] = <<>>]
  /\ base' = [base EXCEPT ![cur] = Empty]
  /\ loose' = loose \ {cur} /\ undone' = undone \ {cur}
  /\ Finish("idle", "none")
  /\ UNCHANGED <<TABCOUNTER, autoreload, diskvars, filetimes>>

\* The rest of exitProgram.
Leave ==
  /\ stage = "leave"
  /\ Finish("exited", "saved")
  /\ UNCHANGED <<tabvars, textvars, autoreload, diskvars, filetimes, base, loose, undone>>
-----------------------------------------------------------------------------
(* saveFilesForCompile, which doCompile and doCreateZip begin with.        *)

StartCompile ==
  /\ Idle
  /\ op' = "compile" /\ Advance(NoTab)
  /\ UNCHANGED <<tabvars, textvars, autoreload, diskvars, filetimes, base, loose, undone>>

CheckUnnamed ==
  /\ stage = "check" /\ op = "compile" /\ filenames[cur] = NoFile
  /\ \/ op' = op /\ Advance(cur) /\ UNCHANGED <<filenames, loose>>
     \/ \E f \in Files : SaveFile(cur, f) /\ UNCHANGED <<op, cur, needRead, asked>>
  /\ UNCHANGED <<tabs, TABCOUNTER, select, textvars, autoreload, diskvars, filetimes,
                 base, undone>>

\* Mutant of NeedWrite: only files that are gone are written.
WriteMissing(w) == filenames[w] \notin exists

\* needWrite of saveFilesForCompile.
NeedWrite(w) == modified[w] \/ filenames[w] \notin exists

CheckNamed ==
  LET f == filenames[cur] IN
  /\ stage = "check" /\ op = "compile" /\ f # NoFile
  /\ IF NoTime(f) THEN Abort
     ELSE IF NeedWrite(cur)
     THEN stage' = "save" /\ needRead' = Newer(f) /\ UNCHANGED <<op, cur, asked>>
     ELSE IF Newer(f) THEN GoTo("reload")
     ELSE op' = op /\ Advance(cur)
  /\ UNCHANGED <<tabvars, textvars, autoreload, diskvars, filetimes, base, loose, undone>>

\* loadFileToWindow in the loop, unless the file is gone or unreadable.
ReloadCur ==
  \/ /\ filenames[cur] \in exists
     /\ LoadFileToWindow(cur, filenames[cur])
     /\ op' = op /\ Advance(cur)
  \/ Abort /\ UNCHANGED <<textvars, filetimes, base, loose, undone>>

ReloadForCompile ==
  /\ stage = "reload"
  /\ UNCHANGED <<tabvars, autoreload, diskvars>>
  /\ IF autoreload
     THEN ReloadCur
     ELSE GoTo("askReload") /\ UNCHANGED <<textvars, filetimes, base, loose, undone>>

\* Mutant of AnswerReload: after "no" the version counts as seen.
AnswerReloadSeen ==
  /\ stage = "askReload"
  /\ filetimes' = [filetimes EXCEPT ![filenames[cur]] = mtime[filenames[cur]]]
  /\ op' = op /\ Advance(cur)
  /\ UNCHANGED <<tabvars, textvars, autoreload, diskvars, base, loose, undone>>

\* "File has changed on disk. Reload it?"
AnswerReload ==
  /\ stage = "askReload"
  /\ UNCHANGED <<tabvars, autoreload, diskvars>>
  /\ \/ ReloadCur
     \/ /\ op' = op /\ Advance(cur)
        /\ UNCHANGED <<textvars, filetimes, base, loose, undone>>

\* The compiler runs and reads the files; doCompileFlash goes on to a message
\* box before it loads the binary.
Compile ==
  /\ stage = "build"
  /\ Finish("idle", "none") \/ GoTo("askFlash")
  /\ UNCHANGED <<tabvars, textvars, autoreload, diskvars, filetimes, base, loose, undone>>

\* doLoadFlash asks the same of a binary picked in a file dialog.
LoadFlash ==
  /\ Idle
  /\ op' = "flash" /\ stage' = "askFlash"
  /\ UNCHANGED <<tabvars, textvars, autoreload, diskvars, filetimes, cur, needRead, histvars>>

\* "Flash Binary", ok or cancel.
AnswerFlash ==
  /\ stage = "askFlash"
  /\ Finish("idle", "none")
  /\ UNCHANGED <<tabvars, textvars, autoreload, diskvars, filetimes, base, loose, undone>>
-----------------------------------------------------------------------------
(* checkFocusIn, and the world outside.                                    *)

FirstTabOf(w) == \A v \in TabsOf(filenames[w]) : w <= v

\* checkFilesForChanges goes over the tabs until one raises an error: its
\* file has no filetimes element or, newer, cannot be read.  MaxTabs: none.
CheckFilesForChanges(stop) ==
  LET newer    == {w \in tabs : w < stop /\ Newer(filenames[w]) /\ FirstTabOf(w)}
      seen     == {filenames[w] : w \in newer} \cup
                  {filenames[w] : w \in {v \in tabs : v = stop /\ ~NoTime(filenames[v])}}
  IN
  /\ \A w \in tabs : w < stop => ~NoTime(filenames[w])
  /\ text' = [w \in Tabs |-> IF w \in newer THEN disk[filenames[w]] ELSE text[w]]
  /\ modified' = [w \in Tabs |-> w \notin newer /\ modified[w]]
  /\ past' = [w \in Tabs |-> IF w \in newer THEN <<>> ELSE past[w]]
  /\ future' = [w \in Tabs |-> IF w \in newer THEN <<>> ELSE future[w]]
  /\ filetimes' = [f \in Files |-> IF f \in seen THEN mtime[f] ELSE filetimes[f]]
  /\ base' = [w \in Tabs |-> IF w \in newer THEN disk[filenames[w]] ELSE base[w]]
  /\ loose' = (loose \cup {w \in tabs : filenames[w] \in seen}) \ newer
  /\ undone' = undone \ newer

CheckFocusIn ==
  /\ Served
  /\ autoreload
  /\ \/ CheckFilesForChanges(MaxTabs)
     \/ \E w \in tabs : /\ \/ NoTime(filenames[w])
                           \/ Newer(filenames[w]) /\ FirstTabOf(w)
                        /\ CheckFilesForChanges(w)
  /\ UNCHANGED <<tabvars, autoreload, diskvars, opvars, asked>>

\* Another program writes, empties or deletes a file while this one runs.
ExternalWrite(f) ==
  /\ op # "exited"
  /\ \/ /\ fresh < MaxText /\ fresh' = fresh + 1
        /\ \E t \in Stamps : PutFile(f, fresh', t)
     \/ /\ UNCHANGED fresh
        /\ \E t \in Stamps : PutFile(f, Empty, t)
  /\ UNCHANGED <<tabvars, textvars, autoreload, filetimes, opvars, histvars>>

ExternalDelete(f) ==
  /\ op # "exited"
  /\ f \in exists
  /\ exists' = exists \ NamesOf(f)
  /\ disk' = [g \in Files |-> IF SameFile(f, g) THEN Empty ELSE disk[g]]
  /\ mtime' = [g \in Files |-> IF SameFile(f, g) THEN 0 ELSE mtime[g]]
  /\ UNCHANGED <<tabvars, textvars, autoreload, clock, fresh, filetimes, opvars, histvars>>

\* What a handler that has begun does next.
Handler ==
  \/ SaveFileFromWindow \/ AnswerOverwrite
  \/ CheckChanges \/ AnswerSave \/ DestroyTab \/ Leave
  \/ CheckUnnamed \/ CheckNamed \/ ReloadForCompile \/ AnswerReload \/ Compile
  \/ AnswerFlash

Next ==
  \/ Handler
  \/ CreateNewTab \/ Edit \/ Undo \/ Redo \/ ToggleAutoreload
  \/ CloseTab \/ ExitProgram \/ StartCompile \/ LoadFlash \/ CheckFocusIn
  \/ \E w \in Tabs : SelectTab(w)
  \/ \E f \in Files : \/ OpenFile(f) \/ CreateLinked(f) \/ CreateNewProject(f) \/ NotCreated(f)
                      \/ SaveCurFile(f) \/ SaveFileAs(f)
                      \/ ExternalWrite(f) \/ ExternalDelete(f)

Spec == Init /\ [][Next]_vars

\* A handler that runs goes on, and a modal message box gets its answer.
FairSpec == Spec /\ WF_vars(Handler)
-----------------------------------------------------------------------------
(* Properties.                                                             *)

AtTab  == {"check", "save", "reload", "destroy"} \cup (Dialogs \ {"askFlash"})
AtFile == {"save", "reload", "askOverwrite", "askReload"}

TabsTypeOK ==
  /\ tabs \subseteq Tabs /\ TABCOUNTER \in 0 .. MaxTabs
  /\ \A w \in tabs : w < TABCOUNTER
  /\ select \in tabs \cup {NoTab}
  /\ filenames \in [Tabs -> Files \cup {NoFile}]

TextTypeOK ==
  /\ text \in [Tabs -> Texts] /\ base \in [Tabs -> Texts]
  /\ modified \in [Tabs -> BOOLEAN]
  /\ past \in [Tabs -> Seq(Texts)] /\ future \in [Tabs -> Seq(Texts)]
  /\ loose \subseteq Tabs /\ undone \subseteq Tabs /\ asked \subseteq Tabs

DiskTypeOK ==
  /\ exists \subseteq Files /\ disk \in [Files -> Texts]
  /\ clock \in 0 .. MaxClock /\ fresh \in 0 .. MaxText
  /\ mtime \in [Files -> 0 .. clock]
  /\ filetimes \in [Files -> (0 .. clock) \cup {Unset}]
  /\ \A f, g \in Files :
       SameFile(f, g) => disk[f] = disk[g] /\ (f \in exists <=> g \in exists)

OpTypeOK ==
  /\ autoreload \in BOOLEAN /\ needRead \in BOOLEAN
  /\ op \in Ops /\ stage \in Stages /\ cur \in Tabs \cup {NoTab}
  /\ stage \in AtTab => cur \in tabs
  /\ stage \in AtFile => filenames[cur] \in Files
  /\ op = "idle" => stage = "none"
  /\ stage \in {"build", "reload", "askReload"} => op = "compile"
  /\ op = "flash" => stage = "askFlash"
  /\ stage = "askFlash" => op \in {"compile", "flash"}
  /\ stage = "askSave" => op \in {"close", "exit"} /\ cur \in asked

\* Every variable has its type, and op, cur and stage agree: at a stage that
\* works on a tab, cur is a tab, and at one that works on its file it has one.
TypeOK == TabsTypeOK /\ TextTypeOK /\ DiskTypeOK /\ OpTypeOK

\* A tab that is not modified shows the version of its file that it was last
\* in step with, unless undo or redo was used since (ctext's modified flag
\* does not see those).
CleanShowsBase == \A w \in tabs : ~modified[w] /\ w \notin undone => text[w] = base[w]

\* What filetimes is for: a tab is in step with the version on disk, or
\* mtime > filetimes tells that it is not.  It fails only for the tabs whose
\* tie the code breaks itself (loose): filetimes is per file and was moved by
\* another tab of the same file or by a question answered "no", or the tab
\* got its name from Save As and the write did not follow.
NoticesChange ==
  \A w \in tabs \ loose :
    filenames[w] \in exists =>
      Newer(filenames[w]) \/ base[w] = disk[filenames[w]]

\* When the compiler starts, what it reads for an open file is what its tab
\* shows, but for a change on disk that came after the tab was looked at
\* (which the next look will find), loose tabs and tabs with undone edits.
CompilesWhatTabsShow ==
  stage = "build" =>
    \A w \in tabs \ (loose \cup undone) :
      LET f == filenames[w] IN
      f # NoFile => /\ ~modified[w]
                    /\ f \in exists /\ ~Newer(f) => disk[f] = text[w]

\* The modified mark goes away only when the tab and its file have the same
\* text, by a save that worked or by a load, or with the tab itself.
CleanMeansOnDisk ==
  [][\A w \in tabs \cap tabs' : modified[w] /\ ~modified'[w]
        => filenames'[w] \in exists' /\ disk'[filenames'[w]] = text'[w]]_vars

\* A modified tab is closed, or left behind by an orderly exit, only after
\* "Save file?" was asked about it in that very handler.
NoUnaskedClose ==
  [][/\ \A w \in tabs \ tabs' : modified[w] => w \in asked
     /\ stage = "leave" /\ op' = "exited"
          => \A w \in tabs : modified[w] => w \in asked]_vars

\* With Auto Reload off, a save never overwrites a version on disk that its
\* tab was not in step with, unless the user answered "overwrite it?" or the
\* tab is loose.
AskedBeforeOverwrite ==
  [][~autoreload /\ stage \in AtFile /\ stage' # stage /\ cur \notin loose
       => \A f \in exists : disk'[f] # disk[f]
            => stage = "askOverwrite" \/ base[cur] = disk[f]]_vars

\* Opening a file, however it is asked for, never makes a second tab of it:
\* only giving a tab a new name in a save dialog does, and a name that is not
\* normal, which findFileOnPath takes from a link and getTabFor does not know.
OpenMakesNoDouble ==
  [][stage' # "save" =>
       \A v, w \in tabs' :
         v # w /\ filenames'[w] # NoFile /\ SameFile(filenames'[v], filenames'[w]) =>
           \/ v \in tabs /\ w \in tabs /\ SameFile(filenames[v], filenames[w])
           \/ filenames'[v] # filenames'[w] /\ ~({filenames'[v], filenames'[w]} \subseteq Normal)]_vars

\* A handler that has begun comes to its end.
HandlerEnds == op \notin {"idle", "exited"} ~> op \in {"idle", "exited"}
=============================================================================
