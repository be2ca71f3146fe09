---------------------------- MODULE EditorProofs ----------------------------
(***************************************************************************)
(* Theorems about the editor, and about Build, which implements it: what   *)
(* is proved of the editor holds in Build.  TypeOK is inductive: for every *)
(* stage it says that the tab and the file the handler works on are there. *)
(* No other safety invariant is: SafetyInv adds what a tab that is not in  *)
(* the notebook looks like, that a tab which is not loose has a filetimes  *)
(* element, and how far saveFilesForCompile has come; NoUnaskedClose rests *)
(* on AskedInv, how far an exit has come.  The action properties           *)
(* CleanMeansOnDisk, OpenMakesNoDouble and AskedBeforeOverwrite follow     *)
(* from these invariants, by the action that takes the step.               *)
(***************************************************************************)
EXTENDS Build, TLAPS

-----------------------------------------------------------------------------
(* Names of files.                                                         *)

\* Being names of one file is an equivalence, as alias sets are disjoint.
LEMMA SameFileEquivalence ==
  ASSUME NEW f \in Files, NEW g \in Files, NEW h \in Files
  PROVE  /\ SameFile(f, f)
         /\ SameFile(f, g) => SameFile(g, f)
         /\ SameFile(f, g) /\ SameFile(g, h) => SameFile(f, h)
<1>1. SameFile(f, f) /\ (SameFile(f, g) => SameFile(g, f))
  BY DEF SameFile
<1>2. ASSUME SameFile(f, g), SameFile(g, h), f # g, g # h PROVE SameFile(f, h)
  <2>1. PICK s \in Aliases : {f, g} \subseteq s
    BY <1>2 DEF SameFile
  <2>2. PICK t \in Aliases : {g, h} \subseteq t
    BY <1>2 DEF SameFile
  <2>3. s = t
    BY <2>1, <2>2, EditorAssumption
  <2>4. QED BY <2>1, <2>2, <2>3 DEF SameFile
<1>3. ASSUME SameFile(f, g), SameFile(g, h), f = g \/ g = h PROVE SameFile(f, h)
  BY <1>3
<1>4. QED BY <1>1, <1>2, <1>3

LEMMA FirstNameIsName ==
  /\ \A f \in Files : FirstName(f) \in Files
  /\ \A f, g \in Files : SameFile(f, g) => FirstName(f) = FirstName(g)
<1>1. \A f \in Files : f \in NamesOf(f) /\ NamesOf(f) \subseteq Files
  BY DEF NamesOf, SameFile
<1>2. ASSUME NEW f \in Files, NEW g \in Files, SameFile(f, g) PROVE NamesOf(f) = NamesOf(g)
  <2>1. \A h \in Files : SameFile(f, h) <=> SameFile(g, h)
    BY <1>2, SameFileEquivalence
  <2>2. QED BY <2>1 DEF NamesOf
<1>3. QED BY <1>1, <1>2 DEF FirstName

-----------------------------------------------------------------------------
(* Type correctness, first of the control operators the handlers share.    *)

LEMMA InitType == Init => TypeOK
<1> SUFFICES ASSUME Init PROVE TypeOK
  OBVIOUS
<1>1. TabsTypeOK
  BY EditorAssumption DEF Init, TabsTypeOK, Tabs, NoTab
<1>2. TextTypeOK
  <2>1. <<>> \in Seq(Texts) OBVIOUS
  <2>2. QED BY <2>1, EditorAssumption DEF Init, TextTypeOK, Tabs, Texts, Empty
<1>3. DiskTypeOK
  <2>1. exists \subseteq Files /\ disk = [f \in Files |-> IF f \in exists THEN FirstName(f) ELSE Empty]
    BY DEF Init
  <2>2. disk \in [Files -> Texts]
    BY <2>1, FirstNameIsName, EditorAssumption DEF Texts, Empty
  <2>3. ASSUME NEW f \in Files, NEW g \in Files, SameFile(f, g)
        PROVE  disk[f] = disk[g] /\ (f \in exists <=> g \in exists)
    <3>1. f \in exists <=> g \in exists
      BY <2>3, SameFileEquivalence DEF Init, NamesOf
    <3>2. QED BY <2>1, <2>3, <3>1, FirstNameIsName
  <2>4. QED BY <2>1, <2>2, <2>3, EditorAssumption DEF Init, DiskTypeOK, Unset
<1>4. OpTypeOK
  BY DEF Init, OpTypeOK, Ops, Stages, Dialogs, AtTab, AtFile, NoTab
<1>5. QED BY <1>1, <1>2, <1>3, <1>4 DEF TypeOK

\* Advance goes to a tab of the notebook or to the end of the handler.
LEMMA AdvanceType ==
  ASSUME TypeOK, NEW w, op' \in {"exit", "compile"}, Advance(w), tabs' = tabs,
         autoreload' = autoreload
  PROVE  OpTypeOK' /\ asked' = asked
<1>1. CASE Later(w) = {}
  BY <1>1 DEF Advance, TypeOK, OpTypeOK, Ops, Stages, Dialogs, AtTab, AtFile
<1>2. CASE Later(w) # {}
  BY <1>2 DEF Advance, Later, TypeOK, OpTypeOK, TabsTypeOK, Ops, Stages, Dialogs, AtTab, AtFile
<1>3. QED BY <1>1, <1>2

LEMMA FinishType ==
  ASSUME TypeOK, NEW o \in {"idle", "exited"}, NEW s \in {"none", "saved", "failed"},
         o = "idle" => s = "none", Finish(o, s), autoreload' = autoreload
  PROVE  OpTypeOK' /\ asked' = {}
  BY DEF Finish, TypeOK, OpTypeOK, Ops, Stages, Dialogs, AtTab, AtFile

LEMMA AbortType ==
  ASSUME TypeOK, Abort, autoreload' = autoreload
  PROVE  OpTypeOK' /\ asked' = {}
<1>1. CASE op = "exit" BY <1>1, FinishType DEF Abort
<1>2. CASE op # "exit" BY <1>2, FinishType DEF Abort
<1>3. QED BY <1>1, <1>2

LEMMA ReturnType ==
  ASSUME TypeOK, Return, stage \in AtTab, tabs' = tabs, filenames' = filenames,
         autoreload' = autoreload, op = "compile" => filenames[cur] \in Files
  PROVE  OpTypeOK' /\ asked' \subseteq Tabs
<1>1. CASE op = "save" /\ Finish("idle", "none")
  BY <1>1, FinishType
<1>2. CASE op = "close" /\ GoTo("destroy")
  BY <1>2 DEF GoTo, TypeOK, TextTypeOK, OpTypeOK, Ops, Stages, Dialogs, AtTab, AtFile
<1>3. CASE op \in {"exit", "compile"} /\ op' = op /\ Advance(cur)
  BY <1>3, AdvanceType DEF TypeOK, TextTypeOK
<1>4. CASE op = "compile" /\ GoTo("reload")
  BY <1>4 DEF GoTo, TypeOK, TextTypeOK, OpTypeOK, Ops, Stages, Dialogs, AtTab, AtFile
<1>5. QED BY <1>1, <1>2, <1>3, <1>4 DEF Return

\* A file gets a text at a time that is not past the clock.
LEMMA PutFileType ==
  ASSUME TypeOK, NEW f \in Files, NEW x \in Texts, NEW t \in clock .. MaxClock,
         PutFile(f, x, t), fresh' \in 0 .. MaxText,
         filetimes' \in [Files -> (0 .. clock') \cup {Unset}]
  PROVE  DiskTypeOK'
<1>1. clock' \in 0 .. MaxClock /\ 0 .. clock \subseteq 0 .. clock' /\ t \in 0 .. clock'
  BY EditorAssumption DEF PutFile, TypeOK, DiskTypeOK
<1>2. exists' \subseteq Files /\ disk' \in [Files -> Texts]
  BY DEF PutFile, NamesOf, TypeOK, DiskTypeOK
<1>3. mtime' \in [Files -> 0 .. clock']
  BY <1>1 DEF PutFile, TypeOK, DiskTypeOK
<1>4. ASSUME NEW g \in Files, NEW h \in Files, SameFile(g, h)
      PROVE  disk'[g] = disk'[h] /\ (g \in exists' <=> h \in exists')
  <2>1. SameFile(f, g) <=> SameFile(f, h)
    BY <1>4, SameFileEquivalence
  <2>2. disk[g] = disk[h] /\ (g \in exists <=> h \in exists)
    BY <1>4 DEF TypeOK, DiskTypeOK
  <2>3. QED BY <2>1, <2>2 DEF PutFile, NamesOf
<1>5. QED BY <1>1, <1>2, <1>3, <1>4 DEF DiskTypeOK

LEMMA StampsType == TypeOK => Stamps \subseteq clock .. MaxClock
  BY EditorAssumption DEF Stamps, TypeOK, DiskTypeOK

LEMMA WriteFileType ==
  ASSUME TypeOK, stage \in AtFile, UNCHANGED <<tabvars, autoreload>>,
         NEW ft \in [Files -> (0 .. clock) \cup {Unset}],
         WriteFile(cur, filenames[cur], ft)
  PROVE  TypeOK'
<1> DEFINE f == filenames[cur]
<1>0. /\ f \in Files /\ cur \in tabs /\ cur \in Tabs /\ stage \in AtTab /\ clock \in Nat
      /\ TabsTypeOK' /\ tabs' = tabs /\ filenames' = filenames /\ autoreload' = autoreload
      /\ clock \in clock .. MaxClock
  BY EditorAssumption
  DEF TypeOK, TabsTypeOK, OpTypeOK, DiskTypeOK, AtTab, AtFile, Dialogs, tabvars
<1>00. Loosen(f) \subseteq Tabs /\ SeenNow(f) \subseteq Tabs
  BY DEF Loosen, TabsOf, SeenNow, TypeOK, TabsTypeOK, TextTypeOK
<1>1. CASE /\ PutFile(f, text[cur], clock)
           /\ filetimes' = [ft EXCEPT ![f] = clock]
           /\ modified' = [modified EXCEPT ![cur] = FALSE]
           /\ base' = [base EXCEPT ![cur] = text[cur]]
           /\ loose' = (Loosen(f) \cup SeenNow(f)) \ {cur}
           /\ undone' = undone \ {cur}
           /\ Return
           /\ UNCHANGED <<fresh, text, past, future>>
  <2>1. OpTypeOK' /\ asked' \subseteq Tabs
    BY <1>0, <1>1, ReturnType
  <2>2. TextTypeOK'
    BY <1>0, <1>00, <1>1, <2>1 DEF TypeOK, TextTypeOK
  <2>3. DiskTypeOK'
    <3>1. text[cur] \in Texts /\ fresh' \in 0 .. MaxText /\ clock' = clock
      BY <1>0, <1>1 DEF TypeOK, TextTypeOK, DiskTypeOK, PutFile
    <3>2. filetimes' \in [Files -> (0 .. clock') \cup {Unset}]
      BY <1>0, <1>1, <3>1
    <3>3. QED BY <1>0, <1>1, <3>1, <3>2, PutFileType
  <2>4. QED BY <1>0, <2>1, <2>2, <2>3 DEF TypeOK
<1>2. CASE /\ filetimes' = ft
           /\ loose' = IF ft = filetimes THEN loose ELSE Loosen(f)
           /\ \/ UNCHANGED <<exists, disk, mtime, clock>>
              \/ \E t \in Stamps : PutFile(f, Empty, t)
           /\ Abort
           /\ UNCHANGED <<fresh, textvars, base, undone>>
  <2>1. OpTypeOK' /\ asked' \subseteq Tabs
    BY <1>0, <1>2, AbortType
  <2>2. TextTypeOK'
    BY <1>0, <1>00, <1>2, <2>1 DEF TypeOK, TextTypeOK, textvars
  <2>3. DiskTypeOK'
    <3>1. CASE UNCHANGED <<exists, disk, mtime, clock>>
      BY <1>2, <3>1 DEF TypeOK, DiskTypeOK
    <3>2. ASSUME NEW t \in Stamps, PutFile(f, Empty, t) PROVE DiskTypeOK'
      <4>1. Empty \in Texts /\ t \in clock .. MaxClock /\ clock' = t
        BY <3>2, StampsType, EditorAssumption DEF Empty, Texts, PutFile
      <4>2. filetimes' \in [Files -> (0 .. clock') \cup {Unset}]
        BY <1>0, <1>2, <4>1
      <4>3. QED BY <1>0, <1>2, <3>2, <4>1, <4>2, PutFileType DEF TypeOK, DiskTypeOK
    <3>3. QED BY <1>2, <3>1, <3>2
  <2>4. QED BY <1>0, <2>1, <2>2, <2>3 DEF TypeOK
<1>3. QED BY <1>1, <1>2 DEF WriteFile

\* The actions one by one.

LEMMA SaveFileFromWindowType == TypeOK /\ SaveFileFromWindow => TypeOK'
<1> SUFFICES ASSUME TypeOK, SaveFileFromWindow PROVE TypeOK'
  OBVIOUS
<1> DEFINE f == filenames[cur]
           seen == [filetimes EXCEPT ![f] = mtime[f]]
<1>0. /\ f \in Files /\ cur \in tabs /\ stage = "save" /\ stage \in AtFile
      /\ TabsTypeOK' /\ tabs' = tabs /\ filenames' = filenames /\ autoreload' = autoreload
      /\ UNCHANGED <<tabvars, autoreload>>
  BY DEF SaveFileFromWindow, TypeOK, TabsTypeOK, OpTypeOK, AtTab, AtFile, tabvars
<1>1. seen \in [Files -> (0 .. clock) \cup {Unset}]
  BY <1>0 DEF TypeOK, DiskTypeOK
<1>2. CASE /\ Abort
           /\ UNCHANGED <<textvars, diskvars, filetimes, base, loose, undone>>
  <2>1. OpTypeOK' /\ asked' = {} BY <1>0, <1>2, AbortType
  <2>2. TextTypeOK' /\ DiskTypeOK'
    BY <1>2, <2>1 DEF TypeOK, TextTypeOK, DiskTypeOK, textvars, diskvars
  <2>3. QED BY <1>0, <2>1, <2>2 DEF TypeOK
<1>3. CASE /\ filetimes' = seen
           /\ loose' = Loosen(f)
           /\ GoTo("askOverwrite")
           /\ UNCHANGED <<textvars, diskvars, base, undone>>
  <2>1. OpTypeOK' /\ asked' = asked
    BY <1>0, <1>3 DEF GoTo, TypeOK, OpTypeOK, Stages, Dialogs, AtTab, AtFile
  <2>2. TextTypeOK'
    BY <1>3, <2>1 DEF TypeOK, TextTypeOK, TabsTypeOK, textvars, Loosen, TabsOf
  <2>3. DiskTypeOK'
    BY <1>1, <1>3 DEF TypeOK, DiskTypeOK, diskvars
  <2>4. QED BY <1>0, <2>1, <2>2, <2>3 DEF TypeOK
<1>4. CASE WriteFile(cur, f, seen) BY <1>0, <1>1, <1>4, WriteFileType
<1>5. CASE WriteFile(cur, f, filetimes)
  BY <1>0, <1>5, WriteFileType DEF TypeOK, DiskTypeOK
<1>6. QED BY <1>2, <1>3, <1>4, <1>5 DEF SaveFileFromWindow

LEMMA AnswerOverwriteType == TypeOK /\ AnswerOverwrite => TypeOK'
<1> SUFFICES ASSUME TypeOK, AnswerOverwrite PROVE TypeOK'
  OBVIOUS
<1>0. /\ filenames[cur] \in Files /\ stage \in AtFile /\ stage \in AtTab
      /\ TabsTypeOK' /\ tabs' = tabs /\ filenames' = filenames /\ autoreload' = autoreload
      /\ UNCHANGED <<tabvars, autoreload>>
  BY DEF AnswerOverwrite, TypeOK, TabsTypeOK, OpTypeOK, AtTab, AtFile, Dialogs, tabvars
<1>1. CASE WriteFile(cur, filenames[cur], filetimes)
  BY <1>0, <1>1, WriteFileType DEF TypeOK, DiskTypeOK
<1>2. CASE Return /\ UNCHANGED <<textvars, diskvars, filetimes, base, loose, undone>>
  <2>1. OpTypeOK' /\ asked' \subseteq Tabs BY <1>0, <1>2, ReturnType
  <2>2. TextTypeOK' /\ DiskTypeOK'
    BY <1>2, <2>1 DEF TypeOK, TextTypeOK, DiskTypeOK, textvars, diskvars
  <2>3. QED BY <1>0, <2>1, <2>2 DEF TypeOK
<1>3. QED BY <1>1, <1>2 DEF AnswerOverwrite

LEMMA TypingType == TypeOK /\ (Edit \/ Undo \/ Redo) => TypeOK'
<1> SUFFICES ASSUME TypeOK, Edit \/ Undo \/ Redo PROVE TypeOK'
  OBVIOUS
<1>1. TabsTypeOK' /\ OpTypeOK'
  BY DEF Edit, Undo, Redo, tabvars, opvars, histvars, TypeOK, TabsTypeOK, OpTypeOK
<1>2. DiskTypeOK'
  BY EditorAssumption DEF Edit, Undo, Redo, diskvars, TypeOK, DiskTypeOK
<1>3. TextTypeOK'
  <2>0. select \in tabs => select \in Tabs
    BY DEF TypeOK, TabsTypeOK
  <2>1. CASE Edit
    <3>1. fresh' \in Texts
      BY <2>1, EditorAssumption DEF Edit, TypeOK, DiskTypeOK, Texts
    <3>2. Append(past[select], text[select]) \in Seq(Texts) /\ <<>> \in Seq(Texts)
      BY <2>0, <2>1 DEF Edit, TypeOK, TextTypeOK
    <3>3. QED BY <2>0, <2>1, <3>1, <3>2 DEF Edit, MarkModified, histvars, TypeOK, TextTypeOK
  <2>2. CASE Undo
    <3>1. LET n == Len(past[select]) IN
          /\ past[select][n] \in Texts
          /\ SubSeq(past[select], 1, n - 1) \in Seq(Texts)
          /\ Append(future[select], text[select]) \in Seq(Texts)
      BY <2>0, <2>2 DEF Undo, TypeOK, TextTypeOK
    <3>2. QED BY <2>0, <2>2, <3>1 DEF Undo, TypeOK, TextTypeOK
  <2>3. CASE Redo
    <3>1. LET n == Len(future[select]) IN
          /\ future[select][n] \in Texts
          /\ SubSeq(future[select], 1, n - 1) \in Seq(Texts)
          /\ Append(past[select], text[select]) \in Seq(Texts)
      BY <2>0, <2>3 DEF Redo, TypeOK, TextTypeOK
    <3>2. QED BY <2>0, <2>3, <3>1 DEF Redo, TypeOK, TextTypeOK
  <2>4. QED BY <2>1, <2>2, <2>3
<1>4. QED BY <1>1, <1>2, <1>3 DEF TypeOK

LEMMA AddTabType ==
  ASSUME TypeOK, AddTab, filenames' \in [Tabs -> Files \cup {NoFile}]
  PROVE  TabsTypeOK'
<1>1. TABCOUNTER \in Tabs /\ TABCOUNTER' \in 0 .. MaxTabs
  BY EditorAssumption DEF AddTab, TypeOK, TabsTypeOK, Tabs
<1>2. tabs' \subseteq Tabs /\ select' \in tabs'
  BY <1>1 DEF AddTab, TypeOK, TabsTypeOK
<1>3. \A w \in tabs' : w < TABCOUNTER'
  BY <1>1, EditorAssumption DEF AddTab, TypeOK, TabsTypeOK, Tabs
<1>4. QED BY <1>1, <1>2, <1>3 DEF TabsTypeOK

\* New tab, select tab, the Auto Reload button: no text or file is touched.
LEMMA NotebookType ==
  TypeOK /\ (CreateNewTab \/ ToggleAutoreload \/ \E w \in Tabs : SelectTab(w)) => TypeOK'
<1> SUFFICES ASSUME TypeOK,
                    CreateNewTab \/ ToggleAutoreload \/ \E w \in Tabs : SelectTab(w)
             PROVE TypeOK'
  OBVIOUS
<1>1. TabsTypeOK'
  <2>1. CASE CreateNewTab
    BY <2>1, AddTabType DEF CreateNewTab, TypeOK, TabsTypeOK
  <2>2. CASE ToggleAutoreload
    BY <2>2 DEF ToggleAutoreload, tabvars, TypeOK, TabsTypeOK
  <2>3. CASE \E w \in Tabs : SelectTab(w)
    BY <2>3 DEF SelectTab, TypeOK, TabsTypeOK
  <2>4. QED BY <2>1, <2>2, <2>3
<1>2. TextTypeOK' /\ DiskTypeOK'
  BY DEF CreateNewTab, ToggleAutoreload, SelectTab, textvars, diskvars, histvars,
         TypeOK, TextTypeOK, DiskTypeOK
<1>3. OpTypeOK'
  BY DEF CreateNewTab, AddTab, ToggleAutoreload, SelectTab, Idle, tabvars, opvars, histvars,
         TypeOK, OpTypeOK, AtTab, AtFile, Dialogs
<1>4. QED BY <1>1, <1>2, <1>3 DEF TypeOK

\* loadFileToWindow puts the text of an existing file into a tab.
LEMMA LoadFileToWindowType ==
  ASSUME TypeOK, TabsTypeOK', DiskTypeOK', NEW w \in Tabs, NEW f \in Files,
         LoadFileToWindow(w, f), asked' \subseteq Tabs
  PROVE  TextTypeOK'
<1>1. disk'[f] \in Texts /\ <<>> \in Seq(Texts) /\ Loosen(f) \subseteq Tabs
  BY DEF TypeOK, DiskTypeOK, TextTypeOK, TabsTypeOK, Loosen, TabsOf
<1>2. QED BY <1>1 DEF LoadFileToWindow, TypeOK, TextTypeOK

\* loadSourceFile, once the caller has the file on disk.
LEMMA LoadSourceFileType ==
  ASSUME TypeOK, Idle, DiskTypeOK', NEW f \in Files, LoadSourceFile(f),
         UNCHANGED <<autoreload, opvars, asked>>
  PROVE  TypeOK'
<1>1. OpTypeOK'
  BY DEF Idle, opvars, TypeOK, OpTypeOK, AtTab, AtFile, Dialogs
<1>2. CASE ShowTabOf(f)
  <2>1. TabsTypeOK' /\ TextTypeOK'
    BY <1>2 DEF ShowTabOf, LoadNothing, TabsFor, TabsOf, textvars, TypeOK, TabsTypeOK, TextTypeOK
  <2>2. QED BY <1>1, <2>1 DEF TypeOK
<1>3. CASE LoadFileToTab(f)
  <2>1. TabsTypeOK' /\ select' \in Tabs
    <3>0. filenames' \in [Tabs -> Files \cup {NoFile}]
      BY <1>3 DEF LoadFileToTab, LoadNothing, TypeOK, TabsTypeOK
    <3>1. CASE select \in tabs /\ UNCHANGED <<tabs, TABCOUNTER, select>>
      BY <3>0, <3>1 DEF TypeOK, TabsTypeOK
    <3>2. CASE AddTab
      <4>1. TabsTypeOK' BY <3>0, <3>2, AddTabType
      <4>2. select' \in tabs' BY <3>2 DEF AddTab
      <4>3. QED BY <4>1, <4>2 DEF TabsTypeOK
    <3>3. QED BY <1>3, <3>1, <3>2 DEF LoadFileToTab
  <2>2. TextTypeOK'
    <3>1. CASE LoadFileToWindow(select', f)
      BY <2>1, <3>1, LoadFileToWindowType DEF TypeOK, TextTypeOK
    <3>2. CASE LoadNothing
      BY <3>2 DEF LoadNothing, textvars, TypeOK, TextTypeOK
    <3>3. QED BY <1>3, <3>1, <3>2 DEF LoadFileToTab
  <2>3. QED BY <1>1, <2>1, <2>2 DEF TypeOK
<1>4. QED BY <1>2, <1>3 DEF LoadSourceFile

\* filetimes after LoadSourceFile has the type DiskTypeOK asks for.
LEMMA LoadSourceFileTimes ==
  ASSUME TypeOK, NEW f \in Files, LoadSourceFile(f), clock' \in clock .. MaxClock,
         mtime' \in [Files -> 0 .. clock']
  PROVE  filetimes' \in [Files -> (0 .. clock') \cup {Unset}]
<1>1. filetimes \in [Files -> (0 .. clock') \cup {Unset}]
  BY EditorAssumption DEF TypeOK, DiskTypeOK
<1>2. QED
  BY <1>1 DEF LoadSourceFile, ShowTabOf, LoadFileToTab, LoadFileToWindow, LoadNothing

LEMMA OpenType ==
  ASSUME TypeOK, NEW f \in Files,
         OpenFile(f) \/ CreateLinked(f) \/ CreateNewProject(f)
  PROVE  TypeOK'
<1>1. Idle /\ LoadSourceFile(f) /\ UNCHANGED <<autoreload, opvars, asked>>
  BY DEF OpenFile, CreateLinked, CreateNewProject
<1>2. DiskTypeOK'
  <2>1. CASE OpenFile(f)
    <3>1. /\ clock' \in clock .. MaxClock /\ mtime' \in [Files -> 0 .. clock']
          /\ UNCHANGED diskvars
      BY <2>1, EditorAssumption DEF OpenFile, diskvars, TypeOK, DiskTypeOK
    <3>2. filetimes' \in [Files -> (0 .. clock') \cup {Unset}]
      BY <1>1, <3>1, LoadSourceFileTimes
    <3>3. QED BY <3>1, <3>2 DEF diskvars, TypeOK, DiskTypeOK
  <2>2. ASSUME NEW x \in Texts, NEW t \in Stamps, PutFile(f, x, t), fresh' \in 0 .. MaxText
        PROVE  DiskTypeOK'
    <3>1. t \in clock .. MaxClock /\ clock' = t BY <2>2, StampsType DEF PutFile
    <3>2. mtime' \in [Files -> 0 .. clock']
      BY <2>2, <3>1, EditorAssumption DEF PutFile, TypeOK, DiskTypeOK
    <3>3. filetimes' \in [Files -> (0 .. clock') \cup {Unset}]
      BY <1>1, <3>1, <3>2, LoadSourceFileTimes
    <3>4. QED BY <2>2, <3>1, <3>3, PutFileType
  <2>3. CASE CreateLinked(f)
    BY <2>2, <2>3, EditorAssumption
    DEF CreateLinked, Empty, Texts, TypeOK, DiskTypeOK
  <2>4. CASE CreateNewProject(f)
    <3>1. fresh' \in 0 .. MaxText /\ fresh' \in Texts
      BY <2>4, EditorAssumption DEF CreateNewProject, Texts, TypeOK, DiskTypeOK
    <3>2. QED BY <2>2, <2>4, <3>1 DEF CreateNewProject
  <2>5. QED BY <2>1, <2>3, <2>4
<1>3. QED BY <1>1, <1>2, LoadSourceFileType

\* Save File, Save File As: only the name and the handler change.
LEMMA SaveFileType ==
  ASSUME TypeOK, NEW w \in tabs, NEW f \in Files, SaveFile(w, f) \/ Rename(w, f),
         UNCHANGED <<tabs, TABCOUNTER, select>>
  PROVE  TabsTypeOK' /\ filenames'[w] \in Files /\ loose' \subseteq Tabs
<1>1. filenames \in [Tabs -> Files \cup {NoFile}] /\ w \in Tabs /\ loose \subseteq Tabs
  BY DEF TypeOK, TabsTypeOK, TextTypeOK
<1>2. CASE Rename(w, f)
  BY <1>1, <1>2 DEF Rename, TypeOK, TabsTypeOK
<1>3. CASE f = filenames[w] /\ UNCHANGED <<filenames, loose>>
  BY <1>1, <1>3 DEF TypeOK, TabsTypeOK
<1>4. QED BY <1>2, <1>3 DEF SaveFile

LEMMA SaveType ==
  ASSUME TypeOK, NEW f \in Files, SaveCurFile(f) \/ SaveFileAs(f)
  PROVE  TypeOK'
<1>1. TabsTypeOK' /\ filenames'[select] \in Files /\ select \in Tabs /\ loose' \subseteq Tabs
  BY SaveFileType DEF SaveCurFile, SaveFileAs, TypeOK, TabsTypeOK
<1>2. TextTypeOK' /\ DiskTypeOK'
  BY <1>1 DEF SaveCurFile, SaveFileAs, textvars, diskvars, TypeOK, TextTypeOK, DiskTypeOK
<1>3. OpTypeOK'
  BY <1>1 DEF SaveCurFile, SaveFileAs, SaveFile, Ops, Stages, Dialogs, AtTab, AtFile,
              TypeOK, OpTypeOK
<1>4. QED BY <1>1, <1>2, <1>3 DEF TypeOK

\* The handlers that only move op, cur and stage on.
LEMMA ControlType ==
  TypeOK /\ (CloseTab \/ ExitProgram \/ CheckChanges \/ Leave \/ StartCompile \/ CheckNamed
              \/ Compile \/ LoadFlash \/ AnswerFlash) => TypeOK'
<1> SUFFICES ASSUME TypeOK,
               CloseTab \/ ExitProgram \/ CheckChanges \/ Leave \/ StartCompile \/ CheckNamed
                 \/ Compile \/ LoadFlash \/ AnswerFlash
             PROVE TypeOK'
  OBVIOUS
<1>1. UNCHANGED <<tabvars, textvars, autoreload, diskvars, filetimes, base, loose, undone>>
  BY DEF CloseTab, ExitProgram, CheckChanges, Leave, StartCompile, CheckNamed, Compile,
         LoadFlash, AnswerFlash, histvars
<1>2. TabsTypeOK' /\ DiskTypeOK' /\ (asked' \subseteq Tabs => TextTypeOK')
  BY <1>1 DEF tabvars, textvars, diskvars, TypeOK, TabsTypeOK, DiskTypeOK, TextTypeOK
<1>3. tabs' = tabs /\ filenames' = filenames /\ autoreload' = autoreload
  BY <1>1 DEF tabvars
<1>4. OpTypeOK' /\ asked' \subseteq Tabs
  <2>1. CASE CloseTab
    BY <1>3, <2>1 DEF CloseTab, histvars, TypeOK, OpTypeOK, TabsTypeOK, TextTypeOK, Ops, Stages, Dialogs,
                      AtTab, AtFile
  <2>2. CASE ExitProgram \/ StartCompile
    BY <1>3, <2>2, AdvanceType DEF ExitProgram, StartCompile, TypeOK, TextTypeOK
  <2>3. CASE CheckChanges
    <3>1. CASE Return
      BY <1>3, <2>3, <3>1, ReturnType DEF CheckChanges, AtTab
    <3>2. CASE /\ stage' = "askSave" /\ asked' = asked \cup {cur}
               /\ UNCHANGED <<op, cur, needRead>>
      BY <1>3, <2>3, <3>2 DEF CheckChanges, TypeOK, OpTypeOK, TabsTypeOK, TextTypeOK, Stages,
                              Dialogs, AtTab, AtFile
    <3>3. QED BY <2>3, <3>1, <3>2 DEF CheckChanges
  <2>4. CASE Leave \/ Compile \/ AnswerFlash
    <3>1. CASE Leave \/ Finish("idle", "none")
      BY <1>3, <3>1, FinishType DEF Leave
    <3>2. CASE stage = "build" /\ GoTo("askFlash")
      BY <1>3, <3>2 DEF GoTo, TypeOK, OpTypeOK, TextTypeOK, Stages, Dialogs, AtTab, AtFile
    <3>3. QED BY <2>4, <3>1, <3>2 DEF Compile, AnswerFlash
  <2>7. CASE LoadFlash
    BY <1>3, <2>7 DEF LoadFlash, histvars, TypeOK, OpTypeOK, TextTypeOK, Ops, Stages, Dialogs,
                       AtTab, AtFile
  <2>5. CASE CheckNamed
    <3>1. /\ stage = "check" /\ op = "compile" /\ cur \in tabs /\ filenames[cur] \in Files
          /\ asked \subseteq Tabs
      BY <2>5 DEF CheckNamed, TypeOK, OpTypeOK, TabsTypeOK, TextTypeOK, AtTab
    <3>2. CASE Abort BY <1>3, <3>2, AbortType
    <3>3. CASE stage' = "save" /\ needRead' = Newer(filenames[cur]) /\ UNCHANGED <<op, cur, asked>>
      BY <1>3, <3>1, <3>3 DEF TypeOK, OpTypeOK, Stages, Dialogs, AtTab, AtFile, Newer
    <3>4. CASE GoTo("reload")
      BY <1>3, <3>1, <3>4 DEF GoTo, TypeOK, OpTypeOK, Stages, Dialogs, AtTab, AtFile
    <3>5. CASE op' = op /\ Advance(cur)
      BY <1>3, <3>1, <3>5, AdvanceType
    <3>6. QED BY <2>5, <3>2, <3>3, <3>4, <3>5 DEF CheckNamed
  <2>6. QED BY <2>1, <2>2, <2>3, <2>4, <2>7, <2>5
<1>5. QED BY <1>2, <1>4 DEF TypeOK

\* A handler that goes on to save a tab, having perhaps named it.
LEMMA GoSaveType ==
  ASSUME TypeOK, NEW f \in Files, cur \in tabs, SaveFile(cur, f), op \notin {"idle", "flash"},
         UNCHANGED <<op, cur, needRead, asked, tabs, TABCOUNTER, select, autoreload>>
  PROVE  TabsTypeOK' /\ OpTypeOK' /\ loose' \subseteq Tabs
<1>1. TabsTypeOK' /\ filenames'[cur] \in Files /\ loose' \subseteq Tabs
  BY SaveFileType
<1>2. OpTypeOK'
  BY <1>1 DEF SaveFile, TypeOK, OpTypeOK, Stages, Dialogs, AtTab, AtFile
<1>3. QED BY <1>1, <1>2

LEMMA NamingType == TypeOK /\ (AnswerSave \/ CheckUnnamed) => TypeOK'
<1> SUFFICES ASSUME TypeOK, AnswerSave \/ CheckUnnamed PROVE TypeOK'
  OBVIOUS
<1>1. /\ UNCHANGED <<tabs, TABCOUNTER, select, textvars, autoreload, diskvars, filetimes,
                     base, undone>>
      /\ autoreload' = autoreload /\ tabs' = tabs
  BY DEF AnswerSave, CheckUnnamed
<1>2. cur \in tabs /\ stage \in AtTab /\ op \notin {"idle", "flash"}
  BY DEF AnswerSave, CheckUnnamed, TypeOK, OpTypeOK, AtTab, Dialogs
<1>3. TabsTypeOK' /\ OpTypeOK' /\ loose' \subseteq Tabs /\ asked' \subseteq Tabs
  <2>1. ASSUME NEW f \in Files, SaveFile(cur, f), UNCHANGED <<op, cur, needRead, asked>>
        PROVE  TabsTypeOK' /\ OpTypeOK' /\ loose' \subseteq Tabs /\ asked' \subseteq Tabs
    BY <1>1, <1>2, <2>1, GoSaveType DEF TypeOK, TextTypeOK
  <2>2. CASE Return /\ stage = "askSave" /\ UNCHANGED <<filenames, loose>>
    <3>1. op # "compile" BY <2>2 DEF TypeOK, OpTypeOK
    <3>2. OpTypeOK' /\ asked' \subseteq Tabs BY <1>1, <1>2, <2>2, <3>1, ReturnType
    <3>3. QED BY <1>1, <2>2, <3>2 DEF TypeOK, TabsTypeOK, TextTypeOK
  <2>3. CASE op = "compile" /\ op' = op /\ Advance(cur) /\ UNCHANGED <<filenames, loose>>
    <3>1. OpTypeOK' /\ asked' \subseteq Tabs
      BY <1>1, <2>3, AdvanceType DEF TypeOK, TextTypeOK
    <3>2. QED BY <1>1, <2>3, <3>1 DEF TypeOK, TabsTypeOK, TextTypeOK
  <2>4. QED BY <2>1, <2>2, <2>3 DEF AnswerSave, CheckUnnamed
<1>4. TextTypeOK' /\ DiskTypeOK'
  BY <1>1, <1>3 DEF textvars, diskvars, TypeOK, TextTypeOK, DiskTypeOK
<1>5. QED BY <1>3, <1>4 DEF TypeOK

LEMMA DestroyTabType == TypeOK /\ DestroyTab => TypeOK'
<1> SUFFICES ASSUME TypeOK, DestroyTab PROVE TypeOK'
  OBVIOUS
<1>1. cur \in tabs /\ cur \in Tabs
  BY DEF DestroyTab, TypeOK, TabsTypeOK, OpTypeOK, AtTab
<1>2. TabsTypeOK'
  BY <1>1 DEF DestroyTab, TypeOK, TabsTypeOK
<1>3. OpTypeOK' /\ asked' = {}
  BY FinishType DEF DestroyTab
<1>4. TextTypeOK'
  <2>1. Empty \in Texts /\ <<>> \in Seq(Texts)
    BY EditorAssumption DEF Empty, Texts
  <2>2. QED BY <1>1, <1>3, <2>1 DEF DestroyTab, TypeOK, TextTypeOK
<1>5. DiskTypeOK'
  BY DEF DestroyTab, diskvars, TypeOK, DiskTypeOK
<1>6. QED BY <1>2, <1>3, <1>4, <1>5 DEF TypeOK

LEMMA ReloadType == TypeOK /\ (ReloadForCompile \/ AnswerReload) => TypeOK'
<1> SUFFICES ASSUME TypeOK, ReloadForCompile \/ AnswerReload PROVE TypeOK'
  OBVIOUS
<1>1. /\ cur \in tabs /\ cur \in Tabs /\ filenames[cur] \in Files /\ op = "compile"
      /\ UNCHANGED <<tabvars, autoreload, diskvars>>
      /\ tabs' = tabs /\ autoreload' = autoreload /\ filenames' = filenames /\ TabsTypeOK'
  BY DEF ReloadForCompile, AnswerReload, TypeOK, TabsTypeOK, OpTypeOK, AtTab, AtFile, Dialogs,
         tabvars
<1>2. CASE /\ LoadFileToWindow(cur, filenames[cur])
           /\ op' = op /\ Advance(cur)
  <2>1. OpTypeOK' /\ asked' = asked
    BY <1>1, <1>2, AdvanceType
  <2>2. DiskTypeOK'
    BY <1>1, <1>2 DEF LoadFileToWindow, diskvars, TypeOK, DiskTypeOK
  <2>3. TextTypeOK'
    BY <1>1, <1>2, <2>1, <2>2, LoadFileToWindowType DEF TypeOK, TextTypeOK
  <2>4. QED BY <1>1, <2>1, <2>2, <2>3 DEF TypeOK
<1>3. ASSUME UNCHANGED <<textvars, filetimes, base, loose, undone>>,
             OpTypeOK', asked' \subseteq Tabs
      PROVE  TypeOK'
  BY <1>1, <1>3 DEF textvars, diskvars, TypeOK, TextTypeOK, DiskTypeOK
<1>4. CASE Abort /\ UNCHANGED <<textvars, filetimes, base, loose, undone>>
  BY <1>1, <1>3, <1>4, AbortType
<1>5. CASE stage = "reload" /\ GoTo("askReload") /\ UNCHANGED <<textvars, filetimes, base, loose, undone>>
  <2>1. OpTypeOK' /\ asked' = asked
    BY <1>1, <1>5 DEF GoTo, TypeOK, OpTypeOK, Stages, Dialogs, AtTab, AtFile
  <2>2. QED BY <1>3, <1>5, <2>1 DEF TypeOK, TextTypeOK
<1>6. CASE op' = op /\ Advance(cur) /\ UNCHANGED <<textvars, filetimes, base, loose, undone>>
  <2>1. OpTypeOK' /\ asked' = asked
    BY <1>1, <1>6, AdvanceType
  <2>2. QED BY <1>3, <1>6, <2>1 DEF TypeOK, TextTypeOK
<1>7. QED BY <1>2, <1>4, <1>5, <1>6 DEF ReloadForCompile, AnswerReload, ReloadCur

LEMMA CheckFocusInType == TypeOK /\ CheckFocusIn => TypeOK'
<1> SUFFICES ASSUME TypeOK, NEW stop, CheckFilesForChanges(stop),
                    UNCHANGED <<tabvars, autoreload, diskvars, opvars, asked>>
             PROVE  TypeOK'
  BY DEF CheckFocusIn
<1>1. TabsTypeOK' /\ OpTypeOK'
  BY DEF tabvars, opvars, TypeOK, TabsTypeOK, OpTypeOK
<1>2. DiskTypeOK'
  <2>1. filetimes' \in [Files -> (0 .. clock) \cup {Unset}]
    BY DEF CheckFilesForChanges, TypeOK, DiskTypeOK
  <2>2. QED BY <2>1 DEF diskvars, TypeOK, DiskTypeOK
<1>3. TextTypeOK'
  <2> DEFINE newer == {w \in tabs : w < stop /\ Newer(filenames[w]) /\ FirstTabOf(w)}
  <2>1. \A w \in newer : w \in Tabs /\ disk[filenames[w]] \in Texts
    BY DEF Newer, TypeOK, TabsTypeOK, DiskTypeOK
  <2>2. text' \in [Tabs -> Texts] /\ base' \in [Tabs -> Texts]
    BY <2>1 DEF CheckFilesForChanges, TypeOK, TextTypeOK
  <2>3. past' \in [Tabs -> Seq(Texts)] /\ future' \in [Tabs -> Seq(Texts)]
    <3>1. <<>> \in Seq(Texts) OBVIOUS
    <3>2. QED BY <3>1 DEF CheckFilesForChanges, TypeOK, TextTypeOK
  <2>4. modified' \in [Tabs -> BOOLEAN]
    BY DEF CheckFilesForChanges, TypeOK, TextTypeOK
  <2>5. loose' \subseteq Tabs /\ undone' \subseteq Tabs /\ asked' \subseteq Tabs
    BY DEF CheckFilesForChanges, TypeOK, TextTypeOK, TabsTypeOK
  <2>6. QED BY <2>2, <2>3, <2>4, <2>5 DEF TextTypeOK
<1>4. QED BY <1>1, <1>2, <1>3 DEF TypeOK

LEMMA ExternalType ==
  ASSUME TypeOK, NEW f \in Files, ExternalWrite(f) \/ ExternalDelete(f) \/ NotCreated(f)
  PROVE  TypeOK'
<1>1. UNCHANGED <<tabvars, textvars, autoreload, filetimes, opvars, histvars>>
  BY DEF ExternalWrite, ExternalDelete, NotCreated, LoadNothing, tabvars, histvars
<1>2. TabsTypeOK' /\ TextTypeOK' /\ OpTypeOK'
  BY <1>1 DEF tabvars, textvars, opvars, histvars, TypeOK, TabsTypeOK, TextTypeOK, OpTypeOK
<1>0. Empty \in Texts
  BY EditorAssumption DEF Empty, Texts
<1>3. CASE ExternalWrite(f) \/ NotCreated(f)
  <2>1. PICK x \in Texts, t \in Stamps : PutFile(f, x, t) /\ fresh' \in 0 .. MaxText
    <3>1. fresh < MaxText => fresh + 1 \in 0 .. MaxText /\ fresh + 1 \in Texts
      BY EditorAssumption DEF Texts, TypeOK, DiskTypeOK
    <3>2. QED BY <1>0, <1>3, <3>1 DEF ExternalWrite, NotCreated, TypeOK, DiskTypeOK
  <2>2. t \in clock .. MaxClock /\ clock' = t
    BY <2>1, StampsType DEF PutFile
  <2>3. filetimes' \in [Files -> (0 .. clock') \cup {Unset}]
    BY <1>1, <2>2, EditorAssumption DEF TypeOK, DiskTypeOK
  <2>4. DiskTypeOK' BY <2>1, <2>2, <2>3, PutFileType
  <2>5. QED BY <1>2, <2>4 DEF TypeOK
<1>4. CASE ExternalDelete(f)
  <2>1. ASSUME NEW g \in Files, NEW h \in Files, SameFile(g, h)
        PROVE  disk'[g] = disk'[h] /\ (g \in exists' <=> h \in exists')
    <3>1. SameFile(f, g) <=> SameFile(f, h)
      BY <2>1, SameFileEquivalence
    <3>2. disk[g] = disk[h] /\ (g \in exists <=> h \in exists)
      BY <2>1 DEF TypeOK, DiskTypeOK
    <3>3. QED BY <1>4, <3>1, <3>2 DEF ExternalDelete, NamesOf
  <2>2. /\ exists' \subseteq Files /\ disk' \in [Files -> Texts]
        /\ mtime' \in [Files -> 0 .. clock'] /\ UNCHANGED <<clock, fresh, filetimes>>
    BY <1>0, <1>1, <1>4, EditorAssumption DEF ExternalDelete, TypeOK, DiskTypeOK
  <2>3. DiskTypeOK'
    BY <2>1, <2>2 DEF TypeOK, DiskTypeOK
  <2>4. QED BY <1>2, <2>3 DEF TypeOK
<1>5. QED BY <1>3, <1>4

LEMMA NextType == TypeOK /\ [Next]_vars => TypeOK'
<1> SUFFICES ASSUME TypeOK, [Next]_vars PROVE TypeOK'
  OBVIOUS
<1>1. CASE UNCHANGED vars
  BY <1>1 DEF vars, tabvars, textvars, diskvars, opvars, histvars, TypeOK, TabsTypeOK,
              TextTypeOK, DiskTypeOK, OpTypeOK
<1>2. CASE Next
  BY <1>2, SaveFileFromWindowType, AnswerOverwriteType, TypingType, NotebookType, OpenType,
     SaveType, ControlType, NamingType, DestroyTabType, ReloadType, CheckFocusInType,
     ExternalType DEF Next, Handler
<1>3. QED BY <1>1, <1>2

\* Every variable keeps its type, and op, cur and stage agree.
THEOREM TypeCorrect == Spec => []TypeOK
<1>1. QED BY InitType, NextType, PTL DEF Spec
-----------------------------------------------------------------------------
(* Safety.                                                                 *)

\* A tab not (or no longer) in the notebook has no file.
Blank == \A w \in Tabs \ tabs : filenames[w] = NoFile

\* CleanShowsBase, for the tabs that are yet to be made as well.
CleanAll == \A w \in Tabs : ~modified[w] /\ w \notin undone => text[w] = base[w]

\* NoticesChange, with the filetimes element it rests on.
InStep ==
  \A w \in Tabs \ loose :
    LET f == filenames[w] IN
    f \in Files => /\ filetimes[f] # Unset
                   /\ f \in exists => mtime[f] > filetimes[f] \/ base[w] = disk[f]

\* saveFilesForCompile is done with tab w, or with writing it.
Written(w) ==
  /\ op = "compile"
  /\ \/ stage = "build"
     \/ cur \in Tabs /\ w < cur
     \/ w = cur /\ stage \in {"reload", "askReload", "askOverwrite"}

WrittenClean ==
  \A w \in tabs \ loose : filenames[w] \in Files /\ Written(w) => ~modified[w]

-----------------------------------------------------------------------------
LEMMA NoFileIsNone == NoFile \notin Files
  BY EditorAssumption

LEMMA BlankInd == TypeOK /\ Blank /\ [Next]_vars => Blank'
<1> SUFFICES ASSUME TypeOK, Blank, [Next]_vars PROVE Blank'
  OBVIOUS
<1> USE DEF TypeOK, TabsTypeOK, Blank
<1>1. CASE UNCHANGED tabvars
  BY <1>1 DEF tabvars
<1>2. CASE CreateNewTab
  BY <1>2 DEF CreateNewTab, AddTab
<1>3. ASSUME NEW f \in Files, LoadSourceFile(f) PROVE Blank'
  <2>1. CASE ShowTabOf(f)
    BY <2>1 DEF ShowTabOf, LoadNothing
  <2>2. CASE LoadFileToTab(f)
    BY <2>2 DEF LoadFileToTab, LoadNothing, AddTab
  <2>3. QED BY <1>3, <2>1, <2>2 DEF LoadSourceFile
<1>4. ASSUME NEW w \in tabs, NEW f \in Files, SaveFile(w, f) \/ Rename(w, f), tabs' = tabs
      PROVE  Blank'
  BY <1>4 DEF SaveFile, Rename
<1>5. ASSUME NEW f \in Files, SaveCurFile(f) \/ SaveFileAs(f) PROVE Blank'
  BY <1>4, <1>5 DEF SaveCurFile, SaveFileAs
<1>6. CASE AnswerSave \/ CheckUnnamed
  <2>1. cur \in tabs
    BY <1>6 DEF AnswerSave, CheckUnnamed, OpTypeOK, AtTab, Dialogs
  <2>2. QED BY <1>4, <1>6, <2>1 DEF AnswerSave, CheckUnnamed
<1>7. CASE DestroyTab
  BY <1>7 DEF DestroyTab
<1>8. CASE UNCHANGED vars
  BY <1>1, <1>8 DEF vars
<1>9. CASE Next
  <2>1. CASE Handler
    BY <1>1, <1>6, <1>7, <2>1
    DEF Handler, SaveFileFromWindow, AnswerOverwrite, CheckChanges, Leave, CheckNamed,
        ReloadForCompile, AnswerReload, Compile, AnswerFlash
  <2>2. CASE Edit \/ Undo \/ Redo \/ ToggleAutoreload \/ CloseTab \/ ExitProgram
             \/ StartCompile \/ LoadFlash \/ CheckFocusIn
    BY <1>1, <2>2
    DEF Edit, Undo, Redo, ToggleAutoreload, CloseTab, ExitProgram, StartCompile, LoadFlash,
        CheckFocusIn
  <2>3. CASE \E w \in Tabs : SelectTab(w)
    BY <2>3 DEF SelectTab
  <2>4. ASSUME NEW f \in Files, OpenFile(f) \/ CreateLinked(f) \/ CreateNewProject(f)
        PROVE  Blank'
    BY <1>3, <2>4 DEF OpenFile, CreateLinked, CreateNewProject
  <2>5. ASSUME NEW f \in Files, ExternalWrite(f) \/ ExternalDelete(f) \/ NotCreated(f)
        PROVE  Blank'
    BY <1>1, <2>5 DEF ExternalWrite, ExternalDelete, NotCreated, LoadNothing, tabvars
  <2>6. QED BY <1>2, <1>5, <1>9, <2>1, <2>2, <2>3, <2>4, <2>5 DEF Next
<1>10. QED BY <1>8, <1>9

-----------------------------------------------------------------------------
LEMMA CleanAllInd == TypeOK /\ CleanAll /\ [Next]_vars => CleanAll'
<1> SUFFICES ASSUME TypeOK, CleanAll, [Next]_vars PROVE CleanAll'
  OBVIOUS
<1>0. /\ text \in [Tabs -> Texts] /\ base \in [Tabs -> Texts]
      /\ modified \in [Tabs -> BOOLEAN] /\ tabs \subseteq Tabs /\ undone \subseteq Tabs
  BY DEF TypeOK, TabsTypeOK, TextTypeOK
<1>1. CASE UNCHANGED <<text, modified, base, undone>>
  BY <1>1 DEF CleanAll
<1>2. ASSUME NEW w \in Tabs, NEW f, LoadFileToWindow(w, f) PROVE CleanAll'
  BY <1>0, <1>2 DEF LoadFileToWindow, CleanAll
<1>3. ASSUME NEW f \in Files, LoadSourceFile(f) PROVE CleanAll'
  <2>1. CASE LoadNothing
    BY <1>1, <2>1 DEF LoadNothing, textvars
  <2>2. CASE LoadFileToTab(f)
    <3>1. select' \in Tabs
      BY <2>2, EditorAssumption DEF LoadFileToTab, AddTab, TypeOK, TabsTypeOK, Tabs
    <3>2. QED BY <1>2, <2>1, <2>2, <3>1 DEF LoadFileToTab
  <2>3. QED BY <1>3, <2>1, <2>2 DEF LoadSourceFile, ShowTabOf
<1>4. ASSUME NEW f, NEW ft, WriteFile(cur, f, ft), cur \in Tabs PROVE CleanAll'
  <2>1. CASE UNCHANGED <<textvars, base, undone>>
    BY <1>1, <2>1 DEF textvars
  <2>2. CASE /\ modified' = [modified EXCEPT ![cur] = FALSE]
             /\ base' = [base EXCEPT ![cur] = text[cur]]
             /\ undone' = undone \ {cur}
             /\ text' = text
    BY <1>0, <1>4, <2>2 DEF CleanAll
  <2>3. QED BY <1>4, <2>1, <2>2 DEF WriteFile
<1>5. CASE SaveFileFromWindow
  <2>1. cur \in Tabs
    BY <1>5 DEF SaveFileFromWindow, TypeOK, TabsTypeOK, OpTypeOK, AtTab
  <2>2. QED BY <1>1, <1>4, <1>5, <2>1 DEF SaveFileFromWindow, textvars
<1>6. CASE AnswerOverwrite
  <2>1. cur \in Tabs
    BY <1>6 DEF AnswerOverwrite, TypeOK, TabsTypeOK, OpTypeOK, AtTab, Dialogs
  <2>2. QED BY <1>1, <1>4, <1>6, <2>1 DEF AnswerOverwrite, textvars
<1>7. CASE ReloadForCompile \/ AnswerReload
  <2>1. cur \in Tabs
    BY <1>7 DEF ReloadForCompile, AnswerReload, TypeOK, TabsTypeOK, OpTypeOK, AtTab, Dialogs
  <2>2. QED BY <1>1, <1>2, <1>7, <2>1 DEF ReloadForCompile, AnswerReload, ReloadCur, textvars
<1>8. CASE DestroyTab
  BY <1>0, <1>8 DEF DestroyTab, CleanAll
<1>9. CASE Edit
  BY <1>0, <1>9 DEF Edit, MarkModified, histvars, CleanAll
<1>10. CASE Undo \/ Redo
  BY <1>0, <1>10 DEF Undo, Redo, CleanAll
<1>11. CASE CheckFocusIn
  BY <1>0, <1>11 DEF CheckFocusIn, CheckFilesForChanges, CleanAll
<1>12. CASE UNCHANGED vars
  BY <1>1, <1>12 DEF vars, textvars, histvars
<1>13. CASE Next
  <2>1. CASE Handler
    BY <1>1, <1>5, <1>6, <1>7, <1>8, <2>1
    DEF Handler, CheckChanges, AnswerSave, Leave, CheckUnnamed, CheckNamed, Compile,
        AnswerFlash, textvars
  <2>2. CASE \/ CreateNewTab \/ ToggleAutoreload \/ CloseTab \/ ExitProgram \/ StartCompile
             \/ LoadFlash
    BY <1>1, <2>2
    DEF CreateNewTab, ToggleAutoreload, CloseTab, ExitProgram, StartCompile, LoadFlash,
        textvars, histvars
  <2>3. CASE \E w \in Tabs : SelectTab(w)
    BY <1>1, <2>3 DEF SelectTab, textvars, histvars
  <2>4. ASSUME NEW f \in Files, OpenFile(f) \/ CreateLinked(f) \/ CreateNewProject(f)
        PROVE  CleanAll'
    BY <1>3, <2>4 DEF OpenFile, CreateLinked, CreateNewProject
  <2>5. ASSUME NEW f \in Files, \/ SaveCurFile(f) \/ SaveFileAs(f)
                                \/ ExternalWrite(f) \/ ExternalDelete(f) \/ NotCreated(f)
        PROVE  CleanAll'
    BY <1>1, <2>5
    DEF SaveCurFile, SaveFileAs, ExternalWrite, ExternalDelete, NotCreated, LoadNothing,
        textvars, histvars
  <2>6. QED BY <1>9, <1>10, <1>11, <1>13, <2>1, <2>2, <2>3, <2>4, <2>5 DEF Next
<1>14. QED BY <1>12, <1>13

\* A tab without the modified mark shows the version of its file that it was
\* last in step with, unless undo or redo was used: ctext marks every edit.
THEOREM CleanShowsBaseHolds == Spec => []CleanShowsBase
<1>1. Init => CleanAll
  BY DEF Init, CleanAll
<1>2. TypeOK /\ CleanAll => CleanShowsBase
  BY DEF TypeOK, TabsTypeOK, CleanAll, CleanShowsBase
<1>3. QED BY <1>1, <1>2, CleanAllInd, TypeCorrect, PTL DEF Spec
-----------------------------------------------------------------------------
\* A step after which the same tabs are in step with the same files.
LEMMA InStepKept ==
  ASSUME InStep, UNCHANGED <<filenames, exists, disk, mtime, filetimes, base>>,
         loose \subseteq loose'
  PROVE  InStep'
  BY DEF InStep

\* A write at a later second gives the file a time later than any seen.
LEMMA LaterOrSame ==
  ASSUME TypeOK, SameSecond = FALSE, NEW f \in Files, NEW x, NEW g \in Files,
         \/ UNCHANGED <<exists, disk, mtime, clock>>
         \/ \E t \in Stamps : PutFile(f, x, t)
  PROVE  \/ (g \in exists' => g \in exists) /\ mtime'[g] = mtime[g] /\ disk'[g] = disk[g]
         \/ mtime'[g] > filetimes[g]
<1>1. CASE UNCHANGED <<exists, disk, mtime, clock>>
  BY <1>1
<1>2. ASSUME NEW t \in Stamps, PutFile(f, x, t)
      PROVE  \/ (g \in exists' => g \in exists) /\ mtime'[g] = mtime[g] /\ disk'[g] = disk[g]
             \/ mtime'[g] > filetimes[g]
  <2>1. t > clock /\ t \in Int /\ clock \in Nat /\ filetimes[g] \in (0 .. clock) \cup {Unset}
    BY EditorAssumption DEF Stamps, TypeOK, DiskTypeOK
  <2>2. CASE SameFile(f, g)
    BY <1>2, <2>1, <2>2 DEF PutFile, Unset
  <2>3. CASE ~SameFile(f, g)
    BY <1>2, <2>3 DEF PutFile, NamesOf
  <2>4. QED BY <2>2, <2>3
<1>3. QED BY <1>1, <1>2

\* Any write at a later second is noticed.
LEMMA InStepPutFile ==
  ASSUME TypeOK, InStep, SameSecond = FALSE, NEW f \in Files, NEW x, NEW t \in Stamps,
         PutFile(f, x, t), UNCHANGED <<filenames, base>>, filetimes' = filetimes,
         loose \subseteq loose'
  PROVE  InStep'
<1>1. /\ filetimes \in [Files -> (0 .. clock) \cup {Unset}] /\ t > clock /\ t \in Int
      /\ clock \in Nat
      /\ mtime \in [Files -> 0 .. clock] /\ disk \in [Files -> Texts]
      /\ filenames \in [Tabs -> Files \cup {NoFile}]
  BY EditorAssumption DEF TypeOK, DiskTypeOK, TabsTypeOK, Stamps
<1>2. SUFFICES ASSUME NEW w \in Tabs \ loose, filenames[w] \in Files
               PROVE  LET g == filenames[w] IN
                      /\ filetimes[g] # Unset
                      /\ g \in exists' => mtime'[g] > filetimes[g] \/ base[w] = disk'[g]
  BY DEF InStep
<1>3. CASE SameFile(f, filenames[w])
  BY <1>1, <1>2, <1>3 DEF InStep, PutFile, Unset
<1>4. CASE ~SameFile(f, filenames[w])
  BY <1>1, <1>2, <1>4 DEF InStep, PutFile, NamesOf
<1>5. QED BY <1>3, <1>4

\* A load puts its tab in step and makes the other tabs of the file loose.
LEMMA InStepLoad ==
  ASSUME TypeOK, Blank, InStep, NEW w \in Tabs, NEW f \in Files, LoadFileToWindow(w, f),
         filenames' = [filenames EXCEPT ![w] = f], DiskTypeOK',
         \A g \in Files \ {f} :
           \/ (g \in exists' => g \in exists) /\ mtime'[g] = mtime[g] /\ disk'[g] = disk[g]
           \/ mtime'[g] > filetimes[g]
  PROVE  InStep'
<1>1. /\ filetimes \in [Files -> (0 .. clock) \cup {Unset}] /\ base \in [Tabs -> Texts]
      /\ filenames \in [Tabs -> Files \cup {NoFile}]
  BY DEF TypeOK, DiskTypeOK, TabsTypeOK, TextTypeOK
<1>2. mtime'[f] \in Nat
  BY DEF DiskTypeOK
<1>3. SUFFICES ASSUME NEW v \in Tabs \ loose', filenames'[v] \in Files
               PROVE  LET g == filenames'[v] IN
                      /\ filetimes'[g] # Unset
                      /\ g \in exists' => mtime'[g] > filetimes'[g] \/ base'[v] = disk'[g]
  BY DEF InStep
<1>4. CASE v = w
  BY <1>1, <1>2, <1>4 DEF LoadFileToWindow, Unset
<1>5. CASE v # w
  <2>1. filenames'[v] = filenames[v] /\ base'[v] = base[v] /\ v \notin loose
    BY <1>1, <1>3, <1>5 DEF LoadFileToWindow, Loosen
  <2>2. filenames[v] # f
    BY <1>3, <1>5, NoFileIsNone DEF LoadFileToWindow, Loosen, TabsOf, Blank
  <2>3. filetimes'[filenames[v]] = filetimes[filenames[v]]
    BY <1>1, <2>2 DEF LoadFileToWindow
  <2>4. QED BY <1>3, <2>1, <2>2, <2>3 DEF InStep
<1>6. QED BY <1>4, <1>5

LEMMA InStepWrite ==
  ASSUME TypeOK, Blank, InStep, SameSecond = FALSE, stage \in AtFile, filenames' = filenames,
         NEW ft, ft = filetimes \/ ft = [filetimes EXCEPT ![filenames[cur]] = mtime[filenames[cur]]],
         WriteFile(cur, filenames[cur], ft)
  PROVE  InStep'
<1> DEFINE f == filenames[cur]
<1>1. /\ filetimes \in [Files -> (0 .. clock) \cup {Unset}] /\ base \in [Tabs -> Texts]
      /\ filenames \in [Tabs -> Files \cup {NoFile}] /\ mtime \in [Files -> 0 .. clock]
      /\ disk \in [Files -> Texts] /\ clock \in Nat /\ f \in Files /\ cur \in Tabs
      /\ loose \subseteq Tabs
  BY EditorAssumption
  DEF TypeOK, DiskTypeOK, TabsTypeOK, TextTypeOK, OpTypeOK, AtTab, AtFile, Dialogs
<1>2. \A v \in Tabs : v \notin Loosen(f) => v \notin loose /\ filenames[v] # f
  BY <1>1, NoFileIsNone DEF Loosen, TabsOf, Blank
\* A tab that has the file by another name sees its new time, or is loose.
<1>6. ASSUME NEW v \in Tabs, v \notin SeenNow(f), v \notin Loosen(f), filenames[v] \in NamesOf(f)
      PROVE  clock > filetimes[filenames[v]]
  <2>1. v \in tabs /\ filenames[v] \in Files /\ filenames[v] # f
    BY <1>2, <1>6, NoFileIsNone DEF NamesOf, Blank
  <2>2. filetimes[filenames[v]] # clock
    BY <1>6, <2>1 DEF SeenNow
  <2>3. QED BY <1>1, <2>1, <2>2 DEF Unset
<1>3. CASE /\ PutFile(f, text[cur], clock)
           /\ filetimes' = [ft EXCEPT ![f] = clock]
           /\ base' = [base EXCEPT ![cur] = text[cur]]
           /\ loose' = (Loosen(f) \cup SeenNow(f)) \ {cur}
  <2>1. SUFFICES ASSUME NEW v \in Tabs \ loose', filenames[v] \in Files
                 PROVE  LET g == filenames[v] IN
                        /\ filetimes'[g] # Unset
                        /\ g \in exists' => mtime'[g] > filetimes'[g] \/ base'[v] = disk'[g]
    BY DEF InStep
  <2>2. CASE v = cur
    BY <1>1, <1>3, <2>2, SameFileEquivalence DEF PutFile, Unset
  <2>3. CASE v # cur
    <3>1. /\ v \notin loose /\ filenames[v] # f
          /\ v \notin Loosen(f) /\ v \notin SeenNow(f)
      BY <1>2, <1>3, <2>1, <2>3
    <3>2. filetimes'[filenames[v]] = filetimes[filenames[v]] /\ base'[v] = base[v]
      BY <1>1, <1>3, <2>1, <2>3, <3>1
    <3>3. CASE SameFile(f, filenames[v])
      <4>1. mtime'[filenames[v]] = clock /\ clock > filetimes[filenames[v]]
        BY <1>3, <1>6, <2>1, <3>1, <3>3 DEF PutFile, NamesOf
      <4>2. QED BY <2>1, <3>1, <3>2, <4>1 DEF InStep
    <3>4. CASE ~SameFile(f, filenames[v])
      <4>1. /\ mtime'[filenames[v]] = mtime[filenames[v]]
            /\ disk'[filenames[v]] = disk[filenames[v]]
            /\ filenames[v] \in exists' => filenames[v] \in exists
        BY <1>1, <1>3, <2>1, <3>4 DEF PutFile, NamesOf
      <4>2. QED BY <2>1, <3>1, <3>2, <4>1 DEF InStep
    <3>5. QED BY <3>3, <3>4
  <2>4. QED BY <2>2, <2>3
<1>4. CASE /\ filetimes' = ft
           /\ loose' = IF ft = filetimes THEN loose ELSE Loosen(f)
           /\ \/ UNCHANGED <<exists, disk, mtime, clock>>
              \/ \E t \in Stamps : PutFile(f, Empty, t)
           /\ UNCHANGED base
  <2>1. CASE ft = filetimes
    BY <1>1, <1>4, <2>1, InStepKept, InStepPutFile
  <2>2. CASE ft # filetimes
    <3>1. SUFFICES ASSUME NEW v \in Tabs \ loose', filenames[v] \in Files
                   PROVE  LET g == filenames[v] IN
                          /\ filetimes'[g] # Unset
                          /\ g \in exists' => mtime'[g] > filetimes'[g] \/ base'[v] = disk'[g]
      BY DEF InStep
    <3>2. v \notin loose /\ filenames[v] # f
      BY <1>2, <1>4, <2>2, <3>1
    <3>3. /\ filetimes'[filenames[v]] = filetimes[filenames[v]] /\ base'[v] = base[v]
      BY <1>1, <1>4, <2>2, <3>1, <3>2
    <3>4. \/ /\ mtime'[filenames[v]] = mtime[filenames[v]]
             /\ disk'[filenames[v]] = disk[filenames[v]]
             /\ filenames[v] \in exists' => filenames[v] \in exists
          \/ mtime'[filenames[v]] > filetimes[filenames[v]]
      BY <1>1, <1>4, <3>1, LaterOrSame
    <3>5. QED BY <3>1, <3>2, <3>3, <3>4 DEF InStep
  <2>3. QED BY <2>1, <2>2
<1>5. QED BY <1>3, <1>4 DEF WriteFile

\* loadSourceFile, after a write at a later second or none.
LEMMA InStepSource ==
  ASSUME TypeOK, Blank, InStep, SameSecond = FALSE, NEW f \in Files, DiskTypeOK',
         LoadSourceFile(f),
         \/ UNCHANGED diskvars
         \/ \E x, t : t \in Stamps /\ PutFile(f, x, t)
  PROVE  InStep'
<1>1. CASE LoadNothing
  BY <1>1, InStepKept, InStepPutFile DEF LoadNothing, diskvars
<1>2. CASE LoadFileToTab(f) /\ ~LoadNothing
  <2>1. select' \in Tabs
    BY <1>2, EditorAssumption DEF LoadFileToTab, AddTab, TypeOK, TabsTypeOK, Tabs
  <2>2. ASSUME NEW g \in Files \ {f}
        PROVE  \/ (g \in exists' => g \in exists) /\ mtime'[g] = mtime[g] /\ disk'[g] = disk[g]
               \/ mtime'[g] > filetimes[g]
    BY LaterOrSame DEF diskvars
  <2>3. QED BY <1>2, <2>1, <2>2, InStepLoad DEF LoadFileToTab
<1>3. QED BY <1>1, <1>2 DEF LoadSourceFile, ShowTabOf

\* Giving a tab a name makes it loose.
LEMMA InStepRename ==
  ASSUME TypeOK, InStep, NEW w \in Tabs, NEW f \in Files, SaveFile(w, f) \/ Rename(w, f),
         UNCHANGED <<diskvars, filetimes, base>>
  PROVE  InStep'
<1>1. CASE UNCHANGED <<filenames, loose>>
  BY <1>1, InStepKept DEF diskvars
<1>2. CASE Rename(w, f)
  BY <1>2 DEF Rename, InStep, diskvars, TypeOK, TabsTypeOK
<1>3. QED BY <1>1, <1>2 DEF SaveFile

LEMMA InStepFocus ==
  ASSUME TypeOK, Blank, InStep, NEW stop, CheckFilesForChanges(stop),
         UNCHANGED <<tabvars, diskvars>>
  PROVE  InStep'
<1> DEFINE newer == {w \in tabs : w < stop /\ Newer(filenames[w]) /\ FirstTabOf(w)}
           seen  == {filenames[w] : w \in newer} \cup
                    {filenames[w] : w \in {v \in tabs : v = stop /\ ~NoTime(filenames[v])}}
<1>1. /\ mtime \in [Files -> 0 .. clock] /\ filenames \in [Tabs -> Files \cup {NoFile}]
      /\ clock \in Nat /\ tabs \subseteq Tabs
      /\ UNCHANGED <<filenames, exists, disk, mtime>>
  BY EditorAssumption DEF TypeOK, DiskTypeOK, TabsTypeOK, tabvars, diskvars
<1>2. /\ filetimes' = [f \in Files |-> IF f \in seen THEN mtime[f] ELSE filetimes[f]]
      /\ base' = [w \in Tabs |-> IF w \in newer THEN disk[filenames[w]] ELSE base[w]]
      /\ loose' = (loose \cup {w \in tabs : filenames[w] \in seen}) \ newer
  BY DEF CheckFilesForChanges
<1>3. SUFFICES ASSUME NEW v \in Tabs \ loose', filenames[v] \in Files
               PROVE  LET g == filenames[v] IN
                      /\ filetimes'[g] # Unset
                      /\ g \in exists => mtime[g] > filetimes'[g] \/ base'[v] = disk[g]
  BY <1>1 DEF InStep
<1>4. CASE v \in newer
  <2>1. filenames[v] \in seen BY <1>4
  <2>2. filetimes'[filenames[v]] = mtime[filenames[v]] /\ base'[v] = disk[filenames[v]]
    BY <1>2, <1>3, <1>4, <2>1
  <2>3. mtime[filenames[v]] \in Nat BY <1>1, <1>3
  <2>4. QED BY <2>2, <2>3 DEF Unset
<1>5. CASE v \notin newer
  <2>1. v \in tabs BY <1>3, NoFileIsNone DEF Blank
  <2>2. v \notin loose /\ filenames[v] \notin seen
    BY <1>2, <1>3, <1>5, <2>1
  <2>3. filetimes'[filenames[v]] = filetimes[filenames[v]] /\ base'[v] = base[v]
    BY <1>2, <1>3, <1>5, <2>2
  <2>4. QED BY <1>3, <2>2, <2>3 DEF InStep
<1>6. QED BY <1>4, <1>5

LEMMA InStepInd ==
  ASSUME SameSecond = FALSE
  PROVE  TypeOK /\ Blank /\ InStep /\ [Next]_vars => InStep'
<1> SUFFICES ASSUME TypeOK, Blank, InStep, [Next]_vars PROVE InStep'
  OBVIOUS
<1>0. TypeOK' /\ DiskTypeOK'
  BY NextType DEF TypeOK
<1>1. CASE UNCHANGED <<filenames, diskvars, filetimes, base, loose>>
  BY <1>1, InStepKept DEF diskvars
<1>2. CASE UNCHANGED vars
  BY <1>1, <1>2 DEF vars, tabvars, histvars
<1>3. CASE SaveFileFromWindow
  <2>1. /\ filenames' = filenames /\ stage \in AtFile /\ filenames[cur] \in Files
        /\ filetimes \in [Files -> (0 .. clock) \cup {Unset}] /\ mtime \in [Files -> 0 .. clock]
        /\ clock \in Nat
    BY <1>3, EditorAssumption
    DEF SaveFileFromWindow, AtFile, tabvars, TypeOK, OpTypeOK, DiskTypeOK
  <2>2. CASE UNCHANGED <<textvars, diskvars, filetimes, base, loose, undone>>
    BY <1>1, <2>1, <2>2
  <2>3. CASE /\ filetimes' = [filetimes EXCEPT ![filenames[cur]] = mtime[filenames[cur]]]
             /\ loose' = Loosen(filenames[cur])
             /\ UNCHANGED <<textvars, diskvars, base, undone>>
    <3>1. SUFFICES ASSUME NEW v \in Tabs \ loose', filenames[v] \in Files
                   PROVE  LET g == filenames[v] IN
                          /\ filetimes'[g] # Unset
                          /\ g \in exists => mtime[g] > filetimes'[g] \/ base[v] = disk[g]
      BY <2>1, <2>3 DEF InStep, diskvars
    <3>2. v \notin loose /\ filenames[v] # filenames[cur]
      BY <2>1, <2>3, <3>1, NoFileIsNone DEF Loosen, TabsOf, Blank
    <3>3. filetimes'[filenames[v]] = filetimes[filenames[v]]
      BY <2>1, <2>3, <3>1, <3>2
    <3>4. QED BY <3>1, <3>2, <3>3 DEF InStep
  <2>4. QED BY <1>3, <2>1, <2>2, <2>3, InStepWrite DEF SaveFileFromWindow
<1>4. CASE AnswerOverwrite
  <2>1. filenames' = filenames /\ stage \in AtFile
    BY <1>4 DEF AnswerOverwrite, AtFile, tabvars
  <2>2. QED BY <1>1, <1>4, <2>1, InStepWrite DEF AnswerOverwrite
<1>5. CASE ReloadForCompile \/ AnswerReload
  <2>1. /\ cur \in Tabs /\ filenames[cur] \in Files /\ UNCHANGED <<filenames, diskvars>>
        /\ filenames \in [Tabs -> Files \cup {NoFile}]
    BY <1>5
    DEF ReloadForCompile, AnswerReload, TypeOK, TabsTypeOK, OpTypeOK, AtTab, AtFile, Dialogs,
        tabvars
  <2>2. CASE LoadFileToWindow(cur, filenames[cur])
    <3>1. filenames' = [filenames EXCEPT ![cur] = filenames[cur]]
      BY <2>1
    <3>2. QED BY <1>0, <2>1, <2>2, <3>1, InStepLoad DEF diskvars
  <2>3. CASE UNCHANGED <<textvars, filetimes, base, loose, undone>>
    BY <1>1, <2>1, <2>3
  <2>4. QED BY <1>5, <2>2, <2>3 DEF ReloadForCompile, AnswerReload, ReloadCur
<1>6. CASE AnswerSave \/ CheckUnnamed
  <2>1. cur \in Tabs
    BY <1>6 DEF AnswerSave, CheckUnnamed, TypeOK, TabsTypeOK, OpTypeOK, AtTab, Dialogs
  <2>2. QED BY <1>1, <1>6, <2>1, InStepRename DEF AnswerSave, CheckUnnamed
<1>7. CASE DestroyTab
  BY <1>7, EditorAssumption DEF DestroyTab, InStep, diskvars, TypeOK, TabsTypeOK, TextTypeOK
<1>8. CASE CheckFocusIn
  BY <1>8, InStepFocus DEF CheckFocusIn
<1>9. ASSUME NEW f \in Files, OpenFile(f) \/ CreateLinked(f) \/ CreateNewProject(f)
      PROVE  InStep'
  BY <1>0, <1>9, InStepSource DEF OpenFile, CreateLinked, CreateNewProject
<1>10. ASSUME NEW f \in Files, SaveCurFile(f) \/ SaveFileAs(f) PROVE InStep'
  <2>1. select \in Tabs
    BY <1>10 DEF SaveCurFile, SaveFileAs, TypeOK, TabsTypeOK
  <2>2. QED BY <1>10, <2>1, InStepRename DEF SaveCurFile, SaveFileAs
<1>11. ASSUME NEW f \in Files, ExternalWrite(f) \/ NotCreated(f) PROVE InStep'
  <2>1. UNCHANGED <<filenames, base, filetimes, loose>>
    BY <1>11 DEF ExternalWrite, NotCreated, LoadNothing, tabvars, histvars
  <2>2. PICK x, t : t \in Stamps /\ PutFile(f, x, t)
    BY <1>11 DEF ExternalWrite, NotCreated
  <2>3. QED BY <2>1, <2>2, InStepPutFile
<1>12. ASSUME NEW f \in Files, ExternalDelete(f) PROVE InStep'
  BY <1>12 DEF ExternalDelete, NamesOf, InStep, tabvars, histvars, TypeOK, DiskTypeOK
<1>13. CASE Next
  <2>1. CASE Handler
    BY <1>1, <1>3, <1>4, <1>5, <1>6, <1>7, <2>1
    DEF Handler, CheckChanges, Leave, CheckNamed, Compile, AnswerFlash, tabvars
  <2>2. CASE \/ CreateNewTab \/ Edit \/ Undo \/ Redo \/ ToggleAutoreload \/ CloseTab
             \/ ExitProgram \/ StartCompile \/ LoadFlash
    BY <1>1, <2>2, InStepKept
    DEF CreateNewTab, Edit, Undo, Redo, ToggleAutoreload, CloseTab, ExitProgram, StartCompile,
        LoadFlash, tabvars, histvars, diskvars
  <2>3. CASE \E w \in Tabs : SelectTab(w)
    BY <1>1, <2>3 DEF SelectTab, histvars
  <2>4. QED BY <1>8, <1>9, <1>10, <1>11, <1>12, <1>13, <2>1, <2>2, <2>3 DEF Next
<1>14. QED BY <1>2, <1>13

\* When other programs never write a file in the second of our last look at
\* it, every tab that is not loose is in step with its file, or its file's
\* time says that it is not.
THEOREM NoticesChangeHolds ==
  ASSUME SameSecond = FALSE
  PROVE  Spec => []NoticesChange
<1>1. Init => Blank /\ InStep
  BY EditorAssumption DEF Init, Blank, InStep
<1>2. TypeOK /\ InStep => NoticesChange
  BY DEF TypeOK, TabsTypeOK, DiskTypeOK, InStep, NoticesChange, Newer
<1>3. QED BY <1>1, <1>2, BlankInd, InStepInd, TypeCorrect, PTL DEF Spec
-----------------------------------------------------------------------------
\* Going on to the next tab, when the tabs up to this one are written.
LEMMA WrittenAdvance ==
  ASSUME NEW u \in Int, tabs \subseteq Int, tabs' = tabs, Advance(u),
         \A v \in tabs \ loose' : v <= u /\ filenames'[v] \in Files => ~modified'[v]
  PROVE  WrittenClean'
<1>1. SUFFICES ASSUME NEW v \in tabs \ loose', filenames'[v] \in Files, Written(v)'
               PROVE  ~modified'[v]
  BY DEF WrittenClean
<1>2. v <= u
  BY <1>1 DEF Written, Advance, Later, Tabs, NoTab
<1>3. QED BY <1>1, <1>2

\* saveFile returned to its caller, having written the tab or made it loose.
LEMMA WrittenReturn ==
  ASSUME TypeOK, WrittenClean, Return, stage \in AtFile, UNCHANGED <<tabs, filenames>>,
         cur \notin loose' => ~modified'[cur],
         \A v \in tabs \ {cur} : (v \notin loose' => v \notin loose) /\ modified'[v] = modified[v]
  PROVE  WrittenClean'
<1>1. tabs \subseteq Int /\ tabs \subseteq Tabs /\ cur \in Int /\ cur \in Tabs
  <2>1. tabs \subseteq Tabs /\ cur \in tabs
    BY DEF TypeOK, TabsTypeOK, OpTypeOK, AtTab, AtFile, Dialogs
  <2>2. QED BY <2>1, EditorAssumption DEF Tabs
<1>2. op = "compile" =>
        \A v \in tabs \ loose' : v <= cur /\ filenames'[v] \in Files => ~modified'[v]
  <2>1. SUFFICES ASSUME op = "compile", NEW v \in tabs, v \notin loose', v <= cur,
                        filenames[v] \in Files
                 PROVE  ~modified'[v]
    OBVIOUS
  <2>2. CASE v = cur
    BY <2>1, <2>2
  <2>3. CASE v # cur
    <3>1. v < cur /\ v \notin loose /\ modified'[v] = modified[v]
      BY <1>1, <2>1, <2>3
    <3>2. QED BY <1>1, <2>1, <3>1 DEF WrittenClean, Written
  <2>4. QED BY <2>2, <2>3
<1>3. CASE op \in {"save", "close", "exit"}
  BY <1>3 DEF Return, Finish, GoTo, WrittenClean, Written
<1>4. CASE op = "compile" /\ Advance(cur)
  BY <1>1, <1>2, <1>4, WrittenAdvance
<1>5. CASE op = "compile" /\ GoTo("reload")
  BY <1>1, <1>2, <1>5 DEF GoTo, WrittenClean, Written
<1>6. QED BY <1>3, <1>4, <1>5 DEF Return

LEMMA WrittenWrite ==
  ASSUME TypeOK, WrittenClean, NEW f, NEW ft, WriteFile(cur, f, ft), stage \in AtFile,
         UNCHANGED <<tabs, filenames>>
  PROVE  WrittenClean'
<1>1. CASE Abort
  BY <1>1 DEF Abort, Finish, WrittenClean, Written
<1>2. CASE /\ modified' = [modified EXCEPT ![cur] = FALSE]
           /\ loose' = (Loosen(f) \cup SeenNow(f)) \ {cur}
           /\ Return
  <2>1. modified \in [Tabs -> BOOLEAN] /\ tabs \subseteq Tabs /\ cur \in Tabs
    BY DEF TypeOK, TabsTypeOK, TextTypeOK, OpTypeOK, AtTab, AtFile, Dialogs
  <2>2. QED BY <1>2, <2>1, WrittenReturn DEF Loosen
<1>3. QED BY <1>1, <1>2 DEF WriteFile

LEMMA WrittenCleanInd == TypeOK /\ WrittenClean /\ [Next]_vars => WrittenClean'
<1> SUFFICES ASSUME TypeOK, WrittenClean, [Next]_vars PROVE WrittenClean'
  OBVIOUS
<1>0. /\ modified \in [Tabs -> BOOLEAN] /\ tabs \subseteq Tabs /\ Tabs \subseteq Int
      /\ filenames \in [Tabs -> Files \cup {NoFile}] /\ loose \subseteq Tabs
      /\ stage \in AtTab => cur \in tabs /\ cur \in Int
  BY EditorAssumption DEF TypeOK, TabsTypeOK, TextTypeOK, OpTypeOK, Tabs
<1>1. CASE op' # "compile"
  BY <1>1 DEF WrittenClean, Written
<1>2. CASE UNCHANGED <<tabs, filenames, modified, opvars>> /\ loose \subseteq loose'
  BY <1>2 DEF WrittenClean, Written, opvars
<1>3. CASE StartCompile
  <2>1. NoTab \in Int /\ \A v \in tabs : v > NoTab
    BY <1>0, EditorAssumption DEF NoTab, Tabs
  <2>2. QED BY <1>0, <1>3, <2>1, WrittenAdvance DEF StartCompile, tabvars
<1>4. CASE SaveFileFromWindow \/ AnswerOverwrite
  <2>1. stage \in AtFile /\ stage \in AtTab /\ cur \in tabs /\ UNCHANGED <<tabs, filenames>>
    BY <1>0, <1>4 DEF SaveFileFromWindow, AnswerOverwrite, AtFile, AtTab, Dialogs, tabvars
  <2>2. ASSUME NEW f, NEW ft, WriteFile(cur, f, ft) PROVE WrittenClean'
    BY <2>1, <2>2, WrittenWrite
  <2>3. CASE Abort
    BY <1>1, <2>3 DEF Abort, Finish
  <2>4. CASE loose' = Loosen(filenames[cur]) /\ GoTo("askOverwrite") /\ modified' = modified
    <3>1. cur \in loose' /\ loose \subseteq loose'
      BY <2>1, <2>4 DEF Loosen, TabsOf
    <3>2. QED BY <1>0, <2>1, <2>4, <3>1 DEF GoTo, WrittenClean, Written
  <2>5. CASE stage = "askOverwrite" /\ Return /\ UNCHANGED <<modified, loose>>
    <3>1. op = "compile" /\ filenames[cur] \in Files => cur \in loose \/ ~modified[cur]
      BY <2>1, <2>5 DEF WrittenClean, Written
    <3>2. filenames[cur] \in Files
      BY <2>1 DEF TypeOK, OpTypeOK
    <3>3. CASE op = "compile"
      BY <2>1, <2>5, <3>1, <3>2, <3>3, WrittenReturn
    <3>4. CASE op # "compile"
      BY <1>1, <2>5, <3>4 DEF Return, Finish, GoTo
    <3>5. QED BY <3>3, <3>4
  <2>6. QED
    BY <1>4, <2>2, <2>3, <2>4, <2>5 DEF SaveFileFromWindow, AnswerOverwrite, textvars
<1>5. ASSUME stage \in AtTab, op' = op, Advance(cur), UNCHANGED <<tabs, filenames>>,
             op = "compile" /\ filenames[cur] \in Files /\ cur \notin loose' => ~modified'[cur],
             \A v \in tabs \ {cur} : (v \notin loose' => v \notin loose) /\ modified'[v] = modified[v]
      PROVE  WrittenClean'
  <2>1. CASE op = "compile"
    <3>1. \A v \in tabs \ loose' : v <= cur /\ filenames'[v] \in Files => ~modified'[v]
      BY <1>0, <1>5, <2>1 DEF WrittenClean, Written
    <3>2. QED BY <1>0, <1>5, <3>1, WrittenAdvance
  <2>2. QED BY <1>1, <1>5, <2>1
<1>6. CASE CheckUnnamed
  <2>1. stage \in AtTab /\ cur \in tabs /\ filenames[cur] = NoFile /\ tabs' = tabs /\ modified' = modified
    BY <1>0, <1>6 DEF CheckUnnamed, AtTab, textvars
  <2>2. CASE op' = op /\ Advance(cur) /\ UNCHANGED <<filenames, loose>>
    BY <1>5, <2>1, <2>2, NoFileIsNone
  <2>3. ASSUME NEW f \in Files, SaveFile(cur, f), UNCHANGED <<op, cur, needRead, asked>>
        PROVE  WrittenClean'
    BY <1>0, <2>1, <2>3 DEF SaveFile, Rename, WrittenClean, Written
  <2>4. QED BY <1>6, <2>2, <2>3 DEF CheckUnnamed
<1>7. CASE CheckNamed
  <2>1. /\ stage \in AtTab /\ cur \in tabs /\ UNCHANGED <<tabs, filenames, modified, loose>>
        /\ stage = "check"
    BY <1>0, <1>7 DEF CheckNamed, AtTab, textvars, tabvars
  <2>2. CASE Abort
    BY <1>1, <2>2 DEF Abort, Finish
  <2>3. CASE stage' = "save" /\ UNCHANGED <<op, cur, asked>>
    BY <2>1, <2>3 DEF WrittenClean, Written
  <2>4. CASE ~modified[cur] /\ GoTo("reload")
    BY <2>1, <2>4 DEF GoTo, WrittenClean, Written
  <2>5. CASE ~modified[cur] /\ op' = op /\ Advance(cur)
    BY <1>5, <2>1, <2>5
  <2>6. QED BY <1>7, <2>2, <2>3, <2>4, <2>5 DEF CheckNamed, NeedWrite
<1>8. CASE ReloadForCompile \/ AnswerReload
  <2>1. /\ stage \in AtTab /\ cur \in tabs /\ UNCHANGED <<tabs, filenames>>
        /\ stage \in {"reload", "askReload"} /\ filenames[cur] \in Files
    BY <1>0, <1>8
    DEF ReloadForCompile, AnswerReload, AtTab, AtFile, Dialogs, tabvars, TypeOK, OpTypeOK
  <2>2. op = "compile" => cur \in loose \/ ~modified[cur]
    BY <2>1 DEF WrittenClean, Written
  <2>3. CASE LoadFileToWindow(cur, filenames[cur]) /\ op' = op /\ Advance(cur)
    <3>1. /\ ~modified'[cur] /\ loose' = Loosen(filenames[cur]) \ {cur}
          /\ \A v \in tabs \ {cur} : modified'[v] = modified[v]
      BY <1>0, <2>1, <2>3 DEF LoadFileToWindow
    <3>2. QED BY <1>5, <2>1, <2>3, <3>1 DEF Loosen
  <2>4. CASE UNCHANGED <<textvars, loose>> /\ op' = op /\ Advance(cur)
    BY <1>5, <2>1, <2>2, <2>4 DEF textvars
  <2>5. CASE UNCHANGED <<textvars, loose>> /\ GoTo("askReload")
    BY <2>1, <2>2, <2>5 DEF GoTo, textvars, WrittenClean, Written
  <2>6. CASE Abort
    BY <1>1, <2>6 DEF Abort, Finish
  <2>7. QED BY <1>8, <2>3, <2>4, <2>5, <2>6 DEF ReloadForCompile, AnswerReload, ReloadCur
<1>9. CASE CheckFocusIn
  <2>1. PICK stop : CheckFilesForChanges(stop)
    BY <1>9 DEF CheckFocusIn
  <2>2. UNCHANGED <<tabs, filenames, op, cur, stage>>
    BY <1>9 DEF CheckFocusIn, tabvars, opvars
  <2>3. \A v \in tabs \ loose' : modified'[v] => modified[v] /\ v \notin loose
    BY <1>0, <2>1 DEF CheckFilesForChanges
  <2>4. QED BY <2>2, <2>3 DEF WrittenClean, Written
<1>10. CASE CheckChanges \/ AnswerSave \/ DestroyTab \/ Leave \/ AnswerFlash
  <2>1. op' # "compile"
    BY <1>10
    DEF CheckChanges, AnswerSave, DestroyTab, Leave, AnswerFlash, Finish, Return, GoTo,
        SaveFile, TypeOK, OpTypeOK
  <2>2. QED BY <1>1, <2>1
<1>15. CASE Compile
  <2>1. CASE Finish("idle", "none")
    BY <1>1, <2>1 DEF Finish
  <2>2. CASE GoTo("askFlash")
    BY <1>15, <2>2 DEF Compile, GoTo, WrittenClean, Written, tabvars, textvars
  <2>3. QED BY <1>15, <2>1, <2>2 DEF Compile
<1>11. CASE Idle /\ op' # "compile" BY <1>1, <1>11
<1>12. CASE Next
  <2>1. CASE Handler
    BY <1>4, <1>6, <1>7, <1>8, <1>10, <1>15, <2>1 DEF Handler
  <2>2. CASE \/ CreateNewTab \/ Edit \/ Undo \/ Redo \/ ToggleAutoreload \/ CloseTab \/ ExitProgram
             \/ LoadFlash
    BY <1>1, <2>2
    DEF CreateNewTab, Edit, Undo, Redo, ToggleAutoreload, CloseTab, ExitProgram, LoadFlash,
        Idle, opvars
  <2>3. CASE \E w \in Tabs : SelectTab(w)
    BY <1>1, <2>3 DEF SelectTab, Idle, opvars
  <2>4. ASSUME NEW f \in Files,
               OpenFile(f) \/ CreateLinked(f) \/ CreateNewProject(f) \/ SaveCurFile(f) \/ SaveFileAs(f)
        PROVE  WrittenClean'
    BY <1>1, <2>4
    DEF OpenFile, CreateLinked, CreateNewProject, SaveCurFile, SaveFileAs, Idle, opvars
  <2>5. ASSUME NEW f \in Files, ExternalWrite(f) \/ ExternalDelete(f) \/ NotCreated(f)
        PROVE  WrittenClean'
    BY <1>2, <2>5
    DEF ExternalWrite, ExternalDelete, NotCreated, LoadNothing, tabvars, textvars, histvars
  <2>6. QED BY <1>3, <1>9, <1>12, <2>1, <2>2, <2>3, <2>4, <2>5 DEF Next
<1>13. CASE UNCHANGED vars
  BY <1>2, <1>13 DEF vars, tabvars, textvars, histvars
<1>14. QED BY <1>12, <1>13

SafetyInv == TypeOK /\ Blank /\ CleanAll /\ InStep /\ WrittenClean

\* When the compiler starts, the file of every tab that is not loose and has
\* no undone edits holds the text the tab shows, or its time tells that
\* another program wrote it since.
THEOREM CompilesWhatTabsShowHolds ==
  ASSUME SameSecond = FALSE
  PROVE  Spec => []CompilesWhatTabsShow
<1>1. Init => Blank /\ CleanAll /\ InStep /\ WrittenClean
  BY EditorAssumption DEF Init, Blank, CleanAll, InStep, WrittenClean, Written
<1>2. SafetyInv => CompilesWhatTabsShow
  <2>1. SUFFICES ASSUME SafetyInv, stage = "build", NEW w \in tabs \ (loose \cup undone),
                        filenames[w] # NoFile
                 PROVE  /\ ~modified[w]
                        /\ filenames[w] \in exists /\ ~Newer(filenames[w])
                             => disk[filenames[w]] = text[w]
    BY DEF CompilesWhatTabsShow
  <2>2. w \in Tabs /\ filenames[w] \in Files /\ op = "compile"
    BY <2>1 DEF SafetyInv, TypeOK, TabsTypeOK, OpTypeOK
  <2>3. ~modified[w]
    BY <2>1, <2>2 DEF SafetyInv, WrittenClean, Written
  <2>4. text[w] = base[w]
    BY <2>1, <2>2, <2>3 DEF SafetyInv, CleanAll
  <2>5. filenames[w] \in exists /\ ~Newer(filenames[w]) => base[w] = disk[filenames[w]]
    BY <2>1, <2>2 DEF SafetyInv, InStep, Newer
  <2>6. QED BY <2>3, <2>4, <2>5
<1>3. QED
  BY <1>1, <1>2, InitType, NextType, BlankInd, CleanAllInd, InStepInd, WrittenCleanInd, PTL
  DEF Spec, SafetyInv
-----------------------------------------------------------------------------
\* The user was asked about tab w in this handler, if it was modified.
Passed(w) ==
  \/ stage = "leave"
  \/ stage = "destroy" /\ w = cur
  \/ op \in {"close", "exit"} /\ stage \in {"askSave", "save", "askOverwrite"} /\ w = cur
  \/ op = "exit" /\ cur \in Tabs /\ w < cur

AskedInv == \A w \in tabs : Passed(w) /\ modified[w] => w \in asked

LEMMA AskedAdvance ==
  ASSUME NEW u \in Int, tabs \subseteq Int, tabs' = tabs, Advance(u), op' \in {"exit", "compile"},
         \A v \in tabs : op' = "exit" /\ v <= u /\ modified'[v] => v \in asked
  PROVE  AskedInv'
<1>1. SUFFICES ASSUME NEW v \in tabs, Passed(v)', modified'[v] PROVE v \in asked'
  BY DEF AskedInv
<1>2. op' = "exit" /\ v <= u
  BY <1>1 DEF Passed, Advance, Later, Tabs, NoTab
<1>3. QED BY <1>1, <1>2 DEF Advance

LEMMA AskedReturn ==
  ASSUME TypeOK, AskedInv, Return, stage \in AtTab, tabs' = tabs,
         op \in {"close", "exit"} /\ modified'[cur] => cur \in asked,
         \A v \in tabs \ {cur} : modified'[v] = modified[v]
  PROVE  AskedInv'
<1>1. tabs \subseteq Int /\ tabs \subseteq Tabs /\ cur \in Int /\ cur \in Tabs
  <2>1. tabs \subseteq Tabs /\ cur \in tabs
    BY DEF TypeOK, TabsTypeOK, OpTypeOK
  <2>2. QED BY <2>1, EditorAssumption DEF Tabs
<1>2. CASE op = "save" /\ Finish("idle", "none")
  BY <1>2 DEF Finish, AskedInv, Passed
<1>3. CASE op = "close" /\ GoTo("destroy")
  BY <1>3 DEF GoTo, AskedInv, Passed
<1>4. CASE op \in {"exit", "compile"} /\ op' = op /\ Advance(cur)
  <2>1. \A v \in tabs : op' = "exit" /\ v <= cur /\ modified'[v] => v \in asked
    BY <1>1, <1>4 DEF AskedInv, Passed
  <2>2. QED BY <1>1, <1>4, <2>1, AskedAdvance
<1>5. CASE op = "compile" /\ GoTo("reload")
  BY <1>5 DEF GoTo, AskedInv, Passed
<1>6. QED BY <1>2, <1>3, <1>4, <1>5 DEF Return

LEMMA AskedWrite ==
  ASSUME TypeOK, AskedInv, NEW f, NEW ft, WriteFile(cur, f, ft), stage \in AtTab, tabs' = tabs
  PROVE  AskedInv'
<1>1. CASE Abort
  BY <1>1 DEF Abort, Finish, AskedInv, Passed
<1>2. CASE modified' = [modified EXCEPT ![cur] = FALSE] /\ Return
  <2>1. modified \in [Tabs -> BOOLEAN] /\ tabs \subseteq Tabs /\ cur \in tabs
    BY DEF TypeOK, TabsTypeOK, TextTypeOK, OpTypeOK
  <2>2. QED BY <1>2, <2>1, AskedReturn
<1>3. QED BY <1>1, <1>2 DEF WriteFile

LEMMA AskedInd == TypeOK /\ AskedInv /\ [Next]_vars => AskedInv'
<1> SUFFICES ASSUME TypeOK, AskedInv, [Next]_vars PROVE AskedInv'
  OBVIOUS
<1>0. /\ modified \in [Tabs -> BOOLEAN] /\ tabs \subseteq Tabs /\ Tabs \subseteq Int
      /\ stage \in AtTab => cur \in tabs /\ cur \in Int
      /\ op = "idle" => stage = "none"
  BY EditorAssumption DEF TypeOK, TabsTypeOK, TextTypeOK, OpTypeOK, Tabs
<1>1. CASE op' \notin {"close", "exit"} /\ stage' \notin {"leave", "destroy"}
  BY <1>1 DEF AskedInv, Passed
<1>2. CASE /\ UNCHANGED <<tabs, op, cur, stage, asked>>
           /\ \A v \in tabs : modified'[v] => modified[v]
  BY <1>2 DEF AskedInv, Passed
<1>3. CASE CloseTab
  BY <1>3 DEF CloseTab, AskedInv, Passed
<1>4. CASE ExitProgram
  <2>1. NoTab \in Int /\ \A v \in tabs : v > NoTab
    BY <1>0, EditorAssumption DEF NoTab, Tabs
  <2>2. QED BY <1>0, <1>4, <2>1, AskedAdvance DEF ExitProgram, tabvars
<1>5. CASE SaveFileFromWindow \/ AnswerOverwrite
  <2>1. stage \in {"save", "askOverwrite"} /\ stage \in AtTab /\ cur \in tabs /\ tabs' = tabs
    BY <1>0, <1>5 DEF SaveFileFromWindow, AnswerOverwrite, AtTab, Dialogs, tabvars
  <2>2. ASSUME NEW f, NEW ft, WriteFile(cur, f, ft) PROVE AskedInv'
    BY <2>1, <2>2, AskedWrite
  <2>3. CASE Abort
    BY <2>3 DEF Abort, Finish, AskedInv, Passed
  <2>4. CASE GoTo("askOverwrite") /\ modified' = modified
    BY <2>1, <2>4 DEF GoTo, AskedInv, Passed
  <2>5. CASE Return /\ modified' = modified
    <3>1. op \in {"close", "exit"} /\ modified[cur] => cur \in asked
      BY <2>1 DEF AskedInv, Passed
    <3>2. QED BY <2>1, <2>5, <3>1, AskedReturn
  <2>6. QED
    BY <1>5, <2>2, <2>3, <2>4, <2>5 DEF SaveFileFromWindow, AnswerOverwrite, textvars
<1>6. CASE CheckChanges
  <2>1. stage \in AtTab /\ cur \in tabs /\ tabs' = tabs /\ modified' = modified
    BY <1>0, <1>6 DEF CheckChanges, AtTab, tabvars, textvars
  <2>2. CASE stage' = "askSave" /\ asked' = asked \cup {cur} /\ UNCHANGED <<op, cur, needRead>>
    BY <1>6, <2>1, <2>2 DEF CheckChanges, AskedInv, Passed
  <2>3. CASE ~modified[cur] /\ Return
    BY <2>1, <2>3, AskedReturn
  <2>4. QED BY <1>6, <2>2, <2>3 DEF CheckChanges, MustAskSave
<1>7. CASE AnswerSave
  <2>1. /\ stage \in AtTab /\ stage = "askSave" /\ op \in {"close", "exit"} /\ cur \in tabs
        /\ tabs' = tabs /\ modified' = modified
    BY <1>0, <1>7 DEF AnswerSave, AtTab, Dialogs, textvars, TypeOK, OpTypeOK
  <2>2. modified[cur] => cur \in asked
    BY <2>1 DEF AskedInv, Passed
  <2>3. CASE Return
    BY <2>1, <2>2, <2>3, AskedReturn
  <2>4. CASE stage' = "save" /\ UNCHANGED <<op, cur, needRead, asked>>
    BY <2>1, <2>4 DEF AskedInv, Passed
  <2>5. QED BY <1>7, <2>3, <2>4 DEF AnswerSave, SaveFile
<1>8. CASE DestroyTab \/ Leave \/ Compile \/ AnswerFlash \/ LoadFlash
  BY <1>1, <1>8
  DEF DestroyTab, Leave, Compile, AnswerFlash, LoadFlash, Finish, GoTo, TypeOK, OpTypeOK
<1>9. CASE StartCompile
  BY <1>1, <1>9 DEF StartCompile, Advance
<1>10. CASE CheckUnnamed \/ CheckNamed \/ ReloadForCompile \/ AnswerReload
  <2>1. op = "compile"
    BY <1>10 DEF CheckUnnamed, CheckNamed, ReloadForCompile, AnswerReload, TypeOK, OpTypeOK
  <2>2. op' \in {"compile", "idle"} /\ stage' \notin {"leave", "destroy"}
    BY <1>10, <2>1
    DEF CheckUnnamed, CheckNamed, ReloadForCompile, AnswerReload, ReloadCur, Advance, Abort,
        Finish, GoTo, SaveFile
  <2>3. QED BY <1>1, <2>2
<1>11. CASE CheckFocusIn
  <2>1. \A v \in tabs : modified'[v] => modified[v]
    BY <1>0, <1>11 DEF CheckFocusIn, CheckFilesForChanges
  <2>2. QED BY <1>2, <1>11, <2>1 DEF CheckFocusIn, tabvars, opvars
<1>12. CASE CreateNewTab \/ Edit \/ Undo \/ Redo \/ ToggleAutoreload
  BY <1>0, <1>1, <1>12
  DEF CreateNewTab, Edit, Undo, Redo, ToggleAutoreload, Idle, opvars
<1>13. ASSUME NEW w \in Tabs, SelectTab(w) PROVE AskedInv'
  BY <1>0, <1>1, <1>13 DEF SelectTab, Idle, opvars
<1>14. ASSUME NEW f \in Files, OpenFile(f) \/ CreateLinked(f) \/ CreateNewProject(f)
       PROVE  AskedInv'
  BY <1>0, <1>1, <1>14 DEF OpenFile, CreateLinked, CreateNewProject, Idle, opvars
<1>15. ASSUME NEW f \in Files, SaveCurFile(f) \/ SaveFileAs(f) PROVE AskedInv'
  BY <1>1, <1>15 DEF SaveCurFile, SaveFileAs, SaveFile
<1>16. ASSUME NEW f \in Files, ExternalWrite(f) \/ ExternalDelete(f) \/ NotCreated(f)
       PROVE  AskedInv'
  BY <1>2, <1>16
  DEF ExternalWrite, ExternalDelete, NotCreated, LoadNothing, tabvars, textvars, opvars,
      histvars
<1>17. CASE UNCHANGED vars
  BY <1>2, <1>17 DEF vars, tabvars, textvars, opvars, histvars
<1>18. QED
  BY <1>3, <1>4, <1>5, <1>6, <1>7, <1>8, <1>9, <1>10, <1>11, <1>12, <1>13, <1>14, <1>15,
     <1>16, <1>17
  DEF Next, Handler

\* No modified tab is closed, and none is left behind by an orderly exit,
\* unless "Save file?" was asked about it in that handler.
THEOREM NoUnaskedCloseHolds == Spec => NoUnaskedClose
<1>1. Init => AskedInv
  BY EditorAssumption DEF Init, AskedInv, Passed, NoTab, Tabs
<1>2. TypeOK /\ AskedInv /\ [Next]_vars =>
        [/\ \A w \in tabs \ tabs' : modified[w] => w \in asked
         /\ stage = "leave" /\ op' = "exited"
              => \A w \in tabs : modified[w] => w \in asked]_vars
  <2>1. SUFFICES ASSUME TypeOK, AskedInv, Next
                 PROVE  /\ \A w \in tabs \ tabs' : modified[w] => w \in asked
                        /\ stage = "leave" => \A w \in tabs : modified[w] => w \in asked
    OBVIOUS
  <2>2. stage = "leave" => \A w \in tabs : modified[w] => w \in asked
    BY <2>1 DEF AskedInv, Passed
  <2>3. CASE DestroyTab
    <3>1. \A w \in tabs \ tabs' : w = cur /\ Passed(w)
      BY <2>3 DEF DestroyTab, Passed
    <3>2. QED BY <2>1, <2>2, <3>1 DEF AskedInv
  <2>4. CASE tabs \subseteq tabs'
    BY <2>2, <2>4
  <2>5. tabs \subseteq tabs' \/ DestroyTab
    <3>1. CASE Handler
      BY <3>1
      DEF Handler, SaveFileFromWindow, AnswerOverwrite, CheckChanges, AnswerSave, Leave,
          CheckUnnamed, CheckNamed, ReloadForCompile, AnswerReload, Compile, AnswerFlash,
          tabvars
    <3>2. CASE \/ CreateNewTab \/ Edit \/ Undo \/ Redo \/ ToggleAutoreload \/ CloseTab
               \/ ExitProgram \/ StartCompile \/ LoadFlash \/ CheckFocusIn
               \/ \E w \in Tabs : SelectTab(w)
      BY <3>2
      DEF CreateNewTab, AddTab, Edit, Undo, Redo, ToggleAutoreload, CloseTab, ExitProgram,
          StartCompile, LoadFlash, CheckFocusIn, SelectTab, tabvars
    <3>3. ASSUME NEW f \in Files, \/ OpenFile(f) \/ CreateLinked(f) \/ CreateNewProject(f)
                                  \/ SaveCurFile(f) \/ SaveFileAs(f)
                                  \/ ExternalWrite(f) \/ ExternalDelete(f) \/ NotCreated(f)
          PROVE  tabs \subseteq tabs'
      BY <3>3
      DEF OpenFile, CreateLinked, CreateNewProject, SaveCurFile, SaveFileAs, ExternalWrite,
          ExternalDelete, NotCreated, LoadSourceFile, ShowTabOf, LoadFileToTab, AddTab, tabvars
    <3>4. QED BY <2>1, <3>1, <3>2, <3>3 DEF Next
  <2>6. QED BY <2>3, <2>4, <2>5
<1>3. QED BY <1>1, <1>2, AskedInd, TypeCorrect, PTL DEF Spec, NoUnaskedClose
-----------------------------------------------------------------------------
(* CleanMeansOnDisk, OpenMakesNoDouble and AskedBeforeOverwrite.           *)

\* Every tab that was and still is there has the modified mark it had, or
\* shows what its file contains.
Cleaned ==
  \A w \in tabs \cap tabs' : modified[w] /\ ~modified'[w]
    => filenames'[w] \in exists' /\ disk'[filenames'[w]] = text'[w]

LEMMA CleanedKept == modified' = modified => Cleaned
  BY DEF Cleaned

LEMMA CleanedLoad ==
  ASSUME TypeOK, NEW w \in Tabs, NEW f \in Files, LoadFileToWindow(w, f),
         filenames'[w] = f, f \in exists'
  PROVE  Cleaned
  BY DEF Cleaned, LoadFileToWindow, TypeOK, TabsTypeOK, TextTypeOK

LEMMA CleanedWrite ==
  ASSUME TypeOK, cur \in Tabs, filenames[cur] \in Files, filenames' = filenames, NEW ft,
         WriteFile(cur, filenames[cur], ft)
  PROVE  Cleaned
<1> DEFINE f == filenames[cur]
<1>1. CASE modified' = modified
  BY <1>1, CleanedKept
<1>2. CASE PutFile(f, text[cur], clock) /\ modified' = [modified EXCEPT ![cur] = FALSE]
           /\ text' = text
  BY <1>2, SameFileEquivalence
  DEF Cleaned, PutFile, NamesOf, TypeOK, TabsTypeOK, TextTypeOK, DiskTypeOK
<1>3. QED BY <1>1, <1>2 DEF WriteFile, textvars

LEMMA CleanedSource ==
  ASSUME TypeOK, NEW f \in Files, LoadSourceFile(f), f \in exists'
  PROVE  Cleaned
<1>1. CASE LoadNothing
  BY <1>1, CleanedKept DEF LoadNothing, textvars
<1>2. CASE LoadFileToTab(f) /\ ~LoadNothing
  <2>1. select' \in Tabs
    BY <1>2, EditorAssumption DEF LoadFileToTab, AddTab, TypeOK, TabsTypeOK, Tabs
  <2>2. filenames'[select'] = f
    BY <1>2, <2>1 DEF LoadFileToTab, TypeOK, TabsTypeOK
  <2>3. LoadFileToWindow(select', f)
    BY <1>2 DEF LoadFileToTab
  <2>4. PICK w \in Tabs : w = select'
    BY <2>1
  <2>5. QED BY <2>2, <2>3, <2>4, CleanedLoad
<1>3. QED BY <1>1, <1>2 DEF LoadSourceFile, ShowTabOf

\* A file that is looked at in checkFilesForChanges is a file.
LEMMA CleanedFocus == TypeOK /\ CheckFocusIn => Cleaned
<1> SUFFICES ASSUME TypeOK, CheckFocusIn, NEW w \in tabs, modified[w], ~modified'[w]
             PROVE  filenames'[w] \in exists' /\ disk'[filenames'[w]] = text'[w]
  BY DEF Cleaned, CheckFocusIn, tabvars
<1>1. w \in Tabs
  BY DEF TypeOK, TabsTypeOK
<1>2. PICK stop : CheckFilesForChanges(stop)
  BY DEF CheckFocusIn
<1>3. Newer(filenames[w]) /\ text'[w] = disk[filenames[w]]
  BY <1>1, <1>2 DEF CheckFilesForChanges
<1>4. QED BY <1>3 DEF CheckFocusIn, Newer, tabvars, diskvars

LEMMA CleanedNext == TypeOK /\ Next => Cleaned
<1> SUFFICES ASSUME TypeOK, Next PROVE Cleaned
  OBVIOUS
<1>1. stage \in AtTab => cur \in tabs /\ cur \in Tabs
  BY DEF TypeOK, TabsTypeOK, OpTypeOK
<1>2. stage \in AtFile => filenames[cur] \in Files
  BY DEF TypeOK, OpTypeOK
<1>3. CASE UNCHANGED textvars
  BY <1>3, CleanedKept DEF textvars
<1>4. CASE SaveFileFromWindow \/ AnswerOverwrite
  <2>1. stage \in AtTab /\ stage \in AtFile /\ filenames' = filenames
    BY <1>4 DEF SaveFileFromWindow, AnswerOverwrite, AtTab, AtFile, Dialogs, tabvars
  <2>2. ASSUME NEW ft, WriteFile(cur, filenames[cur], ft) PROVE Cleaned
    BY <1>1, <1>2, <2>1, <2>2, CleanedWrite
  <2>3. QED BY <1>3, <1>4, <2>2 DEF SaveFileFromWindow, AnswerOverwrite
<1>5. CASE ReloadForCompile \/ AnswerReload
  <2>1. /\ stage \in AtTab /\ stage \in AtFile
        /\ filenames' = filenames /\ exists' = exists
    BY <1>5 DEF ReloadForCompile, AnswerReload, AtTab, AtFile, Dialogs, tabvars, diskvars
  <2>2. CASE filenames[cur] \in exists /\ LoadFileToWindow(cur, filenames[cur])
    BY <1>1, <1>2, <2>1, <2>2, CleanedLoad
  <2>3. QED BY <1>3, <1>5, <2>2 DEF ReloadForCompile, AnswerReload, ReloadCur
<1>6. CASE DestroyTab
  BY <1>1, <1>6 DEF DestroyTab, Cleaned, AtTab, TypeOK, TabsTypeOK, TextTypeOK
<1>7. CASE Edit
  BY <1>7 DEF Edit, MarkModified, Cleaned, TypeOK, TabsTypeOK, TextTypeOK
<1>8. CASE Undo \/ Redo
  BY <1>8, CleanedKept DEF Undo, Redo
<1>9. CASE CheckFocusIn
  BY <1>9, CleanedFocus
<1>10. ASSUME NEW f \in Files, OpenFile(f) PROVE Cleaned
  BY <1>10, CleanedSource DEF OpenFile, diskvars
<1>11. ASSUME NEW f \in Files, CreateLinked(f) \/ CreateNewProject(f) PROVE Cleaned
  <2>1. f \in exists' /\ LoadSourceFile(f)
    BY <1>11, SameFileEquivalence DEF CreateLinked, CreateNewProject, PutFile, NamesOf
  <2>2. QED BY <2>1, CleanedSource
<1>12. CASE Handler
  BY <1>3, <1>4, <1>5, <1>6, <1>12
  DEF Handler, CheckChanges, AnswerSave, Leave, CheckUnnamed, CheckNamed, Compile, AnswerFlash
<1>13. CASE \/ CreateNewTab \/ ToggleAutoreload \/ CloseTab \/ ExitProgram \/ StartCompile
            \/ LoadFlash
  BY <1>3, <1>13
  DEF CreateNewTab, ToggleAutoreload, CloseTab, ExitProgram, StartCompile, LoadFlash
<1>14. ASSUME NEW w \in Tabs, SelectTab(w) PROVE Cleaned
  BY <1>3, <1>14 DEF SelectTab
<1>15. ASSUME NEW f \in Files, \/ SaveCurFile(f) \/ SaveFileAs(f)
                               \/ ExternalWrite(f) \/ ExternalDelete(f) \/ NotCreated(f)
       PROVE  Cleaned
  BY <1>3, <1>15
  DEF SaveCurFile, SaveFileAs, ExternalWrite, ExternalDelete, NotCreated, LoadNothing
<1>16. QED
  BY <1>7, <1>8, <1>9, <1>10, <1>11, <1>12, <1>13, <1>14, <1>15 DEF Next

\* The modified mark of a tab goes away only when the tab and its file have
\* the same text, or with the tab.
THEOREM CleanMeansOnDiskHolds == Spec => CleanMeansOnDisk
<1>1. TypeOK /\ [Next]_vars =>
        [\A w \in tabs \cap tabs' : modified[w] /\ ~modified'[w]
           => filenames'[w] \in exists' /\ disk'[filenames'[w]] = text'[w]]_vars
  BY CleanedNext DEF Cleaned
<1>2. QED BY <1>1, TypeCorrect, PTL DEF Spec, CleanMeansOnDisk

\* Two tabs that have one file now had one file before, or have it by two
\* different names, not both of them normal.
NoNewDouble ==
  \A v, w \in tabs' :
    v # w /\ filenames'[w] # NoFile /\ SameFile(filenames'[v], filenames'[w]) =>
      \/ v \in tabs /\ w \in tabs /\ SameFile(filenames[v], filenames[w])
      \/ filenames'[v] # filenames'[w] /\ ~({filenames'[v], filenames'[w]} \subseteq Normal)

LEMMA NoNewDoubleKept ==
  tabs' \subseteq tabs /\ filenames' = filenames => NoNewDouble
  BY DEF NoNewDouble

\* A tab without a name shares its file with none.
LEMMA SameFileOfNames ==
  ASSUME NEW f, NEW g, SameFile(f, g), f = NoFile \/ g = NoFile
  PROVE  f = NoFile /\ g = NoFile
  BY EditorAssumption DEF SameFile

\* A new tab that is not given a name.
LEMMA NoNewDoubleAdd ==
  ASSUME TypeOK, Blank, AddTab, filenames' = filenames
  PROVE  NoNewDouble
<1>1. filenames[TABCOUNTER] = NoFile
  BY EditorAssumption DEF AddTab, Blank, TypeOK, TabsTypeOK, Tabs
<1>2. SUFFICES ASSUME NEW v \in tabs', NEW w \in tabs', v # w, filenames[w] # NoFile,
                      SameFile(filenames[v], filenames[w])
               PROVE  v \in tabs /\ w \in tabs
  BY DEF NoNewDouble
<1>3. filenames[v] # NoFile
  BY <1>2, SameFileOfNames
<1>4. QED BY <1>1, <1>2, <1>3 DEF AddTab

LEMMA NoNewDoubleSource ==
  ASSUME TypeOK, Blank, NEW f \in Files, LoadSourceFile(f)
  PROVE  NoNewDouble
<1>1. CASE LoadNothing /\ tabs' = tabs
  BY <1>1, NoNewDoubleKept DEF LoadNothing
<1>2. CASE LoadNothing /\ AddTab
  BY <1>2, NoNewDoubleAdd DEF LoadNothing
<1>3. CASE LoadFileToTab(f) /\ TabsOf(f) = {} /\ ~LoadNothing
  <2>1. \A w \in tabs : filenames[w] # f
    BY <1>3 DEF TabsOf
  <2>2. select' \in Tabs
    BY <1>3, EditorAssumption DEF LoadFileToTab, AddTab, TypeOK, TabsTypeOK, Tabs
  <2>3. \A w \in tabs' : w = select' \/ w \in tabs
    BY <1>3 DEF LoadFileToTab, AddTab
  <2>4. filenames' = [filenames EXCEPT ![select'] = f]
    BY <1>3 DEF LoadFileToTab
  <2>5. filenames'[select'] = f /\ \A w \in tabs : w # select' => filenames'[w] = filenames[w]
    BY <2>2, <2>4 DEF TypeOK, TabsTypeOK
  \* Two different names of one file are not both normal.
  <2>6. ASSUME NEW g, g # f, {f, g} \subseteq Normal, SameFile(f, g) \/ SameFile(g, f)
        PROVE  FALSE
    BY <2>6, EditorAssumption DEF SameFile
  <2>7. QED BY <2>1, <2>3, <2>5, <2>6 DEF NoNewDouble
<1>4. QED BY <1>1, <1>2, <1>3 DEF LoadSourceFile, ShowTabOf, LoadFileToTab, TabsFor

LEMMA NoNewDoubleNext == TypeOK /\ Blank /\ Next /\ stage' # "save" => NoNewDouble
<1> SUFFICES ASSUME TypeOK, Blank, Next, stage' # "save" PROVE NoNewDouble
  OBVIOUS
<1>1. CASE UNCHANGED <<tabs, filenames>>
  BY <1>1, NoNewDoubleKept
<1>2. CASE Handler
  <2>1. CASE DestroyTab
    <3>1. SUFFICES ASSUME NEW v \in tabs', NEW w \in tabs', filenames'[w] # NoFile,
                          SameFile(filenames'[v], filenames'[w])
                   PROVE  /\ v \in tabs /\ w \in tabs
                          /\ SameFile(filenames[v], filenames[w])
      BY DEF NoNewDouble
    <3>2. \A u \in tabs' : u \in tabs /\ filenames'[u] = filenames[u]
      BY <2>1 DEF DestroyTab, TypeOK, TabsTypeOK
    <3>3. QED BY <3>1, <3>2
  <2>2. CASE AnswerSave \/ CheckUnnamed
    BY <1>1, <2>2 DEF AnswerSave, CheckUnnamed, SaveFile
  <2>3. QED
    BY <1>1, <1>2, <2>1, <2>2
    DEF Handler, SaveFileFromWindow, AnswerOverwrite, CheckChanges, Leave, CheckNamed,
        ReloadForCompile, AnswerReload, Compile, AnswerFlash, tabvars
<1>3. CASE CreateNewTab
  BY <1>3, NoNewDoubleAdd DEF CreateNewTab
<1>4. CASE Edit \/ Undo \/ Redo \/ ToggleAutoreload \/ CloseTab \/ ExitProgram
           \/ StartCompile \/ LoadFlash \/ CheckFocusIn
  BY <1>1, <1>4
  DEF Edit, Undo, Redo, ToggleAutoreload, CloseTab, ExitProgram, StartCompile, LoadFlash,
      CheckFocusIn, tabvars
<1>5. ASSUME NEW w \in Tabs, SelectTab(w) PROVE NoNewDouble
  BY <1>1, <1>5 DEF SelectTab
<1>6. ASSUME NEW f \in Files, OpenFile(f) \/ CreateLinked(f) \/ CreateNewProject(f)
      PROVE  NoNewDouble
  BY <1>6, NoNewDoubleSource DEF OpenFile, CreateLinked, CreateNewProject
<1>7. ASSUME NEW f \in Files, \/ SaveCurFile(f) \/ SaveFileAs(f) \/ NotCreated(f)
                              \/ ExternalWrite(f) \/ ExternalDelete(f)
      PROVE  NoNewDouble
  BY <1>1, <1>7
  DEF SaveCurFile, SaveFileAs, SaveFile, NotCreated, LoadNothing, ExternalWrite,
      ExternalDelete, tabvars
<1>8. QED BY <1>2, <1>3, <1>4, <1>5, <1>6, <1>7 DEF Next

\* Opening a file, from the menu, a link, an error line or the configuration
\* of the last session, makes a second tab of it only under a second name,
\* which is then one that "file normalize" does not give.
THEOREM OpenMakesNoDoubleHolds == Spec => OpenMakesNoDouble
<1>1. Init => Blank
  BY DEF Init, Blank
<1>2. TypeOK /\ Blank /\ [Next]_vars =>
        [stage' # "save" =>
           \A v, w \in tabs' :
             v # w /\ filenames'[w] # NoFile /\ SameFile(filenames'[v], filenames'[w]) =>
               \/ v \in tabs /\ w \in tabs /\ SameFile(filenames[v], filenames[w])
               \/ filenames'[v] # filenames'[w]
                  /\ ~({filenames'[v], filenames'[w]} \subseteq Normal)]_vars
  BY NoNewDoubleNext DEF NoNewDouble
<1>3. QED BY <1>1, <1>2, BlankInd, TypeCorrect, PTL DEF Spec, OpenMakesNoDouble

\* Only the two steps of a save write the disk while a handler is at a file
\* and goes on.
LEMMA AtFileSteps ==
  ASSUME TypeOK, Next, stage \in AtFile, stage' # stage, disk' # disk
  PROVE  SaveFileFromWindow \/ AnswerOverwrite
<1>1. ~Idle
  BY DEF Idle, TypeOK, OpTypeOK, AtFile
<1>2. CASE Handler
  <2>1. stage \notin {"check", "destroy", "leave", "build", "askSave", "askFlash"}
    BY DEF AtFile
  <2>2. QED
    BY <1>2, <2>1
    DEF Handler, CheckChanges, AnswerSave, DestroyTab, Leave, CheckUnnamed, CheckNamed,
        ReloadForCompile, AnswerReload, Compile, AnswerFlash, diskvars
<1>3. CASE \/ CreateNewTab \/ Edit \/ Undo \/ Redo \/ ToggleAutoreload
           \/ CloseTab \/ ExitProgram \/ StartCompile \/ LoadFlash
           \/ \E w \in Tabs : SelectTab(w)
  BY <1>1, <1>3
  DEF CreateNewTab, Edit, Undo, Redo, ToggleAutoreload, CloseTab, ExitProgram, StartCompile,
      LoadFlash, SelectTab
<1>4. CASE CheckFocusIn
  BY <1>4 DEF CheckFocusIn, opvars
<1>5. ASSUME NEW f \in Files, \/ OpenFile(f) \/ CreateLinked(f) \/ CreateNewProject(f)
                              \/ SaveCurFile(f) \/ SaveFileAs(f) \/ NotCreated(f)
      PROVE  FALSE
  BY <1>1, <1>5
  DEF OpenFile, CreateLinked, CreateNewProject, SaveCurFile, SaveFileAs, NotCreated
<1>6. ASSUME NEW f \in Files, ExternalWrite(f) \/ ExternalDelete(f) PROVE FALSE
  BY <1>6 DEF ExternalWrite, ExternalDelete, opvars
<1>7. QED BY <1>2, <1>3, <1>4, <1>5, <1>6 DEF Next

\* A save changes no other file.
LEMMA WriteFileWrites ==
  ASSUME TypeOK, NEW w, NEW f, NEW ft, WriteFile(w, f, ft), NEW g \in Files, ~SameFile(f, g)
  PROVE  disk'[g] = disk[g]
  BY DEF WriteFile, PutFile, TypeOK, DiskTypeOK

\* With Auto Reload off, a save overwrites a version its tab was not in step
\* with only after the answer "overwrite it", but for loose tabs.  It needs
\* what NoticesChange needs: a version written within the second of our last
\* look at the file has no later time, and is overwritten without a question.
THEOREM AskedBeforeOverwriteHolds ==
  ASSUME SameSecond = FALSE
  PROVE  Spec => AskedBeforeOverwrite
<1>1. Init => Blank /\ InStep
  BY NoFileIsNone DEF Init, Blank, InStep
<1>2. TypeOK /\ InStep /\ [Next]_vars =>
        [~autoreload /\ stage \in AtFile /\ stage' # stage /\ cur \notin loose
           => \A f \in exists : disk'[f] # disk[f]
                => stage = "askOverwrite" \/ base[cur] = disk[f]]_vars
  <2>1. SUFFICES ASSUME TypeOK, InStep, Next, ~autoreload, stage \in AtFile, stage' # stage,
                        cur \notin loose, NEW f \in exists, disk'[f] # disk[f],
                        stage # "askOverwrite"
                 PROVE  base[cur] = disk[f]
    OBVIOUS
  <2>2. SaveFileFromWindow
    BY <2>1, AtFileSteps DEF AnswerOverwrite
  <2>3. /\ cur \in Tabs /\ filenames[cur] \in Files /\ f \in Files
    BY <2>1, <2>2 DEF SaveFileFromWindow, TypeOK, TabsTypeOK, OpTypeOK, DiskTypeOK, AtTab
  <2>4. \/ Newer(filenames[cur]) /\ ~MustAsk(filenames[cur])
        \/ /\ ~NoTime(filenames[cur]) /\ ~Newer(filenames[cur])
           /\ WriteFile(cur, filenames[cur], filetimes)
    BY <2>1, <2>2 DEF SaveFileFromWindow, diskvars
  <2>5. /\ ~Newer(filenames[cur])
        /\ WriteFile(cur, filenames[cur], filetimes)
    BY <2>1, <2>4 DEF MustAsk
  <2>6. SameFile(filenames[cur], f)
    BY <2>1, <2>3, <2>5, WriteFileWrites
  <2>7. filenames[cur] \in exists /\ disk[f] = disk[filenames[cur]]
    BY <2>1, <2>3, <2>6, SameFileEquivalence DEF TypeOK, DiskTypeOK
  <2>8. QED BY <2>1, <2>3, <2>5, <2>7 DEF InStep, Newer
<1>3. QED
  BY <1>1, <1>2, BlankInd, InStepInd, TypeCorrect, PTL DEF Spec, AskedBeforeOverwrite
-----------------------------------------------------------------------------
(* Module Build adds BINFILE and curProj to the handlers of Editor and     *)
(* takes nothing from them: it implements Editor.                          *)

LEMMA BuildStep == [BuildNext]_allvars => [Next]_vars
<1>1. CASE UNCHANGED allvars
  BY <1>1 DEF allvars
<1>2. CASE EditorOnly
  BY <1>2 DEF EditorOnly, Next, Handler
<1>3. CASE SaveMayName \/ CloseTheTab \/ DoCompile \/ JustFlash
  BY <1>3 DEF SaveMayName, CloseTheTab, DoCompile, JustFlash, Next, Handler
<1>4. CASE DoSpecial \/ \E b \in Binaries : LoadBinary(b) \/ FlashBinary(b)
  BY <1>4 DEF DoSpecial, LoadBinary, FlashBinary, Next
<1>5. CASE \E f \in Files : OpenSource(f) \/ ClickOnLink(f) \/ NewProject(f) \/ SaveAs(f)
  BY <1>5 DEF OpenSource, ClickOnLink, NewProject, SaveAs, Next
<1>6. QED BY <1>1, <1>2, <1>3, <1>4, <1>5 DEF BuildNext

\* The handlers of Build are the handlers of Editor: BINFILE and curProj
\* never change what happens to a tab or a file.
THEOREM BuildImplementsEditor == BuildSpec => Spec
<1>1. BuildInit => Init
  BY DEF BuildInit
<1>2. QED BY <1>1, BuildStep, PTL DEF BuildSpec, Spec

-----------------------------------------------------------------------------
LEMMA BinaryNames ==
  /\ NoFile \notin Binaries /\ Special \notin Binaries
  /\ \A f \in Files : f \notin Binaries /\ BinaryOf(f) \in Binaries
  BY BuildAssumption DEF Binaries

\* A compile that works puts its binary on disk and takes none away.
LEMMA MakesBinary ==
  ASSUME TypeOK, BuildTypeOK, NEW s, NEW b \in Binaries, Makes(s, b)
  PROVE  /\ OnDisk' = OnDisk \cup {b}
         /\ made' \in [OnDisk' -> Texts \cup {Junk}]
         /\ s \in Files => s \in exists /\ made'[b] = disk[s]
         /\ s # NoFile
<1>1. PICK x \in Texts \cup {Junk} :
        /\ \/ s \in exists /\ b = BinaryOf(s) /\ x = disk[s]
           \/ s \in OnDisk /\ b = s /\ x = Junk
        /\ made' = [c \in OnDisk \cup {b} |-> IF c = b THEN x ELSE made[c]]
  BY DEF Makes
<1>2. OnDisk' = OnDisk \cup {b} /\ made'[b] = x
  BY <1>1 DEF OnDisk
<1>3. s \in Files => s \notin OnDisk
  BY BinaryNames DEF BuildTypeOK
<1>4. s # NoFile
  BY <1>1, BinaryNames, NoFileIsNone DEF TypeOK, DiskTypeOK, BuildTypeOK
<1>5. QED BY <1>1, <1>2, <1>3, <1>4 DEF BuildTypeOK

LEMMA CurrentFileType ==
  TypeOK /\ BuildTypeOK /\ HasCurrentFile => CurrentFile \in Sources \cup {NoFile}
<1> SUFFICES ASSUME TypeOK, BuildTypeOK, HasCurrentFile
             PROVE  CurrentFile \in Sources \cup {NoFile}
  OBVIOUS
<1>1. CASE BINFILE # NoFile \/ curProj # NoFile
  BY <1>1, BuildAssumption DEF CurrentFile, BuildTypeOK, Sources
<1>2. CASE BINFILE = NoFile /\ curProj = NoFile
  BY <1>2 DEF HasCurrentFile, CurrentFile, Sources, TypeOK, TabsTypeOK
<1>3. QED BY <1>1, <1>2

Jobs == [source : Sources \cup {NoFile}, read : Texts \cup {Junk}, shown : Texts \cup {Anything}]

LEMMA JobType ==
  ASSUME TypeOK, BuildTypeOK, HasCurrentFile
  PROVE  Job(CurrentFile) \in Jobs
<1>1. CurrentFile \in Sources \cup {NoFile}
  BY CurrentFileType
<1>2. Shown \in Texts \cup {Anything}
  BY DEF Shown, HasCurrentFile, TypeOK, TabsTypeOK, TextTypeOK
<1>3. CurrentFile \in exists => disk[CurrentFile] \in Texts
  BY DEF TypeOK, DiskTypeOK
<1>4. QED BY <1>1, <1>2, <1>3 DEF Job, Jobs

LEMMA NoToolType ==
  ASSUME BuildTypeOK, NoTool
  PROVE  job' \in Jobs /\ board' \in (Sources \cup {NoFile}) \X (Texts \cup {Junk})
<1>1. Empty \in Texts
  BY EditorAssumption DEF Empty, Texts
<1>2. NoJob \in Jobs
  BY DEF NoJob, Jobs
<1>3. QED BY <1>1, <1>2 DEF NoTool, Nothing, BuildTypeOK, Jobs

LEMMA JustRunType ==
  ASSUME BuildTypeOK, NEW b \in Sources, JustRun(b), made' \in [OnDisk' -> Texts \cup {Junk}]
  PROVE  board' \in (Sources \cup {NoFile}) \X (Texts \cup {Junk})
<1>1. Empty \in Texts
  BY EditorAssumption DEF Empty, Texts
<1>2. QED BY <1>1 DEF JustRun, Load, Nothing

\* While the flash question waits, BINFILE is a binary that is there, after a
\* compile the one that it made.
FlashInv ==
  stage = "askFlash" =>
    /\ BINFILE \in OnDisk
    /\ op = "compile" /\ job.source \in Files => made[BINFILE] = job.read

BuildInv == BuildTypeOK /\ BinaryIsThere /\ FlashInv

\* No other handler comes to the flash question or away from it.
LEMMA KeepsFlash ==
  ASSUME TypeOK, EditorOnly \/ SaveMayName, stage' = "askFlash"
  PROVE  stage = "askFlash" /\ op' = op
<1>1. CASE \/ SaveFileFromWindow \/ AnswerOverwrite \/ CheckChanges \/ Leave
           \/ CheckNamed \/ ReloadForCompile \/ AnswerReload \/ AnswerSave \/ CheckUnnamed
  BY <1>1
  DEF SaveFileFromWindow, AnswerOverwrite, WriteFile, CheckChanges, AnswerSave,
      Leave, CheckUnnamed, CheckNamed, ReloadForCompile, AnswerReload, ReloadCur,
      Return, Abort, Finish, GoTo, Advance, SaveFile
<1>2. CASE \/ CreateNewTab \/ Edit \/ Undo \/ Redo \/ ToggleAutoreload
           \/ CloseTab \/ ExitProgram \/ StartCompile \/ CheckFocusIn
           \/ \E w \in Tabs : SelectTab(w)
  BY <1>2
  DEF CreateNewTab, Edit, Undo, Redo, ToggleAutoreload, CloseTab, ExitProgram, StartCompile,
      Advance, CheckFocusIn, SelectTab, opvars
<1>3. ASSUME NEW f \in Files, SaveCurFile(f) \/ ExternalWrite(f) \/ ExternalDelete(f)
      PROVE  stage = "askFlash" /\ op' = op
  BY <1>3 DEF SaveCurFile, SaveFile, ExternalWrite, ExternalDelete, opvars
<1>4. QED BY <1>1, <1>2, <1>3 DEF EditorOnly, SaveMayName

\* What a compile that works leaves in BINFILE is made of what it read.
LEMMA CompileMakes ==
  ASSUME TypeOK, BuildInv, HasCurrentFile, job' = Job(CurrentFile), CompileWorks
  PROVE  /\ BINFILE' \in Binaries /\ BINFILE' \in OnDisk' /\ OnDisk' \subseteq Binaries
         /\ made' \in [OnDisk' -> Texts \cup {Junk}]
         /\ job'.source \in Files => made'[BINFILE'] = job'.read
         /\ board' = Nothing \/ Load(BINFILE')
<1>1. PICK b \in Binaries :
        /\ Makes(CurrentFile, b) /\ BINFILE' = b
        /\ board' = Nothing \/ Load(b)
  BY DEF CompileWorks, JustRun
<1>2. /\ OnDisk' = OnDisk \cup {b} /\ made' \in [OnDisk' -> Texts \cup {Junk}]
      /\ CurrentFile \in Files => CurrentFile \in exists /\ made'[b] = disk[CurrentFile]
  BY <1>1, MakesBinary DEF BuildInv
<1>3. OnDisk' \subseteq Binaries
  BY <1>2 DEF BuildInv, BuildTypeOK
<1>4. QED BY <1>1, <1>2, <1>3 DEF Job

LEMMA BuildInvInd == TypeOK /\ BuildInv /\ [BuildNext]_allvars => BuildInv'
<1> SUFFICES ASSUME TypeOK, BuildInv, [BuildNext]_allvars PROVE BuildInv'
  OBVIOUS
<1>0. /\ BuildTypeOK /\ BinaryIsThere /\ FlashInv
      /\ Idle => stage = "none"
      /\ stage = "askFlash" => op \in {"compile", "flash"}
  BY DEF BuildInv, TypeOK, OpTypeOK, Idle
\* A step that uses no tool and sets BINFILE to nothing new.
<1>1. ASSUME NoTool, UNCHANGED made, BINFILE' \in {NoFile, BINFILE},
             curProj' \in Projects \cup {NoFile, curProj},
             stage' = "askFlash" => stage = "askFlash" /\ op' = op /\ BINFILE' = BINFILE
      PROVE  BuildInv'
  <2>1. job' \in Jobs /\ board' \in (Sources \cup {NoFile}) \X (Texts \cup {Junk})
    BY <1>0, <1>1, NoToolType
  <2>2. BuildTypeOK' /\ BinaryIsThere'
    BY <1>0, <1>1, <2>1, BinaryNames DEF BuildTypeOK, BinaryIsThere, OnDisk, Jobs
  <2>3. FlashInv'
    BY <1>0, <1>1 DEF FlashInv, NoTool, OnDisk
  <2>4. QED BY <2>2, <2>3 DEF BuildInv
<1>2. CASE UNCHANGED allvars
  BY <1>0, <1>2
  DEF allvars, vars, opvars, buildvars, BuildInv, BuildTypeOK, BinaryIsThere, FlashInv, OnDisk
<1>3. CASE EditorOnly
  BY <1>1, <1>3, KeepsFlash DEF EditorOnly
<1>4. CASE SaveMayName
  <2>1. stage # "askFlash"
    BY <1>0, <1>4 DEF SaveMayName, AnswerSave, CheckUnnamed, SaveCurFile
  <2>2. QED BY <1>1, <1>4, <2>1, KeepsFlash DEF SaveMayName
<1>5. CASE CloseTheTab
  BY <1>1, <1>5 DEF CloseTheTab, DestroyTab, Finish, ForgetProject
<1>6. ASSUME NEW f \in Files, OpenSource(f) \/ ClickOnLink(f) \/ NewProject(f) \/ SaveAs(f)
      PROVE  BuildInv'
  <2>1. Idle /\ stage' \in {stage, "save"}
    BY <1>6
    DEF OpenSource, ClickOnLink, NewProject, SaveAs, OpenFile, CreateLinked, CreateNewProject,
        NotCreated, SaveFileAs, opvars, vars
  <2>2. QED BY <1>0, <1>1, <1>6, <2>1 DEF OpenSource, ClickOnLink, NewProject, SaveAs, Loaded
\* A step that loads or looks at a binary that is there, and is at no question.
<1>7. ASSUME UNCHANGED <<made, curProj>>, stage' # "askFlash", job' \in Jobs,
             board' \in (Sources \cup {NoFile}) \X (Texts \cup {Junk}),
             BINFILE' \in OnDisk \cup {NoFile, Special, BINFILE}
      PROVE  BuildInv'
  <2>1. OnDisk' = OnDisk /\ OnDisk \subseteq Sources /\ Special \in Sources
    BY <1>0, <1>7 DEF OnDisk, Sources, BuildTypeOK
  <2>2. BuildTypeOK' /\ BinaryIsThere'
    BY <1>0, <1>7, <2>1, BinaryNames DEF BuildTypeOK, BinaryIsThere, Jobs
  <2>3. QED BY <1>7, <2>2 DEF BuildInv, FlashInv
<1>8. ASSUME NEW b \in OnDisk \cup {Special}, JustRun(b) \/ board' = Nothing, UNCHANGED made
      PROVE  board' \in (Sources \cup {NoFile}) \X (Texts \cup {Junk})
  <2>1. b \in Sources /\ OnDisk' = OnDisk /\ made' \in [OnDisk' -> Texts \cup {Junk}]
    BY <1>0, <1>8 DEF OnDisk, Sources, BuildTypeOK
  <2>2. QED BY <1>0, <1>8, <2>1, JustRunType DEF JustRun
<1>9. NoJob \in Jobs /\ job \in Jobs
  BY <1>0, NoToolType DEF NoJob, Jobs, BuildTypeOK
<1>10. CASE DoSpecial \/ \E b \in Binaries : LoadBinary(b)
  BY <1>0, <1>7, <1>8, <1>9, <1>10 DEF DoSpecial, LoadBinary, vars, opvars
<1>11. CASE JustFlash
  <2>1. stage = "askFlash" /\ stage' = "none" /\ BINFILE \in OnDisk
    BY <1>0, <1>11 DEF JustFlash, AnswerFlash, Finish, FlashInv
  <2>2. QED BY <1>7, <1>8, <1>9, <1>11, <2>1 DEF JustFlash
<1>12. ASSUME NEW b \in Binaries, FlashBinary(b) PROVE BuildInv'
  <2>1. job' \in Jobs /\ board' \in (Sources \cup {NoFile}) \X (Texts \cup {Junk})
    BY <1>0, <1>12, NoToolType DEF FlashBinary
  <2>2. b \in Sources /\ b \in OnDisk /\ OnDisk' = OnDisk
    BY <1>12 DEF FlashBinary, Sources, OnDisk
  <2>3. BuildTypeOK' /\ BinaryIsThere'
    BY <1>0, <1>12, <2>1, <2>2 DEF FlashBinary, BuildTypeOK, BinaryIsThere, Jobs
  <2>4. FlashInv'
    BY <1>12, <2>2 DEF FlashBinary, LoadFlash, FlashInv
  <2>5. QED BY <2>3, <2>4 DEF BuildInv
<1>13. CASE DoCompile
  <2>1. curProj' = curProj
    BY <1>13 DEF DoCompile
  <2>2. CASE ~HasCurrentFile /\ stage' = "none" /\ NoTool /\ UNCHANGED <<BINFILE, made>>
    BY <1>1, <2>1, <2>2
  <2>3. CASE HasCurrentFile /\ job' = Job(CurrentFile) /\ CompileFails
    <3>1. job' \in Jobs
      BY <1>0, <2>3, JobType
    <3>2. board' \in (Sources \cup {NoFile}) \X (Texts \cup {Junk})
      BY <2>3, EditorAssumption DEF CompileFails, Nothing, Empty, Texts
    <3>3. QED BY <1>7, <2>1, <2>3, <3>1, <3>2 DEF CompileFails
  <2>4. CASE HasCurrentFile /\ job' = Job(CurrentFile) /\ CompileWorks
    <3>1. job' \in Jobs
      BY <1>0, <2>4, JobType
    <3>2. /\ BINFILE' \in Binaries /\ BINFILE' \in OnDisk' /\ OnDisk' \subseteq Binaries
          /\ made' \in [OnDisk' -> Texts \cup {Junk}]
          /\ job'.source \in Files => made'[BINFILE'] = job'.read
          /\ board' = Nothing \/ Load(BINFILE')
      BY <2>4, CompileMakes
    <3>3. board' \in (Sources \cup {NoFile}) \X (Texts \cup {Junk})
      BY <1>0, <3>2, JustRunType DEF JustRun, Sources
    <3>4. BuildTypeOK' /\ BinaryIsThere'
      BY <1>0, <2>1, <3>1, <3>2, <3>3 DEF BuildTypeOK, BinaryIsThere, Jobs, Sources
    <3>5. FlashInv'
      BY <3>2 DEF FlashInv
    <3>6. QED BY <3>4, <3>5 DEF BuildInv
  <2>5. QED BY <1>13, <2>2, <2>3, <2>4 DEF DoCompile
<1>14. QED
  BY <1>2, <1>3, <1>4, <1>5, <1>6, <1>10, <1>11, <1>12, <1>13 DEF BuildNext

LEMMA BuildInvInit == BuildInit => BuildInv
<1> SUFFICES ASSUME BuildInit PROVE BuildInv
  OBVIOUS
<1>1. Empty \in Texts
  BY EditorAssumption DEF Empty, Texts
<1>2. OnDisk = {} /\ made \in [OnDisk -> Texts \cup {Junk}]
  BY DEF BuildInit, OnDisk
<1>3. QED
  BY <1>1, <1>2, BinaryNames
  DEF BuildInit, Init, BuildInv, BuildTypeOK, BinaryIsThere, FlashInv, Nothing, NoJob

\* BINFILE, curProj and the binaries keep their types: curProj is a project.
THEOREM BuildTypeCorrect == BuildSpec => []BuildTypeOK
<1>1. BuildInv => BuildTypeOK
  BY DEF BuildInv
<1>2. QED
  BY <1>1, BuildInvInit, BuildInvInd, BuildImplementsEditor, TypeCorrect, PTL DEF BuildSpec

\* BINFILE never names a binary that was not made.
THEOREM BinaryIsThereHolds == BuildSpec => []BinaryIsThere
<1>1. BuildInv => BinaryIsThere
  BY DEF BuildInv
<1>2. QED
  BY <1>1, BuildInvInit, BuildInvInd, BuildImplementsEditor, TypeCorrect, PTL DEF BuildSpec

\* The steps of a compile that put something on the board.
LEMMA CompileLoads ==
  ASSUME TypeOK, BuildInv, BuildNext, op = "compile", board' # Nothing
  PROVE  \/ /\ DoCompile /\ HasCurrentFile /\ job' = Job(CurrentFile) /\ CompileWorks
            /\ Load(BINFILE')
         \/ /\ stage = "askFlash" /\ UNCHANGED <<BINFILE, made, job>> /\ Load(BINFILE)
<1>1. DoCompile \/ JustFlash
  BY
  DEF BuildNext, EditorOnly, SaveMayName, CloseTheTab, DoSpecial, OpenSource, ClickOnLink,
      NewProject, SaveAs, LoadBinary, FlashBinary, NoTool, Idle
<1>2. CASE DoCompile
  <2>1. HasCurrentFile /\ job' = Job(CurrentFile) /\ CompileWorks
    BY <1>2 DEF DoCompile, NoTool, CompileFails
  <2>2. QED BY <1>2, <2>1, CompileMakes
<1>3. CASE JustFlash
  BY <1>3 DEF JustFlash, AnswerFlash, JustRun
<1>4. QED BY <1>1, <1>2, <1>3

\* What "Compile and run" and "Compile and flash" load is the binary that was
\* made in this handler of what the compiler read, also when tabs are
\* reloaded and files written while the flash question waits.
THEOREM RunsThisBuildHolds == BuildSpec => RunsThisBuild
<1>1. TypeOK /\ BuildInv /\ [BuildNext]_allvars =>
        [op = "compile" /\ board' # Nothing =>
           /\ board'[1] = BINFILE'
           /\ job'.source \in Files => board'[2] = job'.read]_allvars
  <2>1. SUFFICES ASSUME TypeOK, BuildInv, BuildNext, op = "compile", board' # Nothing
                 PROVE  /\ board'[1] = BINFILE'
                        /\ job'.source \in Files => board'[2] = job'.read
    OBVIOUS
  <2>2. CASE /\ HasCurrentFile /\ job' = Job(CurrentFile) /\ CompileWorks
             /\ Load(BINFILE')
    BY <2>1, <2>2, CompileMakes DEF Load
  <2>3. CASE stage = "askFlash" /\ UNCHANGED <<BINFILE, made, job>> /\ Load(BINFILE)
    BY <2>1, <2>3 DEF Load, BuildInv, FlashInv, OnDisk
  <2>4. QED BY <2>1, <2>2, <2>3, CompileLoads
<1>2. QED
  BY <1>1, BuildInvInit, BuildInvInd, BuildImplementsEditor, TypeCorrect, PTL
  DEF BuildSpec, RunsThisBuild

\* While the flash question of a compile waits, the binary is of the text its
\* tab showed when the compiler ran.
FlashShows ==
  stage = "askFlash" /\ op = "compile" => job.shown \in {Anything, made[BINFILE]}

LEMMA CompileShows ==
  ASSUME TypeOK, BuildInv, CompilesWhatTabsShow, DoCompile, HasCurrentFile,
         job' = Job(CurrentFile), CompileWorks
  PROVE  job'.shown \in {Anything, made'[BINFILE']}
<1>1. SUFFICES ASSUME Shown # Anything PROVE Shown = made'[BINFILE']
  BY DEF Job
<1>2. /\ BINFILE = NoFile /\ curProj = NoFile /\ Shown = text[select]
      /\ select \notin loose \cup undone /\ ~Newer(filenames[select])
  BY <1>1 DEF Shown
<1>3. select \in tabs /\ CurrentFile = filenames[select] /\ stage = "build"
  BY <1>2 DEF HasCurrentFile, CurrentFile, DoCompile, Compile
<1>4. PICK b \in Binaries : Makes(CurrentFile, b) /\ BINFILE' = b
  BY DEF CompileWorks
<1>5. /\ CurrentFile # NoFile
      /\ CurrentFile \in Files => CurrentFile \in exists /\ made'[b] = disk[CurrentFile]
  BY <1>4, MakesBinary DEF BuildInv
<1>6. CurrentFile \in Files
  BY <1>3, <1>5 DEF TypeOK, TabsTypeOK
<1>7. QED BY <1>2, <1>3, <1>4, <1>5, <1>6 DEF CompilesWhatTabsShow

LEMMA FlashShowsInd ==
  TypeOK /\ BuildInv /\ CompilesWhatTabsShow /\ FlashShows /\ [BuildNext]_allvars => FlashShows'
<1> SUFFICES ASSUME TypeOK, BuildInv, CompilesWhatTabsShow, FlashShows, [BuildNext]_allvars,
                    stage' = "askFlash", op' = "compile"
             PROVE  job'.shown \in {Anything, made'[BINFILE']}
  BY DEF FlashShows
<1>1. CASE UNCHANGED allvars
  BY <1>1 DEF allvars, vars, opvars, buildvars, FlashShows
<1>2. CASE DoCompile
  BY <1>2, CompileShows DEF DoCompile, CompileFails
<1>3. CASE BuildNext /\ ~DoCompile
  <2>1. ~JustFlash /\ ~DoSpecial /\ \A b \in Binaries : ~LoadBinary(b) /\ ~FlashBinary(b)
    BY
    DEF JustFlash, AnswerFlash, Finish, DoSpecial, LoadBinary, FlashBinary, LoadFlash, Idle,
        vars, opvars, TypeOK, OpTypeOK
  <2>2. \A f \in Files : ~OpenSource(f) /\ ~ClickOnLink(f) /\ ~NewProject(f) /\ ~SaveAs(f)
    BY
    DEF OpenSource, ClickOnLink, NewProject, SaveAs, OpenFile, CreateLinked, CreateNewProject,
        NotCreated, SaveFileAs, Idle, opvars, vars, TypeOK, OpTypeOK
  <2>3. ~CloseTheTab
    BY DEF CloseTheTab, DestroyTab, Finish
  <2>4. CASE EditorOnly
    <3>1. stage = "askFlash" /\ op = "compile"
      BY <2>4, KeepsFlash
    <3>2. QED BY <2>4, <3>1 DEF EditorOnly, NoTool, FlashShows
  <2>5. CASE SaveMayName
    <3>1. stage # "askFlash"
      BY <2>5 DEF SaveMayName, AnswerSave, CheckUnnamed, SaveCurFile, Idle, TypeOK, OpTypeOK
    <3>2. QED BY <2>5, <3>1, KeepsFlash
  <2>6. QED BY <1>3, <2>1, <2>2, <2>3, <2>4, <2>5 DEF BuildNext
<1>4. QED BY <1>1, <1>2, <1>3

\* "Compile and run" and "Compile and flash" in a tab load the text that the
\* tab showed when the compiler ran, but for what other programs did since it
\* was looked at, broken ties and undone edits.
THEOREM RunsWhatTabShowsHolds ==
  ASSUME SameSecond = FALSE
  PROVE  BuildSpec => RunsWhatTabShows
<1>1. TypeOK /\ BuildInv /\ CompilesWhatTabsShow /\ FlashShows /\ [BuildNext]_allvars =>
        [op = "compile" /\ board' # Nothing => job'.shown \in {Anything, board'[2]}]_allvars
  <2>1. SUFFICES ASSUME TypeOK, BuildInv, CompilesWhatTabsShow, FlashShows, BuildNext,
                        op = "compile", board' # Nothing
                 PROVE  job'.shown \in {Anything, board'[2]}
    OBVIOUS
  <2>2. CASE /\ DoCompile /\ HasCurrentFile /\ job' = Job(CurrentFile) /\ CompileWorks
             /\ Load(BINFILE')
    <3>1. job'.shown \in {Anything, made'[BINFILE']} /\ BINFILE' \in OnDisk'
      BY <2>1, <2>2, CompileShows, CompileMakes
    <3>2. QED BY <2>2, <3>1 DEF Load
  <2>3. CASE stage = "askFlash" /\ UNCHANGED <<BINFILE, made, job>> /\ Load(BINFILE)
    BY <2>1, <2>3 DEF Load, BuildInv, FlashInv, FlashShows, OnDisk
  <2>4. QED BY <2>1, <2>2, <2>3, CompileLoads
<1>2. BuildInit => FlashShows
  BY DEF BuildInit, Init, FlashShows
<1>3. QED
  BY <1>1, <1>2, BuildInvInit, BuildInvInd, FlashShowsInd, BuildImplementsEditor, TypeCorrect,
     CompilesWhatTabsShowHolds, PTL
  DEF BuildSpec, RunsWhatTabShows

\* When the last tab of the project is closed, so is the project.
THEOREM ProjectGoesWithItsTabHolds == BuildSpec => ProjectGoesWithItsTab
<1>1. TypeOK /\ [BuildNext]_allvars =>
        [tabs' # tabs /\ curProj \in {filenames[w] : w \in tabs} =>
           curProj \in {filenames'[w] : w \in tabs'} \/ curProj' = NoFile]_allvars
  <2>1. SUFFICES ASSUME TypeOK, BuildNext, tabs' # tabs, NEW w \in tabs, filenames[w] = curProj
                 PROVE  curProj \in {filenames'[v] : v \in tabs'} \/ curProj' = NoFile
    OBVIOUS
  <2>2. CASE CloseTheTab
    <3>1. CASE w = cur
      BY <2>1, <2>2, <3>1 DEF CloseTheTab, ForgetProject
    <3>2. CASE w # cur
      <4>1. w \in tabs' /\ filenames'[w] = filenames[w]
        BY <2>1, <2>2, <3>2 DEF CloseTheTab, DestroyTab, TypeOK, TabsTypeOK
      <4>2. QED BY <2>1, <4>1
    <3>3. QED BY <3>1, <3>2
  <2>3. CASE w \in tabs' /\ filenames'[w] = filenames[w]
    BY <2>1, <2>3
  <2>4. CASE CreateNewTab \/ \E f \in Files : LoadSourceFile(f)
    <3>1. AddTab
      BY <2>1, <2>4 DEF CreateNewTab, LoadSourceFile, ShowTabOf, LoadFileToTab
    <3>2. w \in tabs' /\ w \in Tabs /\ w # select'
      BY <2>1, <3>1, EditorAssumption DEF AddTab, TypeOK, TabsTypeOK, Tabs
    <3>3. filenames'[w] = filenames[w]
      BY <2>1, <2>4, <3>2
      DEF CreateNewTab, LoadSourceFile, ShowTabOf, LoadFileToTab, LoadNothing, TypeOK, TabsTypeOK
    <3>4. QED BY <2>3, <3>2, <3>3
  <2>5. \/ tabs' = tabs \/ CloseTheTab \/ CreateNewTab
        \/ \E f \in Files : LoadSourceFile(f)
    <3>1. CASE EditorOnly
      BY <3>1
      DEF EditorOnly, SaveFileFromWindow, AnswerOverwrite, CheckChanges, Leave, CheckNamed,
          ReloadForCompile, AnswerReload, Edit, Undo, Redo, ToggleAutoreload, CloseTab,
          ExitProgram, StartCompile, CheckFocusIn, SelectTab, ExternalWrite, ExternalDelete,
          tabvars
    <3>2. CASE \/ SaveMayName \/ DoCompile \/ JustFlash \/ DoSpecial
               \/ \E b \in Binaries : LoadBinary(b) \/ FlashBinary(b)
      BY <3>2
      DEF SaveMayName, AnswerSave, CheckUnnamed, SaveCurFile, DoCompile, Compile, JustFlash,
          AnswerFlash, DoSpecial, LoadBinary, FlashBinary, LoadFlash, vars, tabvars
    <3>3. CASE \E f \in Files : OpenSource(f) \/ ClickOnLink(f) \/ NewProject(f) \/ SaveAs(f)
      BY <3>3
      DEF OpenSource, ClickOnLink, NewProject, SaveAs, OpenFile, CreateLinked,
          CreateNewProject, NotCreated, SaveFileAs, vars, tabvars
    <3>4. QED BY <2>1, <3>1, <3>2, <3>3 DEF BuildNext
  <2>6. QED BY <2>1, <2>2, <2>4, <2>5
<1>2. QED BY <1>1, BuildImplementsEditor, TypeCorrect, PTL DEF BuildSpec, ProjectGoesWithItsTab
=============================================================================
