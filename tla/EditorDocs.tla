----------------------------- MODULE EditorDocs -----------------------------
(***************************************************************************)
(* What the help text and the comments of gui.tcl say of the editor, and   *)
(* what the code does not keep.                                            *)
(***************************************************************************)
EXTENDS Editor

\* src/doc/help.txt:75 on the current file: "It will be saved automatically
\* before any compilation."  When the compiler starts, the file of the
\* selected tab has the text the tab shows; a tab whose tie to the file is
\* broken and a version that came after the tab was looked at are excepted.
SavedBeforeCompile ==
  stage = "build" =>
    LET f == filenames[select] IN
    select \in tabs \ loose /\ f \in exists /\ ~Newer(f) => disk[f] = text[select]
=============================================================================
