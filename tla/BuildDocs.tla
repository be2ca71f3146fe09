------------------------------ MODULE BuildDocs ------------------------------
(***************************************************************************)
(* What the help text says of compiling, and what the code does not keep.  *)
(***************************************************************************)
EXTENDS Build

\* src/doc/help.txt:75: "The current file (the one in the currently selected
\* tab) is always the one compiled."  With no project open, and not straight
\* after doSpecial, the compiler is given the file of the selected tab.
CompilesSelected ==
  [][stage = "build" /\ job'.source \in Sources \ {Special} =>
       curProj # NoFile \/ job'.source = filenames[select]]_allvars
=============================================================================
