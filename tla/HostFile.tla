------------------------------ MODULE HostFile ------------------------------
(***************************************************************************)
(* What the 9P client of samples/fileserver promises a program: a handle   *)
(* that is open is a cursor in one file of the host.  Reading delivers the *)
(* bytes that stand at the cursor, writing puts the next bytes of the      *)
(* caller's buffer there, both move the cursor by what was moved, and      *)
(* nothing else does; messages, chunks and fids do not show.               *)
(***************************************************************************)
EXTENDS Integers, Sequences

CONSTANTS
  Handle,      \* the program's file handles
  File,        \* the files of the host
  NoFile,      \* the file of a handle that is not open
  Data         \* what a program may write, the empty string included

VARIABLES
  content,     \* the bytes of each file of the host; a missing file has none
  cursor,      \* the file each handle is open on, and where in it it stands
  buffer       \* the bytes read so far, or those still to be written

vars == <<content, cursor, buffer>>

Init ==
  /\ content \in [File -> Seq(Nat)]
  /\ cursor = [f \in Handle |-> [file |-> NoFile, pos |-> 0]]
  /\ buffer = <<>>

\* Bytes d put into c at p; what is skipped is zero.
Patched(c, p, d) ==
  [i \in 1..(IF Len(c) > p + Len(d) THEN Len(c) ELSE p + Len(d)) |->
     IF i \in p+1..p+Len(d) THEN d[i-p] ELSE IF i <= Len(c) THEN c[i] ELSE 0]

\* A call begins with d to write, or with an empty buffer to read into, or ends.
Begin(d) == buffer' = d /\ UNCHANGED <<content, cursor>>

\* A handle is opened, which may empty the file, and then rewound.
Open(f, n) ==
  /\ cursor' = [cursor EXCEPT ![f].file = n]
  /\ content' \in {content, [content EXCEPT ![n] = <<>>]}
  /\ UNCHANGED buffer

Rewind(f) == cursor' = [cursor EXCEPT ![f].pos = 0] /\ UNCHANGED <<content, buffer>>

Close(f) == cursor' = [cursor EXCEPT ![f].file = NoFile] /\ UNCHANGED <<content, buffer>>

Read(f) ==
  LET c == cursor[f] IN
  \E k \in 1 .. Len(content[c.file]) - c.pos :
    /\ buffer' = buffer \o SubSeq(content[c.file], c.pos + 1, c.pos + k)
    /\ cursor' = [cursor EXCEPT ![f].pos = @ + k]
    /\ UNCHANGED content

Write(f) ==
  LET c == cursor[f] IN
  \E k \in 1 .. Len(buffer) :
    /\ content' = [content EXCEPT ![c.file] = Patched(@, c.pos, SubSeq(buffer, 1, k))]
    /\ cursor' = [cursor EXCEPT ![f].pos = @ + k]
    /\ buffer' = SubSeq(buffer, k + 1, Len(buffer))

Next ==
  \/ \E d \in Data : Begin(d)
  \/ \E f \in Handle :
       \/ Rewind(f) \/ Close(f)
       \/ \E n \in File : Open(f, n)
       \/ cursor[f].file # NoFile /\ (Read(f) \/ Write(f))

Spec == Init /\ [][Next]_vars
=============================================================================
