------------------------------- MODULE Arena --------------------------------
(***************************************************************************)
(* What the interpreter of samples/proplisp needs from its memory: a cell  *)
(* that can still be followed to keeps its contents until the interpreter  *)
(* itself writes a pointer into it, and a cell that is handed out is none  *)
(* of those.  There is no free list here and no collector.                 *)
(***************************************************************************)
CONSTANT NoPointer   \* what has no pointers to write: numbers and builtins

VARIABLE content     \* of each cell the interpreter can follow to

Init == content = <<>>

\* Between k and l only cell c came or changed; others are kept or given up.
Only(c, k, l) == \A x \in DOMAIN l \ {c} : x \in DOMAIN k /\ l[x] = k[x]

Alloc(c, k, l) == c \notin DOMAIN k /\ Only(c, k, l)

\* A write sets the head or the tail of a cell.
Write(c, k, l) ==
  /\ c \in DOMAIN k
  /\ Only(c, k, l)
  /\ k[c].typ \notin NoPointer
  /\ l[c] \in {[k[c] EXCEPT !.hd = l[c].hd], [k[c] EXCEPT !.tl = l[c].tl]}

Forget(k, l) == \A x \in DOMAIN l : x \in DOMAIN k /\ l[x] = k[x]

Next ==
  \E k \in {content}, l \in {content'} :
    Forget(k, l) \/ \E c \in DOMAIN l : Alloc(c, k, l) \/ Write(c, k, l)

Spec == Init /\ [][Next]_content
=============================================================================
