------------------------------ MODULE LispHeap ------------------------------
(***************************************************************************)
(* The cells of samples/proplisp/lisplib.c: a free list threaded through   *)
(* their tails, and a collector that marks what globalEnv and the machine  *)
(* stack lead to.  A pointer is the number of a cell, NULL is 0.  Head and *)
(* tail are hd and tl; a character, a symbol's name and a builtin's entry  *)
(* are in s, a number is in hd.  A string or symbol read as one token is   *)
(* one cell, not one for each character.                                   *)
(***************************************************************************)
EXTENDS Integers, Sequences, FiniteSets, FiniteSetsExt

CONSTANTS
  PENDING_ALLOCS,   \* collect when fewer cells than this are free
  NumHalf           \* numbers are -NumHalf..NumHalf-1: 28 bits in the code

VARIABLE heap       \* the cells, and freeList and freeCells of the context

NULL == 0

Pair(h, t)   == [typ |-> "PAIR", hd |-> h, tl |-> t, s |-> ""]
Ref(h, t)    == [typ |-> "REF", hd |-> h, tl |-> t, s |-> ""]
Func(h, t)   == [typ |-> "FUNC", hd |-> h, tl |-> t, s |-> ""]
CFunc(h, f)  == [typ |-> "CFUNC", hd |-> h, tl |-> NULL, s |-> f]
Str(c)       == [typ |-> "STRING", hd |-> 0, tl |-> NULL, s |-> c]
Symbol(c)    == [typ |-> "SYMBOL", hd |-> 0, tl |-> NULL, s |-> c]
Num(n)       == [typ |-> "NUM", tl |-> NULL, s |-> "",
                 hd |-> ((n + NumHalf) % (2 * NumHalf)) - NumHalf]

Cells   == DOMAIN heap.cell
Typ(c)  == IF c = NULL THEN "NIL" ELSE heap.cell[c].typ
Hd(c)   == heap.cell[c].hd
Tl(c)   == heap.cell[c].tl

\* Where the interpreter can go from a cell.
Pointees(x) ==
  CASE x.typ \in {"REF", "PAIR", "FUNC"} -> {x.hd, x.tl}
    [] x.typ \in {"STRING", "SYMBOL"}    -> {x.tl}
    [] x.typ = "CFUNC"                   -> {x.hd}
    [] OTHER                             -> {}

\* Mutant of Marks: a lambda is marked like a string.
MarksFuncTail(x) ==
  CASE x.typ \in {"REF", "PAIR"}              -> {x.hd, x.tl}
    [] x.typ \in {"FUNC", "STRING", "SYMBOL"} -> {x.tl}
    [] OTHER                                  -> {}

\* Where MarkUsed goes from a cell: not to the name of a builtin.
Marks(x) ==
  CASE x.typ \in {"REF", "PAIR", "FUNC"} -> {x.hd, x.tl}
    [] x.typ \in {"STRING", "SYMBOL"}    -> {x.tl}
    [] OTHER                             -> {}

\* The cells that To leads to from some, directly or not.
Closure(To(_), some) ==
  LET next == [c \in Cells |-> To(heap.cell[c]) \ {NULL}]
      from[used \in SUBSET Cells, new \in SUBSET Cells] ==
        IF new = {} THEN used
        ELSE from[used \cup new, UNION {next[c] : c \in new} \ (used \cup new)]
  IN  from[{}, some \ {NULL}]

MarkUsed(roots) == Closure(Marks, roots)

Highest(S) == IF S = {} THEN NULL ELSE Max(S)

\* Mutant of CollectFree: the count goes on from the old one.
CollectFreeAdds(used) ==
  LET free == Cells \ used
  IN  [cell |-> [c \in Cells |-> IF c \in used THEN heap.cell[c]
                   ELSE [heap.cell[c] EXCEPT !.tl = Highest({d \in free : d < c})]],
       freeList |-> Highest(free), freeCells |-> heap.freeCells + Cardinality(free)]

\* The sweep: the free list goes from the highest free cell down.
CollectFree(used) ==
  LET free == Cells \ used
  IN  [cell |-> [c \in Cells |-> IF c \in used THEN heap.cell[c]
                   ELSE [heap.cell[c] EXCEPT !.tl = Highest({d \in free : d < c})]],
       freeList |-> Highest(free), freeCells |-> Cardinality(free)]

doGC(roots) == CollectFree(MarkUsed(roots))

\* GCAlloc: the heap the cell is taken from.
GCAlloc(roots) == IF heap.freeCells < PENDING_ALLOCS THEN doGC(roots) ELSE heap

\* Heap h with its first free cell taken and set to x.
Taken(h, x) ==
  [cell |-> [h.cell EXCEPT ![h.freeList] = x],
   freeList |-> h.cell[h.freeList].tl, freeCells |-> h.freeCells - 1]

\* InitGC on n cells, the one it reserves not counted.
InitGC(n) ==
  [cell |-> [c \in 1..n |-> Pair(NULL, c - 1)], freeList |-> n, freeCells |-> n]

SetTail(p, v) == heap' = [heap EXCEPT !.cell[p].tl = v]
SetHead(p, v) == heap' = [heap EXCEPT !.cell[p].hd = v]

RECURSIVE LastOf(_)
LastOf(p) == IF Tl(p) = NULL THEN p ELSE LastOf(Tl(p))

\* The free list as a set of cells.
Free == Closure(LAMBDA x : {x.tl}, {heap.freeList})
=============================================================================
