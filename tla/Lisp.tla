-------------------------------- MODULE Lisp --------------------------------
(***************************************************************************)
(* The interpreter of samples/proplisp: reader, evaluator, builtins and    *)
(* printer of lisplib.c, and the two ways lisp.c runs it, a script and the *)
(* line editor of the prompt.                                              *)
(*                                                                         *)
(* The C functions call each other and themselves; here that is a stack of *)
(* frames.  A frame is a point of a function (at), its pointer variables   *)
(* (p), the arguments collected for a builtin (v) and other data (d, n).   *)
(* One step runs up to the next call, return, allocation or write, so a    *)
(* collection can come at every allocation the code makes.  A frame whose  *)
(* function returns what another returns is replaced by that one's.        *)
(*                                                                         *)
(* The collector is conservative: it takes what looks like a pointer on    *)
(* the machine stack for one.  The model gives it what the frames hold and *)
(* the operands of the allocation under way; see README.                   *)
(***************************************************************************)
EXTENDS LispHeap, TLC

CONSTANTS
  Sizes,       \* the numbers of cells an arena may have
  Programs,    \* what is run: its text or keys, the keys that may be typed
               \* before the prompt is back, and the outputs expected
  USE_SETJMP,  \* can a key break an evaluation?
  ScanOperands \* does the stack show the operands of an allocation?

VARIABLES
  lc,          \* globalEnv, globalTrue and globalQuote of the context
  stack,       \* the frames, the running one first
  ret,         \* the cell a call or an allocation has just returned
  prog,        \* the program that runs, 0 before main comes to it
  text, pos,   \* what Lisp_Run reads, and where it is
  line,        \* getOneLine: the characters, parencount and instring
  out,         \* what was printed
  status       \* "run", "done", or "broken": memory is used up

vars == <<heap, lc, stack, ret, prog, text, pos, line, out, status>>

\* The characters of a program, or of what it prints.
Tok(k, c, n) == [k |-> k, s |-> c, n |-> n]
N(n) == Tok("num", "", n)
S(c) == Tok("sym", c, 0)
Q   == Tok("'", "'", 0)
DQ  == Tok("DQ", "DQ", 0)
L   == Tok("(", "(", 0)
R   == Tok(")", ")", 0)
NL  == Tok("NL", "NL", 0)
BS  == Tok("BS", "BS", 0)
Blank == Tok(" ", " ", 0)
End == Tok("end", "", 0)
Brk == Tok("^C", "^C", 0)

\* A frame.
F(at, p) == [at |-> at, p |-> p, v |-> <<>>, d |-> "", n |-> <<>>]

Init ==
  /\ heap \in {InitGC(n) : n \in Sizes}
  /\ lc = [env |-> NULL, true |-> NULL, quote |-> NULL]
  /\ stack = <<F("InitEnv", <<>>)>> /\ ret = NULL
  /\ prog = 0 /\ text = <<>> /\ pos = 1
  /\ line = [buf |-> <<>>, parens |-> 0, instring |-> FALSE]
  /\ out = <<>>
  /\ status = "run"
-----------------------------------------------------------------------------
(* Calls, returns and allocations.                                         *)

At(l) == status = "run" /\ stack[1].at = l
X     == stack[1].p

Goto(f)    == stack' = <<f>> \o Tail(stack) /\ ret' = NULL
Call(f, g) == stack' = <<g, f>> \o Tail(stack) /\ ret' = NULL
Ret(c)     == stack' = Tail(stack) /\ ret' = c

PointersOf(f) == {f.p[x] : x \in DOMAIN f.p} \cup {f.v[i] : i \in DOMAIN f.v}
OnStack(st)   == UNION {PointersOf(st[i]) : i \in DOMAIN st}

\* What doGC starts from, with stack st and operands ops.
Roots(st, ops) == {lc.env} \cup OnStack(st) \cup (IF ScanOperands THEN ops ELSE {})

OutOfMemory == <<S("out of memory!")>>

\* A cell is allocated and set to x; the running frame becomes f(c), or goes.
Allocate(f(_), rest, x) ==
  LET g == GCAlloc(Roots(rest, Pointees(x)))
  IN  /\ out' = out \o (IF g.freeCells < PENDING_ALLOCS THEN OutOfMemory ELSE <<>>)
      /\ IF g.freeList = NULL
         THEN status' = "broken" /\ UNCHANGED <<heap, stack, ret>>
         ELSE /\ heap' = Taken(g, x)
              /\ stack' = f(g.freeList) /\ ret' = g.freeList
              /\ UNCHANGED status

AllocTo(f(_), x) == Allocate(LAMBDA c : <<f(c)>> \o Tail(stack), <<f(NULL)>> \o Tail(stack), x)
AllocRet(x)      == Allocate(LAMBDA c : Tail(stack), Tail(stack), x)

\* Steps that only move in the code.
Moves   == UNCHANGED <<heap, lc, prog, text, pos, line, out, status>>
Builds  == UNCHANGED <<lc, prog, text, pos, line>>
NoAlloc == UNCHANGED <<out, status>>
Says(w) == out' = out \o w /\ UNCHANGED <<heap, lc, prog, text, pos, line, status>>
Reads(n) == pos' = pos + n /\ UNCHANGED <<heap, lc, prog, text, line, out, status>>
Writes  == UNCHANGED <<lc, prog, text, pos, line, out, status>>

\* cdefs and defs: the builtins, and how each wants its arguments: a number,
\* a cell evaluated or not, the environment, or a list of all that remain.
Cdefs == <<
  <<"quote","c">>, <<"lambda","C","C","e">>, <<"gcfree">>, <<"eval","c","e">>,
  <<"print","v">>, <<"define","C","c">>, <<"number?","c">>, <<"pair?","c">>,
  <<"begin","v","e">>, <<"while","C","C","e">>, <<"if","c","C","C","e">>,
  <<"=","c","c">>, <<"<>","c","c">>, <<"<","n","n">>, <<"<=","n","n">>,
  <<">","n","n">>, <<">=","n","n">>, <<"append","c","c">>, <<"cons","c","c">>,
  <<"head","c">>, <<"tail","c">>, <<"set!","C","c","e">>, <<"/","n","n">>,
  <<"*","n","n">>, <<"-","n","n">>, <<"+","n","n">>, <<"dsqr","n","n">> >>

Letters(f) == Tail(Cdefs[CHOOSE i \in DOMAIN Cdefs : Cdefs[i][1] = f])
-----------------------------------------------------------------------------
(* Operators on cells.                                                     *)

IsPair(c)   == Typ(c) \in {"PAIR", "REF"}
IsString(c) == Typ(c) \in {"STRING", "SYMBOL"}
HeadOf(c)   == IF IsPair(c) THEN Hd(c) ELSE NULL
TailOf(c)   == IF IsPair(c) \/ IsString(c) THEN Tl(c) ELSE NULL

RECURSIVE stringCmp(_, _)
stringCmp(a, b) ==
  IF a = NULL \/ b = NULL THEN a = b
  ELSE heap.cell[a].s = heap.cell[b].s /\ stringCmp(Tl(a), Tl(b))

\* doMatch: the same cell, or the same number or characters.
Match(a, b) ==
  \/ a = b
  \/ Typ(a) = Typ(b) /\ Typ(a) = "NUM" /\ Hd(a) = Hd(b)
  \/ Typ(a) = Typ(b) /\ IsString(a) /\ stringCmp(a, b)

\* The definition of name in what follows env, or in its first scope.
RECURSIVE LookIn(_, _, _)
LookIn(name, env, stopOnBoundary) ==
  IF env = NULL \/ (Hd(env) = NULL /\ stopOnBoundary) THEN NULL
  ELSE IF Hd(env) # NULL /\ Match(Hd(Hd(env)), name) THEN Hd(env)
  ELSE LookIn(name, Tl(env), stopOnBoundary)

\* Mutant of doLookup: a parameter of a scope around is one of this scope.
doLookupAll(name, env, stopOnBoundary) ==
  IF Typ(name) = "REF" THEN name ELSE LookIn(name, TailOf(env), FALSE)

doLookup(name, env, stopOnBoundary) ==
  IF Typ(name) = "REF" THEN name ELSE LookIn(name, TailOf(env), stopOnBoundary)

True(b) == IF b THEN lc.true ELSE NULL

Quotient(x, y) ==    \* C: towards zero
  LET q == (IF x < 0 THEN -x ELSE x) \div (IF y < 0 THEN -y ELSE y)
  IN  IF (x < 0) = (y < 0) THEN q ELSE -q
-----------------------------------------------------------------------------
(* Frames of the functions that are called.                                *)

\* Can a key come while an expression is evaluated, and would Eval look?
Peeks == USE_SETJMP /\ Programs[prog].ahead # {}

Read            == F("Read", <<>>)
Eval(e, env)    == F(IF Peeks THEN "Peek" ELSE "Eval", [expr |-> e, env |-> env])
EvalList(l, e)  == F("EvalList", [list |-> l, env |-> e])
LispPrint(c)    == F("Print", [str |-> c])
PrintList(c)    == F("PrintList", [str |-> c])
Define(n, v, e) == F("Define", [name |-> n, val |-> v, env |-> e])
-----------------------------------------------------------------------------
(* doDefine, and Lisp_Init, which is a series of definitions.              *)

DefineStep ==
  \/ /\ At("Define")
     /\ LET x == doLookup(X.name, X.env, TRUE)
        IN  IF x # NULL
            THEN SetTail(x, X.val) /\ Ret(X.val) /\ NoAlloc
            ELSE AllocTo(LAMBDA c : F("Define2", [ref |-> c, val |-> X.val, env |-> X.env]),
                         Ref(X.name, X.val))
     /\ Builds
  \/ /\ At("Define2")
     /\ AllocTo(LAMBDA c : F("Define3", [holder |-> c, val |-> X.val, env |-> X.env]),
                Pair(X.ref, Tl(X.env)))
     /\ Builds
  \/ /\ At("Define3")
     /\ SetTail(X.env, X.holder) /\ Ret(X.val)
     /\ Writes

DefsFrom(i) == [F("Defs", <<>>) EXCEPT !.n = <<i>>]

InitStep ==
  \/ /\ At("InitEnv")
     /\ AllocTo(LAMBDA c : F("InitTrue", [env |-> c]), Pair(NULL, NULL))
     /\ Builds
  \/ /\ At("InitTrue")
     /\ AllocTo(LAMBDA c : F("InitSet", [env |-> X.env, true |-> c]), Str("#t"))
     /\ Builds
  \/ /\ At("InitSet")
     /\ lc' = [env |-> X.env, true |-> X.true, quote |-> NULL]
     /\ Goto(DefsFrom(-1))
     /\ UNCHANGED <<heap, prog, text, pos, line, out, status>>
  \/ /\ At("Defs") /\ stack[1].n[1] <= Len(Cdefs)
     /\ LET i == stack[1].n[1]
            f == CASE i = -1 -> "#t" [] i = 0 -> "nl" [] OTHER -> Cdefs[i][1]
        IN  AllocTo(LAMBDA c : [F("DefsValue", [name |-> c]) EXCEPT !.n = <<i>>], Symbol(f))
     /\ Builds
  \/ /\ At("DefsValue")
     /\ LET i == stack[1].n[1]
            g(c) == [F("DefsDefine", [name |-> X.name, val |-> c]) EXCEPT !.n = <<i>>]
        IN  IF i = -1 THEN Goto(g(lc.true)) /\ NoAlloc /\ UNCHANGED heap
            ELSE AllocTo(g, IF i = 0 THEN Str("nl") ELSE CFunc(X.name, Cdefs[i][1]))
     /\ Builds
  \/ /\ At("DefsDefine")
     /\ lc' = IF stack[1].n[1] = 1 THEN [lc EXCEPT !.quote = X.val] ELSE lc
     /\ Call(DefsFrom(stack[1].n[1] + 1), Define(X.name, X.val, lc.env))
     /\ UNCHANGED <<heap, prog, text, pos, line, out, status>>
  \/ /\ At("Defs") /\ stack[1].n[1] > Len(Cdefs)
     /\ \E p \in DOMAIN Programs :    \* main: a script, or the prompt
          /\ prog' = p
          /\ Goto(IF Programs[p].keys THEN F("REPL", <<>>) ELSE F("Run", [r |-> NULL]))
          /\ text' = IF Programs[p].keys THEN <<>> ELSE Programs[p].text
     /\ UNCHANGED <<heap, lc, pos, line, out, status>>
-----------------------------------------------------------------------------
(* Lisp_Run, and the reader.                                               *)

Next1 == IF pos <= Len(text) THEN text[pos] ELSE End
EndOfList == Next1 \in {R, End}

\* Mutant of Stray: a ")" too many stays.
StrayNever == FALSE

Stray == Next1 = R

\* Lisp_Run: read an item, evaluate it, print it if a script, skip a stray ")".
RunStep ==
  \/ /\ At("Run") /\ Next1 # End
     /\ Call(F("RunEval", <<>>), Read)
     /\ Moves
  \/ /\ At("RunEval")
     /\ Call(F("RunPrint", <<>>), Eval(ret, lc.env))
     /\ Moves
  \/ /\ At("RunPrint")
     /\ IF Programs[prog].keys THEN Goto(F("RunSkip", [r |-> ret]))
        ELSE Call(F("RunSkip", [r |-> ret]), LispPrint(ret))
     /\ Moves
  \/ /\ At("RunSkip")
     /\ IF Stray THEN UNCHANGED <<stack, ret>> /\ Reads(1)
        ELSE Goto(F("Run", [r |-> X.r])) /\ Moves
  \/ /\ At("Run") /\ Next1 = End /\ Programs[prog].keys
     /\ Ret(X.r)
     /\ Moves
  \/ /\ At("Run") /\ Next1 = End /\ ~Programs[prog].keys
     /\ status' = "done"
     /\ UNCHANGED <<heap, lc, stack, ret, prog, text, pos, line, out>>

\* ReadItemFromString.
ReadStep ==
  /\ At("Read")
  /\ \/ /\ Next1 = L
        /\ Goto(F("ReadList", [result |-> NULL]))
        /\ Reads(1)
     \/ /\ EndOfList
        /\ Ret(NULL)
        /\ Moves
     \/ /\ Next1 = Q
        /\ Call(F("ReadQuoted", <<>>), Read)
        /\ Reads(1)
     \/ /\ Next1.k \in {"num", "sym", "DQ"}
        /\ CASE Next1.k = "sym" -> AllocRet(Symbol(Next1.s))
             [] Next1.k = "num" -> AllocTo(LAMBDA c : [F("StringToNum", [str |-> c]) EXCEPT !.n = <<Next1.n>>],
                                       Str("digits"))
             [] Next1.k = "DQ"  -> AllocTo(LAMBDA c : F("ReadString", [result |-> c]), Pair(NULL, NULL))
        /\ pos' = pos + 1 /\ UNCHANGED <<lc, prog, text, line>>

\* StringToNum has passed the end of the string when it allocates.
StringToNum ==
  /\ At("StringToNum")
  /\ Goto([F("CNum", <<>>) EXCEPT !.n = stack[1].n])
  /\ Moves

CNum ==
  /\ At("CNum")
  /\ AllocRet(Num(stack[1].n[1]))
  /\ Builds

ReadQuoted ==
  \/ /\ At("ReadQuoted")
     /\ AllocTo(LAMBDA c : F("ReadQuoted2", [item |-> c]), Pair(ret, NULL))
     /\ Builds
  \/ /\ At("ReadQuoted2")
     /\ AllocRet(Pair(lc.quote, X.item))
     /\ Builds

\* ReadQuotedString: two quotes in a row stand for one.
ReadString ==
  \/ /\ At("ReadString")
     /\ LET twice == Next1 = DQ /\ pos < Len(text) /\ text[pos + 1] = DQ
        IN  IF Next1 \in {DQ, End} /\ ~twice
            THEN Ret(Tl(X.result)) /\ pos' = pos + 1 /\ NoAlloc /\ UNCHANGED heap
            ELSE /\ AllocTo(LAMBDA c : F("ReadString2", [result |-> X.result, char |-> c]),
                            Str(Next1.s))
                 /\ pos' = pos + (IF twice THEN 2 ELSE 1)
     /\ UNCHANGED <<lc, prog, text, line>>
  \/ /\ At("ReadString2")
     /\ SetTail(LastOf(X.result), X.char)
     /\ Goto(F("ReadString", [result |-> X.result]))
     /\ Writes

\* ReadListFromString: an item of NULL before the end is taken for the end.
ReadList ==
  \/ /\ At("ReadList")
     /\ Call(F("ReadList2", X), Read)
     /\ Moves
  \/ /\ At("ReadList2") /\ ret = NULL /\ EndOfList
     /\ Ret(X.result)
     /\ Reads(IF Next1 = R THEN 1 ELSE 0)
  \/ /\ At("ReadList2") /\ ~(ret = NULL /\ EndOfList)
     /\ AllocTo(LAMBDA c : F("ReadList3", [result |-> X.result, x |-> c]), Pair(ret, NULL))
     /\ Builds
  \/ /\ At("ReadList3")
     /\ IF X.result = NULL
        THEN Goto(F("ReadList", [result |-> X.x])) /\ UNCHANGED heap
        ELSE Goto(F("ReadList", [result |-> X.result])) /\ SetTail(LastOf(X.result), X.x)
     /\ Writes
-----------------------------------------------------------------------------
(* Eval and Apply.                                                         *)

\* argMismatch, undefSymbol
Mismatch      == Ret(NULL) /\ Says(<<S("argument mismatch")>>)
Undefined(c)  == Ret(NULL) /\ Says(<<S("Undefined symbol"), S(heap.cell[c].s)>>)

EvalStep ==
  /\ At("Eval")
  /\ \/ /\ Typ(X.expr) = "SYMBOL"
        /\ LET r == doLookup(X.expr, X.env, FALSE)
           IN  IF r = NULL THEN Undefined(X.expr) ELSE Ret(Tl(r)) /\ Moves
     \/ /\ Typ(X.expr) = "PAIR"
        /\ Call(F("Apply", [args |-> Tl(X.expr), env |-> X.env]), Eval(Hd(X.expr), X.env))
        /\ Moves
     \/ /\ Typ(X.expr) \notin {"SYMBOL", "PAIR"}
        /\ Ret(IF Typ(X.expr) = "REF" THEN Tl(X.expr) ELSE X.expr)
        /\ Moves

\* Apply, with the function evaluated: a builtin begins to collect its
\* arguments, a lambda gets a scope.
ApplyStep ==
  /\ At("Apply")
  /\ CASE Typ(ret) = "CFUNC" /\ ret = lc.quote ->
            Ret(IF X.args = NULL THEN NULL ELSE Hd(X.args)) /\ Moves
       [] Typ(ret) = "CFUNC" /\ ret # lc.quote ->
            Goto([F("CFunc", X) EXCEPT !.d = heap.cell[ret].s]) /\ Moves
       [] Typ(ret) = "FUNC" ->
            /\ Goto(F("Scope", [args |-> X.args, env |-> X.env, names |-> Hd(Hd(ret)),
                                outer |-> Tl(Tl(Hd(ret))), body |-> Tl(ret)]))
            /\ Moves
       [] OTHER -> Ret(NULL) /\ Moves

Scope ==
  /\ At("Scope")
  /\ AllocTo(LAMBDA c : F("Bind", [newenv |-> c] @@ X), Pair(NULL, X.outer))
  /\ Builds

\* applyLambda: the parameters are a quoted symbol, a list, or a symbol.
Bind ==
  /\ At("Bind")
  /\ CASE IsPair(X.names) /\ Hd(X.names) = lc.quote ->
            Call(F("Body", [body |-> X.body, env |-> X.newenv]),
                 Define(HeadOf(Tl(X.names)), X.args, X.newenv))
       [] IsPair(X.names) /\ Hd(X.names) # lc.quote ->
            Goto(F("DefineArgs", X))
       [] OTHER ->
            Call(F("BindList", [name |-> X.names, body |-> X.body, env |-> X.newenv]),
                 EvalList(X.args, X.env))
  /\ Moves

BindList ==
  /\ At("BindList")
  /\ Call(F("Body", [body |-> X.body, env |-> X.env]), Define(X.name, ret, X.env))
  /\ Moves

\* DefineArgs and DefineOneArg: a quoted parameter gets its argument as it is.
DefineArgs ==
  \/ /\ At("DefineArgs") /\ X.names # NULL /\ X.args # NULL
     /\ LET name == HeadOf(X.names)
            rest == [X EXCEPT !.names = TailOf(X.names), !.args = TailOf(X.args)]
        IN  IF HeadOf(name) = lc.quote
            THEN Call(F("DefineArgs", rest),
                      Define(HeadOf(TailOf(name)), HeadOf(X.args), X.newenv))
            ELSE Call(F("DefineArg", [name |-> name] @@ rest), Eval(HeadOf(X.args), X.env))
     /\ Moves
  \/ /\ At("DefineArg")
     /\ Call(F("DefineArgs", X), Define(X.name, ret, X.newenv))
     /\ Moves
  \/ /\ At("DefineArgs") /\ X.names = NULL /\ X.args = NULL
     /\ Goto(Eval(X.body, X.newenv))
     /\ Moves
  \/ /\ At("DefineArgs") /\ (X.names = NULL) # (X.args = NULL)
     /\ Mismatch

BodyStep ==
  /\ At("Body")
  /\ Goto(Eval(X.body, X.env))
  /\ Moves

\* EvalList: a list with the values, after a cell that is dropped.
EvalListStep ==
  \/ /\ At("EvalList")
     /\ AllocTo(LAMBDA c : F("Items", [result |-> c] @@ X), Pair(NULL, NULL))
     /\ Builds
  \/ /\ At("Items") /\ X.list # NULL
     /\ LET more == IF IsPair(X.list) THEN Tl(X.list) ELSE NULL
            item == IF IsPair(X.list) THEN Hd(X.list) ELSE X.list
        IN  Goto(F("Item", [X EXCEPT !.list = more] @@ [head |-> item]))
     /\ Moves
  \/ /\ At("Item")
     /\ AllocTo(LAMBDA c : F("Holder", [holder |-> c] @@ X), Pair(NULL, NULL))
     /\ Builds
  \/ /\ At("Holder")
     /\ SetTail(LastOf(X.result), X.holder)
     /\ Call(F("ItemValue", X), Eval(X.head, X.env))
     /\ Writes
  \/ /\ At("ItemValue")
     /\ SetHead(X.holder, ret)
     /\ Goto(F("Items", [list |-> X.list, env |-> X.env, result |-> X.result]))
     /\ Writes
  \/ /\ At("Items") /\ X.list = NULL
     /\ Ret(Tl(X.result))
     /\ Moves
-----------------------------------------------------------------------------
(* applyCfunc and the builtins.                                            *)

\* The arguments so far, as pointers and as numbers.
Args   == stack[1].v
Nums   == stack[1].n
More   == SubSeq(Letters(stack[1].d), Len(Args) + 1, Len(Letters(stack[1].d)))

\* The frame with one argument more, c or n, and what is left of the list.
Collected(c, n, rest) ==
  [stack[1] EXCEPT !.at = "CFunc", !.v = Append(@, c), !.n = Append(@, n), !.p.args = rest]

First == IF X.args = NULL THEN NULL ELSE Hd(X.args)
Rest  == IF X.args = NULL THEN NULL ELSE Tl(X.args)

CFuncStep ==
  \/ /\ At("CFunc") /\ More # <<>>
     /\ CASE More[1] = "e" -> Goto(Collected(X.env, 0, X.args))
          [] More[1] = "C" -> Goto(Collected(First, 0, Rest))
          [] More[1] = "v" -> Call([stack[1] EXCEPT !.at = "CList"], EvalList(X.args, X.env))
          [] OTHER         -> Call([stack[1] EXCEPT !.at = "CArg"], Eval(First, X.env))
     /\ Moves
  \/ /\ At("CList")
     /\ Goto(Collected(ret, 0, NULL))
     /\ Moves
  \/ /\ At("CArg")
     /\ CASE More[1] = "c"                      -> Goto(Collected(ret, 0, Rest)) /\ Moves
          [] More[1] = "n" /\ Typ(ret) = "NUM" -> Goto(Collected(NULL, Hd(ret), Rest)) /\ Moves
          [] OTHER                              -> Mismatch
  \/ /\ At("CFunc") /\ More = <<>> /\ X.args # NULL
     /\ Mismatch

\* All arguments are there for one of the builtins fs.
Ready(fs) == At("CFunc") /\ More = <<>> /\ X.args = NULL /\ stack[1].d \in fs

\* IsNumber, IsPair, Match, NoMatch, Head, Tail, Lt, Le, Gt, Ge
Tests ==
  /\ Ready({"number?", "pair?", "=", "<>", "head", "tail", "<", "<=", ">", ">="})
  /\ LET f == stack[1].d
     IN  Ret(CASE f = "number?" -> IF Typ(Args[1]) = "NUM" THEN Args[1] ELSE NULL
               [] f = "pair?"   -> IF IsPair(Args[1]) THEN Args[1] ELSE NULL
               [] f = "="       -> True(Match(Args[1], Args[2]))
               [] f = "<>"      -> True(~Match(Args[1], Args[2]))
               [] f = "head"    -> HeadOf(Args[1])
               [] f = "tail"    -> TailOf(Args[1])
               [] f = "<"       -> True(Nums[1] < Nums[2])
               [] f = "<="      -> True(Nums[1] <= Nums[2])
               [] f = ">"       -> True(Nums[1] > Nums[2])
               [] f = ">="      -> True(Nums[1] >= Nums[2]))
  /\ Moves

\* Plus, Minus, Times, Div, testfunc, and CNum of what they return.
Arithmetic ==
  /\ Ready({"+", "-", "*", "/", "dsqr"})
  /\ stack[1].d = "/" => Nums[2] # 0
  /\ LET f == stack[1].d  x == Nums[1]  y == Nums[2]
         r == CASE f = "+" -> x + y [] f = "-" -> x - y [] f = "*" -> x * y
                [] f = "/" -> Quotient(x, y) [] f = "dsqr" -> x * x + y * y
     IN  Goto([F("CNum", <<>>) EXCEPT !.n = <<r>>])
  /\ Moves

GCFree ==
  /\ Ready({"gcfree"})
  /\ heap' = doGC(Roots(stack, {}))
  /\ Goto([F("CNum", <<>>) EXCEPT !.n = <<heap'.freeCells>>])
  /\ Writes

ConsStep ==
  \/ /\ Ready({"cons"})
     /\ Goto(F("Cons", [head |-> Args[1], tail |-> Args[2]]))
     /\ Moves
  \/ /\ At("Cons")
     /\ AllocRet(Pair(X.head, X.tail))
     /\ Builds

Lambda ==
  \/ /\ Ready({"lambda"})
     /\ AllocTo(LAMBDA c : F("Lambda2", [args |-> Args[1], body |-> Args[2], newenv |-> c]),
                Pair(NULL, Args[3]))
     /\ Builds
  \/ /\ At("Lambda2")
     /\ AllocTo(LAMBDA c : F("Lambda3", [body |-> X.body, descrip |-> c]), Pair(X.args, X.newenv))
     /\ Builds
  \/ /\ At("Lambda3")
     /\ AllocRet(Func(X.descrip, X.body))
     /\ Builds

\* Eval, PrintList, Define, Sequence, If, While: the frame they go on as.
Controls ==
  /\ Ready({"eval", "print", "define", "begin", "if", "while"})
  /\ LET f == stack[1].d
     IN  Goto(CASE f = "eval"   -> Eval(Args[1], Args[2])
                [] f = "print"  -> PrintList(Args[1])
                [] f = "define" -> Define(Args[1], Args[2], lc.env)
                [] f = "begin"  -> F("Sequence", [list |-> Args[1], env |-> Args[2], r |-> NULL])
                [] f = "if"     -> Eval(IF Args[1] # NULL THEN Args[2] ELSE Args[3], Args[4])
                [] f = "while"  -> F("While", [cond |-> Args[1], body |-> Args[2],
                                               env |-> Args[3], r |-> NULL]))
  /\ Moves

\* Append on pairs and strings; on a number its bits would be a tail.
AppendStep ==
  /\ Ready({"append"})
  /\ IF Args[1] = NULL THEN Ret(Args[2]) /\ UNCHANGED heap
     ELSE SetTail(LastOf(Args[1]), Args[2]) /\ Ret(Args[1])
  /\ Writes

SetBang ==
  /\ Ready({"set!"})
  /\ LET x == doLookup(Args[1], Args[3], FALSE)
     IN  IF x = NULL THEN Undefined(Args[1])
         ELSE SetTail(x, Args[2]) /\ Ret(Args[2]) /\ Writes

Sequence ==
  \/ /\ At("Sequence")
     /\ IF X.list = NULL THEN Ret(X.r)
        ELSE Call(F("SequenceNext", [list |-> TailOf(X.list), env |-> X.env]),
                  Eval(HeadOf(X.list), X.env))
     /\ Moves
  \/ /\ At("SequenceNext")
     /\ Goto(F("Sequence", [r |-> ret] @@ X))
     /\ Moves

While ==
  \/ /\ At("While")
     /\ Call(F("WhileTest", X), Eval(X.cond, X.env))
     /\ Moves
  \/ /\ At("WhileTest")
     /\ IF ret = NULL THEN Ret(X.r) ELSE Call(F("WhileBody", X), Eval(X.body, X.env))
     /\ Moves
  \/ /\ At("WhileBody")
     /\ Goto(F("While", [X EXCEPT !.r = ret]))
     /\ Moves
-----------------------------------------------------------------------------
(* Lisp_Print and PrintList.                                               *)

RECURSIVE Chars(_)
Chars(c) == IF c = NULL THEN <<>> ELSE <<S(heap.cell[c].s)>> \o Chars(Tl(c))

PrintStep ==
  /\ At("Print")
  /\ CASE Typ(X.str) = "NUM" ->
            Goto([F("NumToString", <<>>) EXCEPT !.n = <<Hd(X.str)>>]) /\ Moves
       [] IsString(X.str)      -> Ret(lc.true) /\ Says(Chars(X.str))
       [] Typ(X.str) = "REF"   -> Goto(LispPrint(Hd(X.str))) /\ Moves
       [] Typ(X.str) = "CFUNC" -> Ret(lc.true) /\ Says(Chars(Hd(X.str)))
       [] Typ(X.str) = "FUNC"  -> Ret(lc.true) /\ Says(<<S("#<lambda>")>>)
       [] OTHER -> Call(F("PrintEnd", <<>>), PrintList(X.str)) /\ Says(<<L>>)

NumToString ==
  \/ /\ At("NumToString")
     /\ AllocTo(LAMBDA c : [stack[1] EXCEPT !.at = "PrintNum", !.p = [str |-> c]], Str("digits"))
     /\ Builds
  \/ /\ At("PrintNum")
     /\ Ret(lc.true)
     /\ Says(<<N(stack[1].n[1])>>)

PrintEnd ==
  /\ At("PrintEnd")
  /\ Ret(lc.true)
  /\ Says(<<R>>)

PrintListStep ==
  /\ At("PrintList")
  /\ CASE X.str = NULL        -> Ret(lc.true) /\ Moves
       [] Typ(X.str) = "PAIR" -> Call(PrintList(Tl(X.str)), LispPrint(Hd(X.str))) /\ Moves
       [] OTHER               -> Call(PrintList(NULL), LispPrint(X.str)) /\ Says(<<S(".")>>)
-----------------------------------------------------------------------------
(* lisp.c: the prompt.  A key that is typed ahead may come at the prompt,   *)
(* or while an expression is evaluated.                                    *)

KeyAt(i) == IF i <= Len(Programs[prog].text) THEN Programs[prog].text[i] ELSE End
Key == KeyAt(pos)

TypeKey(l) ==
  /\ line' = l
  /\ pos' = pos + 1
  /\ UNCHANGED <<heap, lc, stack, ret, prog, text, out, status>>

\* One key into the line, and what it does to the count.
Typed ==
  /\ At("REPL") /\ Key \notin {End, Brk, NL, BS}
  /\ TypeKey([buf |-> Append(line.buf, Key),
              parens |-> IF line.instring THEN line.parens
                         ELSE line.parens + (CASE Key = L -> 1 [] Key = R -> -1 [] OTHER -> 0),
              instring |-> IF Key = DQ THEN ~line.instring ELSE line.instring])

\* Backspace takes the count back for a parenthesis, in a string as well.
Backspace ==
  /\ At("REPL") /\ Key = BS
  /\ LET c == line.buf[Len(line.buf)]
     IN  TypeKey(IF line.buf = <<>> THEN line ELSE
           [buf |-> SubSeq(line.buf, 1, Len(line.buf) - 1),
            parens |-> line.parens + (CASE c = L -> -1 [] c = R -> 1 [] OTHER -> 0),
            instring |-> IF c = DQ THEN ~line.instring ELSE line.instring])

\* Enter goes on with the expression, as far in as it has parentheses, or
\* hands it to Lisp_Run; no string of these programs goes over a line's end.
Enter ==
  /\ At("REPL") /\ Key = NL
  /\ IF line.parens > 0
     THEN TypeKey([line EXCEPT !.buf = @ \o <<NL>> \o [i \in 1..line.parens |-> Blank]])
     ELSE /\ text' = SelectSeq(line.buf, LAMBDA c : c \notin {NL, Blank})
          /\ line' = [line EXCEPT !.buf = <<>>]
          /\ Call([F("Prompt", <<>>) EXCEPT !.n = <<pos + 1>>], F("Run", [r |-> NULL]))
          /\ pos' = 1
          /\ UNCHANGED <<heap, lc, prog, out, status>>

\* The result has been read, evaluated, and is printed; back to the keys.
Prompt ==
  /\ At("Prompt")
  /\ Call(F("REPL", <<>>), LispPrint(ret))
  /\ pos' = stack[1].n[1]
  /\ line' = [buf |-> <<>>, parens |-> 0, instring |-> FALSE]
  /\ UNCHANGED <<heap, lc, prog, text, out, status>>

\* Where USE_SETJMP is on, each Eval looks at the keyboard first.  A key that
\* has come is taken: ^C goes back to Lisp_Run, and any other is lost.
Prompted == stack[Len(stack)]
Typing   == KeyAt(Prompted.n[1])
KeyTaken == [Prompted EXCEPT !.n[1] = @ + 1]
Arrived  == At("Peek") /\ Prompted.n[1] \in Programs[prog].ahead

NoKey ==
  /\ At("Peek")
  /\ Goto([stack[1] EXCEPT !.at = "Eval"])
  /\ Moves

LosesKey ==
  /\ Arrived /\ Typing # Brk
  /\ stack' = <<[stack[1] EXCEPT !.at = "Eval"]>> \o SubSeq(stack, 2, Len(stack) - 1) \o <<KeyTaken>>
  /\ ret' = NULL
  /\ Moves

Break ==
  /\ Arrived /\ Typing = Brk
  /\ stack' = <<KeyTaken>> /\ ret' = NULL
  /\ Says(<<S("break")>>)

Quit ==
  /\ At("REPL") /\ Key \in {End, Brk}
  /\ status' = "done"
  /\ UNCHANGED <<heap, lc, stack, ret, prog, text, pos, line, out>>
-----------------------------------------------------------------------------
Next ==
  \/ InitStep \/ DefineStep \/ RunStep
  \/ ReadStep \/ StringToNum \/ CNum \/ ReadQuoted \/ ReadString \/ ReadList
  \/ EvalStep \/ ApplyStep \/ Scope \/ Bind \/ BindList \/ DefineArgs \/ BodyStep \/ EvalListStep
  \/ CFuncStep \/ Tests \/ Arithmetic \/ GCFree \/ ConsStep \/ Lambda \/ Controls
  \/ AppendStep \/ SetBang \/ Sequence \/ While
  \/ PrintStep \/ NumToString \/ PrintEnd \/ PrintListStep
  \/ Typed \/ Backspace \/ Enter \/ Prompt
  \/ NoKey \/ LosesKey \/ Break \/ Quit

Spec == Init /\ [][Next]_vars /\ WF_vars(Next)
-----------------------------------------------------------------------------
(* Properties.                                                             *)

\* What the interpreter can follow to: from its frames and the context, and
\* through a builtin to its name.
Live ==
  Closure(Pointees, {lc.env, lc.true, lc.quote, ret} \cup OnStack(stack))

\* The free list has the cells freeCells counts, and none that the
\* interpreter can still follow to: not a cell of a call under way, not the
\* name of a builtin, not "#t" and quote, which only the environment keeps.
FreeListOK ==
  /\ Cardinality(Free) = heap.freeCells
  /\ Free \cap Live = {}

\* The heap is an arena for the interpreter.
A == INSTANCE Arena WITH
  NoPointer <- {"NUM", "CFUNC"}, content <- [c \in Live |-> heap.cell[c]]

IsArena == A!Spec

\* A program prints what it should, wherever collections came in.
Answers ==
  status = "done" =>
    SelectSeq(out, LAMBDA t : <<t>> # OutOfMemory) \in Programs[prog].out

\* Every program of these, each of which ends, comes to its end.
Ends == <>(status # "run")
=============================================================================
