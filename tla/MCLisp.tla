------------------------------- MODULE MCLisp -------------------------------
(* Programs for Lisp, examples of proplisp's README among them, each with  *)
(* what the code prints for it.                                            *)
EXTENDS Lisp

Script(t, o) == [keys |-> FALSE, text |-> t, ahead |-> {}, out |-> {o}]
Keys(t, o)   == [keys |-> TRUE, text |-> t, ahead |-> {}, out |-> {o}]

\* The keys of the line w, then ks before the prompt is back, then t.
TypedAhead(w, ks, t, os) ==
  [keys |-> TRUE, text |-> w \o ks \o t, out |-> os,
   ahead |-> Len(w) + 1 .. Len(w) + Len(ks)]

Of(e)     == <<L>> \o e \o <<R>>
Call0(f)  == <<L, S(f), R>>
Set(x, e) == Of(<<S("define"), S(x)>> \o e)
Lam(p, e) == Of(<<S("lambda")>> \o p \o e)
Do(f, x, y) == Of(<<S(f)>> \o x \o y)
lambda    == S("#<lambda>")

\* README, Lambda: all parameters evaluated, then all of them as they are.
Lambdas == Script(
  Set("a", <<N(1)>>) \o Set("f", Lam(<<S("x")>>, <<S("x")>>)) \o Of(<<S("f"), S("a"), N(2)>>)
  \o Set("f", Lam(<<Q, S("x")>>, <<S("x")>>)) \o Of(<<S("f"), S("a"), S("b")>>),
  <<N(1), lambda, L, N(1), N(2), R, lambda, L, S("a"), S("b"), R>>)

\* One parameter evaluated and one not, a wrong number of them, no function.
Parameters == Script(
  Set("f", Lam(Of(<<S("x"), Q, S("y")>>), Do("cons", <<S("x")>>, <<S("y")>>)))
  \o Do("f", <<S("nl")>>, <<S("b")>>) \o Of(<<S("f"), N(1)>>) \o Of(<<S("b")>>)
  \o Of(<<N(1), N(2)>>) \o Do("set!", <<S("c")>>, <<N(1)>>) \o Do("+", <<N(1)>>, <<L, R>>)
  \o Do("head", <<N(1)>>, <<N(2)>>),
  <<lambda, L, S("nl"), S("."), S("b"), R>>
  \o <<S("argument mismatch"), L, R, S("Undefined symbol"), S("b"), L, R, L, R>>
  \o <<S("Undefined symbol"), S("c"), L, R, S("argument mismatch"), L, R>>
  \o <<S("argument mismatch"), L, R>>)

\* README, Scoping, with a closure over a parameter.
Scoping == Script(
  Set("mk", Lam(Of(<<S("n")>>), Lam(<<L, R>>, Do("set!", <<S("n")>>, Do("*", <<S("n")>>, <<N(-9)>>)))))
  \o Set("n", <<N(5)>>) \o Set("g", Of(<<S("mk"), N(7)>>))
  \o Call0("g") \o Call0("g") \o <<S("n")>>,
  <<lambda, N(5), lambda, N(-63), N(55), N(5)>>)

\* A loop that leaves garbage, and begin.
Loop == Script(
  Set("i", <<N(3)>>) \o Set("l", <<L, R>>)
  \o Of(<<S("while")>> \o Do(">", <<S("i")>>, <<N(0)>>) \o
       Do("begin", Do("set!", <<S("l")>>, Do("cons", <<S("i")>>, <<S("l")>>)),
                   Do("set!", <<S("i")>>, Do("-", <<S("i")>>, <<N(1)>>))))
  \o <<S("l")>>,
  <<N(3), L, R, N(0), L, N(1), N(2), N(3), R>>)

\* A function that calls itself.
Recursion == Script(
  Set("f", Lam(Of(<<S("n")>>), Of(<<S("if")>> \o Do("<", <<S("n")>>, <<N(2)>>) \o <<N(1)>>
      \o Do("+", Of(<<S("f")>> \o Do("-", <<S("n")>>, <<N(1)>>)),
                 Of(<<S("f")>> \o Do("-", <<S("n")>>, <<N(2)>>))))))
  \o Of(<<S("f"), N(3)>>),
  <<lambda, N(3)>>)

\* Lists and strings, where two quotes stand for one, and eval.
Lists == Script(
  Of(<<S("append"), DQ, S("o"), DQ, DQ, S("k"), DQ>>)
  \o Set("l", Do("append", <<L, R>>, <<Q>> \o Of(<<N(1), N(2)>>)))
  \o Do("append", <<S("l")>>, Do("cons", Of(<<S("head"), S("l")>>), <<L, R>>))
  \o Of(<<S("print"), S("l"), S("nl")>>)
  \o Of(<<S("eval"), Q>> \o Do("=", <<N(2)>>, <<N(2)>>))
  \o Of(<<S("pair?")>> \o Call0("gcfree")),
  <<S("o"), S("DQ"), S("k"), L, N(1), N(2), R, L, N(1), N(2), N(1), R>>
  \o <<L, N(1), N(2), N(1), R, S("nl"), S("#t"), S("#t"), L, R>>)

\* A session: a line in two parts, one with a parenthesis taken back, one
\* with one in a string, and one too many.  A backspace takes the blank that
\* Enter has put in, the next one goes back a line.
Session == Keys(
  <<L, S("define"), S("x"), NL, L, S("quote"), L, BS, S("s"), R, R, NL>>
  \o <<BS, S("x"), R, NL, DQ, S("a"), L, DQ, NL, L, NL, BS, BS, S("/"), N(-7), N(2), R, NL>>,
  <<S("s"), S("s"), S("a"), S("("), N(-3)>>)

\* An evaluation that ^C breaks before it, in the middle, or not at all; the
\* key typed before it is lost then.  At the prompt ^C is the end.
Breaks == TypedAhead(
  Set("x", <<N(1)>>) \o <<NL>> \o Do("+", Do("set!", <<S("x")>>, <<N(2)>>), Do("set!", <<S("x")>>, <<N(3)>>))
  \o <<NL>>, <<Q, Brk>>, <<S("x"), NL>>,
  {<<N(1), S("break"), L, R, N(1)>>, <<N(1), S("break"), L, R, N(2)>>, <<N(1), N(5)>>})

\* The first key of a line comes while the line before it is evaluated, and
\* is lost, or after.
Ahead == TypedAhead(
  Set("x", <<N(1)>>) \o <<NL, S("x"), NL>>, <<L>>, <<S("+"), N(1), S("x"), R, NL>>,
  {<<N(1), N(1), N(2)>>, <<N(1), N(1), N(1)>>})

\* A list that grows until memory is used up.
Grows == Script(
  Set("l", <<L, R>>) \o
  Of(<<S("while"), S("#t")>> \o Do("set!", <<S("l")>>, Do("cons", <<N(1)>>, <<S("l")>>))),
  <<>>)

MCPrograms == <<Lambdas, Parameters, Scoping, Loop, Recursion, Lists, Session, Breaks, Ahead, Grows>>
=============================================================================
