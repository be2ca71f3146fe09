---------------------------- MODULE MCTermSession ----------------------------
(* Two names: one is made as a term window, a delayed one or a scope, the  *)
(* other as a plot, each also in vain, and lines address one or both.      *)
EXTENDS TermSession

CONSTANTS a, b

MCNames == {a, b}
MCLines ==
  {Plain, Make(a, "term", FALSE, "none"), Make(a, "term", TRUE, "none"),
   Make(a, "term", FALSE, "early"), Make(a, "scope", FALSE, "none"),
   Make(b, "plot", FALSE, "none"), Make(b, "plot", FALSE, "late"),
   Say(<<a>>, <<"text", "update">>), Say(<<a>>, <<"update">>),
   Say(<<a>>, <<"close", "text">>), Say(<<a, b>>, <<"bad">>)}
=============================================================================
