----------------------------- MODULE MCLauncher -----------------------------
(* Every command line of up to five characters that is not blank, and what *)
(* another program sends: a name and up to two arguments of up to three.   *)
EXTENDS Launcher

Chars == {"x", SP, DQ, BS}
Strings(n) == UNION {[1..k -> Chars] : k \in 0..n}

MCLines == {s \in Strings(5) : Range(s) \ {SP} # {}}

Name == <<"e", BS, "e">>
MCArguments ==
  {<<Name>>} \cup {<<Name, a>> : a \in Strings(3)}
  \cup {<<Name, a, b>> : a \in Strings(2), b \in Strings(1)}

Exe(d, s, n) == [dir |-> d, sep |-> s, name |-> n]
MCExes == {
  Exe(<<"/", "a">>, "/", <<"f">>), Exe(<<"c", BS, "d">>, BS, <<"f">>),
  Exe(<<>>, "/", <<"f">>), Exe(<<"/", "a", "/", "b", "c">>, "/", <<"f", "f">>)}
=============================================================================
