---------------------------- MODULE MCLedServer ----------------------------
EXTENDS LedServer

\* Every three calls with one pin or another, fast, slow or not at all, and the
\* four that main makes in led_server_asm.c.
MCCall(c, p, d) == [to |-> c, set |-> [pin |-> p, delay |-> d]]
MCMessages == {MCCall(c, p, d) : c \in Cogs, p \in {56, 57}, d \in {0, 8}}
MCScripts ==
  [1..3 -> MCMessages] \cup
  {<<MCCall(1, 56, 2), MCCall(2, 57, 3), MCCall(1, 56, 8), MCCall(2, 57, 0)>>}
=============================================================================
