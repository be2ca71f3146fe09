----------------------------- MODULE LedSettings -----------------------------
(***************************************************************************)
(* What the LED server of samples/led_server_*.c promises: each cog blinks *)
(* one pin at one rate, a whole setting at a time, and takes the settings  *)
(* meant for it one by one, in the order they were given, losing none.     *)
(***************************************************************************)
EXTENDS Sequences

CONSTANTS
  Cogs,        \* the servers
  Setting,     \* records of a pin and a delay
  Off,         \* the setting of a cog at its start
  Scripts,     \* the settings a main program may give, and to whom
  Nobody       \* no message

VARIABLES
  todo,        \* the messages not yet given
  asked,       \* the message given and not yet taken
  setting,     \* what each cog goes by
  lit          \* the pins each cog drives high

vars == <<todo, asked, setting, lit>>

Message == [to : Cogs, set : Setting]

Init ==
  /\ todo \in Scripts
  /\ asked = Nobody
  /\ setting = [c \in Cogs |-> Off]
  /\ lit = [c \in Cogs |-> {}]

Ask ==
  /\ asked = Nobody /\ todo # <<>>
  /\ asked' = Head(todo) /\ todo' = Tail(todo)
  /\ UNCHANGED <<setting, lit>>

Take ==
  /\ asked # Nobody
  /\ setting' = [setting EXCEPT ![asked.to] = asked.set]
  /\ asked' = Nobody
  /\ UNCHANGED <<todo, lit>>

\* A pin is turned over; a delay of zero is no blinking.
Blink(c) ==
  /\ setting[c].delay # 0
  /\ LET p == setting[c].pin IN
     lit' = [lit EXCEPT ![c] = IF p \in @ THEN @ \ {p} ELSE @ \cup {p}]
  /\ UNCHANGED <<todo, asked, setting>>

Next == Ask \/ Take \/ \E c \in Cogs : Blink(c)

Spec == Init /\ [][Next]_vars
=============================================================================
