------------------------------ MODULE LedServer ------------------------------
(***************************************************************************)
(* samples/led_server_asm.c, and its twins in __pasm and BASIC: a main     *)
(* program tells cogs, each running the assembly loop at "entry", which    *)
(* pin to blink and how fast, by a mailbox of three longs in hub memory    *)
(* and no lock.  Every access to the hub is a step of its own.             *)
(*                                                                         *)
(* Clock cycles are left out: waitct1 and the pauses of main take any      *)
(* time.  The wait is never over before it begins, which "fge tmp, #100"   *)
(* is there for, so it always ends.                                        *)
(***************************************************************************)
EXTENDS Naturals, Sequences

CONSTANTS
  Cogs,        \* the cogs main has started
  Pins,        \* the pins it may name
  Delays,      \* the delays it may name
  Scripts,     \* the calls of update_mbox a main program may make, in order
  Nobody       \* no message

Setting == [pin : Pins, delay : Delays]
Message == [to : Cogs, set : Setting]
Off     == [pin |-> 0, delay |-> 0]

ASSUME LedAssumption ==
  /\ 0 \in Pins /\ 0 \in Delays
  /\ Scripts \subseteq Seq(Message)
  /\ Nobody \notin Message

VARIABLES
  todo,        \* the calls of update_mbox still to end, the current one first
  main,        \* where main stands in it
  mbox,        \* the mailbox of each cog: cmd, pin and delay
  cog,         \* each cog: where it stands, and its registers pin and delay
  lit          \* the pins each cog drives high

vars == <<todo, main, mbox, cog, lit>>

TypeOK ==
  /\ todo \in Seq(Message)
  /\ main \in {"pin", "delay", "cmd", "wait"}
  /\ mbox \in [Cogs -> [cmd : {0, 1}, pin : Pins, delay : Delays]]
  /\ cog \in [Cogs -> [at : {"mainloop", "poll", "pin", "delay", "ack", "waitct1"},
                       pin : Pins, delay : Delays]]
  /\ lit \in [Cogs -> SUBSET Pins]

\* Mailboxes are globals, and registers are loaded with the code: all zero.
Init ==
  /\ todo \in Scripts
  /\ main = "pin"
  /\ mbox = [c \in Cogs |-> [cmd |-> 0, pin |-> 0, delay |-> 0]]
  /\ cog = [c \in Cogs |-> [at |-> "mainloop", pin |-> 0, delay |-> 0]]
  /\ lit = [c \in Cogs |-> {}]
-----------------------------------------------------------------------------
(* main, in update_mbox.                                                   *)

Box == Head(todo).to
New == Head(todo).set

\* main, at a, does what changes its mailbox to b and goes on at next.
MainStep(a, b, next) ==
  /\ todo # <<>> /\ main = a
  /\ mbox' = [mbox EXCEPT ![Box] = b]
  /\ main' = next
  /\ UNCHANGED <<todo, cog, lit>>

PutPin   == MainStep("pin", [mbox[Box] EXCEPT !.pin = New.pin], "delay")
PutDelay == MainStep("delay", [mbox[Box] EXCEPT !.delay = New.delay], "cmd")
PutCmd   == MainStep("cmd", [mbox[Box] EXCEPT !.cmd = 1], "wait")

\* Mutant of Noticed: update_mbox does not wait.
NoticedAtOnce ==
  /\ todo # <<>> /\ main = "wait"
  /\ main' = "pin" /\ todo' = Tail(todo)
  /\ UNCHANGED <<mbox, cog, lit>>

\* "wait for the COG to notice our change": the loop that polls cmd ends.
Noticed ==
  /\ todo # <<>> /\ main = "wait" /\ mbox[Box].cmd = 0
  /\ main' = "pin" /\ todo' = Tail(todo)
  /\ UNCHANGED <<mbox, cog, lit>>

Main == PutPin \/ PutDelay \/ PutCmd \/ Noticed
-----------------------------------------------------------------------------
(* A cog, from "entry" on.                                                 *)

CogStep(c, a, r) ==
  /\ cog[c].at = a
  /\ cog' = [cog EXCEPT ![c] = r]
  /\ UNCHANGED <<todo, main>>

\* cmp delay, #0 and if_nz drvnot pin.
Toggle(c) ==
  /\ CogStep(c, "mainloop", [cog[c] EXCEPT !.at = "poll"])
  /\ LET p == cog[c].pin IN
     lit' = IF cog[c].delay = 0 THEN lit
            ELSE [lit EXCEPT ![c] = IF p \in @ THEN @ \ {p} ELSE @ \cup {p}]
  /\ UNCHANGED mbox

\* rdlong tmp, ptra and if_z jmp #no_new_cmd.
Poll(c) ==
  /\ CogStep(c, "poll", [cog[c] EXCEPT !.at = IF mbox[c].cmd = 0 THEN "waitct1" ELSE "pin"])
  /\ UNCHANGED <<mbox, lit>>

GetPin(c) ==
  /\ CogStep(c, "pin", [at |-> "delay", pin |-> mbox[c].pin, delay |-> cog[c].delay])
  /\ UNCHANGED <<mbox, lit>>

GetDelay(c) ==
  /\ CogStep(c, "delay", [at |-> "ack", pin |-> cog[c].pin, delay |-> mbox[c].delay])
  /\ UNCHANGED <<mbox, lit>>

\* Mutant of Ack: the command is never zeroed.
AckNot(c) ==
  /\ CogStep(c, "ack", [cog[c] EXCEPT !.at = "waitct1"])
  /\ UNCHANGED <<mbox, lit>>

\* wrlong #0, ptra.
Ack(c) ==
  /\ CogStep(c, "ack", [cog[c] EXCEPT !.at = "waitct1"])
  /\ mbox' = [mbox EXCEPT ![c].cmd = 0]
  /\ UNCHANGED lit

WaitCt1(c) ==
  /\ CogStep(c, "waitct1", [cog[c] EXCEPT !.at = "mainloop"])
  /\ UNCHANGED <<mbox, lit>>

Cog(c) == Toggle(c) \/ Poll(c) \/ GetPin(c) \/ GetDelay(c) \/ Ack(c) \/ WaitCt1(c)

Next == Main \/ \E c \in Cogs : Cog(c)

\* Every cog has a processor of its own, and so has main.
Spec == Init /\ [][Next]_vars /\ WF_vars(Main) /\ \A c \in Cogs : WF_vars(Cog(c))
-----------------------------------------------------------------------------
(* Properties.                                                             *)

\* A cog takes a setting when it reads the pin; until it has the delay too,
\* the mailbox holds the rest.
Set(c) ==
  [pin   |-> cog[c].pin,
   delay |-> IF cog[c].at = "delay" THEN mbox[c].delay ELSE cog[c].delay]

Pending ==
  /\ todo # <<>> /\ main = "wait" /\ mbox[Box].cmd = 1
  /\ cog[Box].at \notin {"delay", "ack"}

Abstract == INSTANCE LedSettings WITH
  todo    <- IF main = "wait" THEN Tail(todo) ELSE todo,
  asked   <- IF Pending THEN Head(todo) ELSE Nobody,
  setting <- [c \in Cogs |-> Set(c)]

\* update_mbox and the loop of the cog: no cog ever blinks with the pin of one
\* command and the delay of another, and every command given by update_mbox is
\* taken once, by the cog it was for, and before the next one is given.
IsLedSettings == Abstract!Spec

\* The spin loop of update_mbox always ends, and from then on a cog that was
\* given a delay turns its pin on and off for ever.
BlinksAsTold ==
  /\ <>(todo = <<>>)
  /\ \A c \in Cogs, p \in Pins :
       LET told == todo = <<>> /\ cog[c].delay # 0 /\ cog[c].pin = p IN
       /\ told ~> (p \in lit[c])
       /\ told ~> (p \notin lit[c])
=============================================================================
