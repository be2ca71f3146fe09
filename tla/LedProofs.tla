------------------------------ MODULE LedProofs ------------------------------
(***************************************************************************)
(* LedServer implements LedSettings, for any cogs, pins, delays and main   *)
(* programs.  The inductive invariant says who may touch a mailbox: a      *)
(* command stands in it only while main waits for it, and a cog is past    *)
(* its test of cmd only while the command stands.                          *)
(***************************************************************************)
EXTENDS LedServer, TLAPS

\* Main waits on c.
Waits(c) == todo # <<>> /\ main = "wait" /\ Box = c

\* A command that stands in a mailbox is the one main waits for, and whole.
Commanded(c) ==
  mbox[c].cmd = 1 =>
    Waits(c) /\ mbox[c].pin = New.pin /\ mbox[c].delay = New.delay

\* A cog that reads its mailbox, reads a command.
Reading(c) == cog[c].at \in {"pin", "delay", "ack"} => mbox[c].cmd = 1

\* A cog between its two reads has the pin of the command.
HalfRead(c) == cog[c].at = "delay" => cog[c].pin = mbox[c].pin

\* What main has written of the message under way.
Written ==
  todo # <<>> =>
    /\ main \in {"delay", "cmd"} => mbox[Box].pin = New.pin
    /\ main = "cmd" => mbox[Box].delay = New.delay

IInv ==
  /\ TypeOK
  /\ todo = <<>> => main = "pin"
  /\ Written
  /\ \A c \in Cogs : Commanded(c) /\ Reading(c) /\ HalfRead(c)

\* A message under way names a cog, and its setting a pin and a delay.
LEMMA HeadOfTodo ==
  ASSUME todo \in Seq(Message), todo # <<>>
  PROVE  /\ Head(todo) \in Message /\ Tail(todo) \in Seq(Message)
         /\ Box \in Cogs /\ New.pin \in Pins /\ New.delay \in Delays
<1>1. Head(todo) \in Message /\ Tail(todo) \in Seq(Message) OBVIOUS
<1> QED BY <1>1 DEF Message, Setting, Box, New

\* The mailboxes are zero and nobody is past its test.
LEMMA InitIInv == Init => IInv
<1> SUFFICES ASSUME Init PROVE IInv OBVIOUS
<1>1. TypeOK
  <2>1. todo \in Seq(Message) BY LedAssumption DEF Init
  <2> QED BY <2>1, LedAssumption DEF Init, TypeOK
<1> QED BY <1>1 DEF Init, IInv, Written, Commanded, Reading, HalfRead

\* Main writes only into a mailbox that nobody reads, and leaves it only when
\* it is empty.
LEMMA MainKeeps == IInv /\ Main => IInv'
<1> SUFFICES ASSUME IInv, Main PROVE IInv' OBVIOUS
<1>1. todo # <<>> BY DEF Main, PutPin, PutDelay, PutCmd, MainStep, Noticed
<1>2. /\ Box \in Cogs /\ New.pin \in Pins /\ New.delay \in Delays
      /\ Tail(todo) \in Seq(Message)
  BY <1>1, HeadOfTodo DEF IInv, TypeOK
<1>3. CASE PutPin
  BY <1>1, <1>2, <1>3 DEF PutPin, MainStep, IInv, TypeOK, Written, Commanded, Waits,
     Reading, HalfRead, Box, New
<1>4. CASE PutDelay
  BY <1>1, <1>2, <1>4 DEF PutDelay, MainStep, IInv, TypeOK, Written, Commanded, Waits,
     Reading, HalfRead, Box, New
<1>5. CASE PutCmd
  BY <1>1, <1>2, <1>5 DEF PutCmd, MainStep, IInv, TypeOK, Written, Commanded, Waits,
     Reading, HalfRead, Box, New
<1>6. CASE Noticed
  BY <1>1, <1>2, <1>6 DEF Noticed, IInv, TypeOK, Written, Commanded, Waits,
     Reading, HalfRead, Box, New
<1> QED BY <1>3, <1>4, <1>5, <1>6 DEF Main

\* A cog changes its own mailbox only by emptying it.
LEMMA CogKeeps == ASSUME NEW c \in Cogs PROVE IInv /\ Cog(c) => IInv'
<1> SUFFICES ASSUME IInv, Cog(c) PROVE IInv' OBVIOUS
<1> USE DEF IInv, CogStep, TypeOK, Written, Commanded, Waits, Reading, HalfRead, Box, New
<1>1. CASE Toggle(c) BY <1>1 DEF Toggle
<1>2. CASE Poll(c) BY <1>2 DEF Poll
<1>3. CASE GetPin(c)
  <2>1. TypeOK' BY <1>3 DEF GetPin
  <2>2. \A d \in Cogs \ {c} : cog'[d] = cog[d] BY <1>3 DEF GetPin
  <2>3. cog'[c].at = "delay" /\ cog'[c].pin = mbox[c].pin /\ cog[c].at = "pin"
    BY <1>3 DEF GetPin
  <2> QED BY <2>1, <2>2, <2>3, <1>3 DEF GetPin
<1>4. CASE GetDelay(c)
  <2>1. TypeOK' BY <1>4 DEF GetDelay
  <2>2. \A d \in Cogs \ {c} : cog'[d] = cog[d] BY <1>4 DEF GetDelay
  <2>3. cog'[c].at = "ack" /\ cog[c].at = "delay" BY <1>4 DEF GetDelay
  <2> QED BY <2>1, <2>2, <2>3, <1>4 DEF GetDelay
<1>5. CASE Ack(c) BY <1>5 DEF Ack
<1>6. CASE WaitCt1(c) BY <1>6 DEF WaitCt1
<1> QED BY <1>1, <1>2, <1>3, <1>4, <1>5, <1>6 DEF Cog

THEOREM IInvHolds == Spec => []IInv
<1>1. IInv /\ [Next]_vars => IInv'
  <2> SUFFICES ASSUME IInv, [Next]_vars PROVE IInv' OBVIOUS
  <2>1. CASE UNCHANGED vars
    BY <2>1 DEF vars, IInv, TypeOK, Written, Commanded, Waits, Reading, HalfRead, Box, New
  <2> QED BY <2>1, MainKeeps, CogKeeps DEF Next
<1> QED BY InitIInv, <1>1, PTL DEF Spec
-----------------------------------------------------------------------------
(* The refinement.                                                         *)

\* What LedSettings sees.
Todo == IF main = "wait" THEN Tail(todo) ELSE todo
Asked == IF Pending THEN Head(todo) ELSE Nobody
Settings == [c \in Cogs |-> Set(c)]

\* Raising cmd gives the message; what main does else is its own affair.
LEMMA MainRefines ==
  ASSUME IInv, IInv', Main PROVE Abstract!Ask \/ UNCHANGED <<Todo, Asked, Settings, lit>>
<1> DEFINE Same == UNCHANGED <<Todo, Asked, Settings, lit>>
<1>1. todo # <<>> BY DEF Main, PutPin, PutDelay, PutCmd, MainStep, Noticed
<1>2. Box \in Cogs /\ Head(todo) \in Message BY <1>1, HeadOfTodo DEF IInv, TypeOK
<1>3. CASE PutPin \/ PutDelay
  <2>1. /\ main \in {"pin", "delay"} /\ main' \in {"delay", "cmd"}
        /\ todo' = todo /\ cog' = cog /\ lit' = lit
        /\ \A c \in Cogs \ {Box} : mbox'[c] = mbox[c]
    BY <1>3, <1>2 DEF PutPin, PutDelay, MainStep, IInv, TypeOK
  <2>2. cog[Box].at # "delay"
    BY <2>1, <1>2 DEF IInv, TypeOK, Commanded, Reading, Waits
  <2>3. \A c \in Cogs : Set(c)' = Set(c) BY <2>1, <2>2 DEF Set
  <2>4. UNCHANGED Settings BY <2>3 DEF Settings
  <2>5. Same BY <2>1, <2>4 DEF Todo, Asked, Pending
  <2> QED BY <2>5
<1>4. CASE PutCmd
  <2>1. /\ main = "cmd" /\ main' = "wait" /\ todo' = todo /\ cog' = cog /\ lit' = lit
        /\ mbox'[Box].cmd = 1
        /\ \A c \in Cogs : mbox'[c].delay = mbox[c].delay
    BY <1>4, <1>2 DEF PutCmd, MainStep, IInv, TypeOK
  <2>2. cog[Box].at \notin {"delay", "ack"}
    BY <2>1, <1>2 DEF IInv, TypeOK, Commanded, Reading, Waits
  <2>3. \A c \in Cogs : Set(c)' = Set(c) BY <2>1 DEF Set
  <2>4. UNCHANGED Settings BY <2>3 DEF Settings
  <2>5. Pending' /\ ~Pending BY <2>1, <2>2, <1>1 DEF Pending, Box
  <2> QED BY <2>1, <2>4, <2>5, <1>1 DEF Abstract!Ask, Todo, Asked, Settings
<1>5. CASE Noticed
  <2>1. /\ main = "wait" /\ main' = "pin" /\ todo' = Tail(todo)
        /\ mbox[Box].cmd = 0 /\ UNCHANGED <<mbox, cog, lit>>
    BY <1>5 DEF Noticed
  <2>2. ~Pending /\ ~Pending' BY <2>1 DEF Pending
  <2>3. UNCHANGED Settings BY <2>1 DEF Settings, Set
  <2>4. Same BY <2>1, <2>2, <2>3 DEF Todo, Asked
  <2> QED BY <2>4
<1> QED BY <1>3, <1>4, <1>5 DEF Main

\* Reading the pin takes the message, turning a pin over blinks.
LEMMA CogRefines ==
  ASSUME IInv, IInv', NEW c \in Cogs, Cog(c)
  PROVE  Abstract!Next \/ UNCHANGED <<Todo, Asked, Settings, lit>>
<1> DEFINE Same == UNCHANGED <<Todo, Asked, Settings, lit>>
<1>0. todo # <<>> => Box \in Cogs BY HeadOfTodo DEF IInv, TypeOK
<1>1. CASE Toggle(c)
  <2>1. /\ cog[c].at = "mainloop" /\ UNCHANGED <<todo, main, mbox>>
        /\ \A d \in Cogs \ {c} : cog'[d] = cog[d]
        /\ cog'[c].at = "poll" /\ cog'[c].pin = cog[c].pin /\ cog'[c].delay = cog[c].delay
    BY <1>1 DEF Toggle, CogStep, IInv, TypeOK
  <2>2. \A d \in Cogs : Set(d)' = Set(d) BY <2>1 DEF Set
  <2>a. UNCHANGED Settings BY <2>2 DEF Settings
  <2>b. Pending' = Pending BY <2>1, <1>0 DEF Pending, Box
  <2>3. UNCHANGED <<Todo, Asked, Settings>> BY <2>1, <2>a, <2>b DEF Todo, Asked
  <2>4. Set(c).delay = cog[c].delay /\ Set(c).pin = cog[c].pin BY <2>1 DEF Set
  <2>5. CASE cog[c].delay = 0 BY <2>3, <2>5, <1>1 DEF Toggle
  <2>6. CASE cog[c].delay # 0
    <3>1. Abstract!Blink(c)
      BY <2>3, <2>4, <2>6, <1>1 DEF Toggle, Abstract!Blink, Settings, Todo, Asked
    <3> QED BY <3>1 DEF Abstract!Next
  <2> QED BY <2>5, <2>6
<1>2. CASE GetPin(c)
  <2>1. /\ cog[c].at = "pin" /\ UNCHANGED <<todo, main, mbox, lit>>
        /\ \A d \in Cogs \ {c} : cog'[d] = cog[d]
        /\ cog'[c].at = "delay" /\ cog'[c].pin = mbox[c].pin
    BY <1>2 DEF GetPin, CogStep, IInv, TypeOK
  <2>2. /\ mbox[c].cmd = 1 /\ Waits(c)
        /\ mbox[c].pin = New.pin /\ mbox[c].delay = New.delay
    BY <2>1 DEF IInv, Reading, Commanded
  <2>3. Head(todo) \in Message BY <2>2, HeadOfTodo DEF IInv, TypeOK, Waits
  <2>4. Pending /\ ~Pending' BY <2>1, <2>2 DEF Pending, Waits, Box
  <2>5. Asked = Head(todo) /\ Asked # Nobody /\ Asked' = Nobody
    BY <2>3, <2>4, LedAssumption DEF Asked
  <2>6. Set(c)' = New
    BY <2>1, <2>2, <2>3 DEF Set, New, Message, Setting
  <2>7. \A d \in Cogs \ {c} : Set(d)' = Set(d) BY <2>1 DEF Set
  <2>8. Settings' = [Settings EXCEPT ![Asked.to] = Asked.set]
    BY <2>2, <2>5, <2>6, <2>7 DEF Settings, Waits, Box, New
  <2>9. Abstract!Take
    BY <2>1, <2>5, <2>8 DEF Abstract!Take, Settings, Asked, Todo
  <2> QED BY <2>9 DEF Abstract!Next
<1>3. CASE Poll(c) \/ WaitCt1(c)
  <2>1. /\ UNCHANGED <<todo, main, mbox, lit>>
        /\ \A d \in Cogs \ {c} : cog'[d] = cog[d]
        /\ cog[c].at \notin {"delay", "ack"} /\ cog'[c].at \notin {"delay", "ack"}
        /\ cog'[c].pin = cog[c].pin /\ cog'[c].delay = cog[c].delay
    BY <1>3 DEF Poll, WaitCt1, CogStep, IInv, TypeOK
  <2>2. \A d \in Cogs : Set(d)' = Set(d) BY <2>1 DEF Set
  <2>3. UNCHANGED Settings BY <2>2 DEF Settings
  <2>4. Pending' = Pending BY <2>1, <1>0 DEF Pending, Box
  <2>5. Same BY <2>1, <2>3, <2>4 DEF Todo, Asked
  <2> QED BY <2>5
<1>4. CASE GetDelay(c)
  <2>1. /\ UNCHANGED <<todo, main, mbox, lit>>
        /\ \A d \in Cogs \ {c} : cog'[d] = cog[d]
        /\ cog[c].at = "delay" /\ cog'[c].at = "ack"
        /\ cog'[c].pin = cog[c].pin /\ cog'[c].delay = mbox[c].delay
    BY <1>4 DEF GetDelay, CogStep, IInv, TypeOK
  <2>2. \A d \in Cogs : Set(d)' = Set(d) BY <2>1 DEF Set
  <2>3. UNCHANGED Settings BY <2>2 DEF Settings
  <2>4. Pending' = Pending BY <2>1, <1>0 DEF Pending, Box
  <2>5. Same BY <2>1, <2>3, <2>4 DEF Todo, Asked
  <2> QED BY <2>5
<1>5. CASE Ack(c)
  <2>1. /\ UNCHANGED <<todo, main, lit>>
        /\ \A d \in Cogs \ {c} : cog'[d] = cog[d] /\ mbox'[d] = mbox[d]
        /\ cog[c].at = "ack" /\ cog'[c].at = "waitct1" /\ mbox'[c].cmd = 0
        /\ cog'[c].pin = cog[c].pin /\ cog'[c].delay = cog[c].delay
    BY <1>5 DEF Ack, CogStep, IInv, TypeOK
  <2>2. \A d \in Cogs : Set(d)' = Set(d) BY <2>1 DEF Set
  <2>3. Waits(c) BY <2>1 DEF IInv, Reading, Commanded
  <2>4. ~Pending /\ ~Pending' BY <2>1, <2>3 DEF Pending, Waits, Box
  <2>5. Same BY <2>1, <2>2, <2>4 DEF Todo, Asked, Settings
  <2> QED BY <2>5
<1> QED BY <1>1, <1>2, <1>3, <1>4, <1>5 DEF Cog

\* update_mbox and the loop at "entry" together hand over whole settings, one
\* by one and in order, whatever the number of cogs and the program.
THEOREM LedServerImplementsLedSettings == Spec => IsLedSettings
<1>1. Init => Abstract!Init
  <2> SUFFICES ASSUME Init PROVE Abstract!Init OBVIOUS
  <2>1. ~Pending BY DEF Init, Pending
  <2>2. \A c \in Cogs : Set(c) = Off BY DEF Init, Set, Off
  <2> QED BY <2>1, <2>2 DEF Init, Abstract!Init
<1>2. IInv /\ IInv' /\ [Next]_vars => [Abstract!Next]_(Abstract!vars)
  <2> SUFFICES ASSUME IInv, IInv', [Next]_vars
               PROVE  Abstract!Next \/ UNCHANGED <<Todo, Asked, Settings, lit>>
    BY DEF Abstract!vars, Todo, Asked, Settings
  <2>1. CASE UNCHANGED vars
    BY <2>1 DEF vars, Todo, Asked, Settings, Pending, Set, Box
  <2> QED BY <2>1, MainRefines, CogRefines DEF Next, Abstract!Next
<1> QED BY <1>1, <1>2, IInvHolds, PTL DEF Spec, IsLedSettings, Abstract!Spec
=============================================================================
