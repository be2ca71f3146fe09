----------------------------- MODULE Fs9pProofs -----------------------------
(***************************************************************************)
(* Proofs about Fs9p: what a call of the library may leave in its          *)
(* variables and in txbuf at each of its phases, and from it that a        *)
(* transfer keeps its counts (Progress), that requests fit (FitsMessage),  *)
(* that a short read is the end of the file (ShortMeansEnd), and that the  *)
(* client implements a cursor in a file (IsHostFile).  For                 *)
(* HandleNamesItsFile a second invariant, NamesInv, says what is behind    *)
(* and ahead of a walk, of paths of any length.                            *)
(***************************************************************************)
EXTENDS Fs9p, Inductions, SequenceTheorems, TLAPS

-----------------------------------------------------------------------------
(* The inductive invariant.                                                *)

\* A call that runs, by what it does.
InitCall  == [op : {"init"}, at : {"version", "attach"}]
CloseCall == [op : {"close"}, at : {"clunk"}]
WalkCall  == [op : {"open", "create"}, at : {"walk", "walked", "create", "open"},
              f : Handle, path : Paths, mode : {"read", "write", "trunc"},
              from : Fid, rest : Seq(STRING), skip : BOOLEAN, sent : BOOLEAN]
MoveCall  == [op : {"read", "write"}, at : {"move", "moving"}, f : Handle,
              buf : Seq(Nat), count : Nat \ {0}, total : Nat, start : Nat, asked : Nat]

Offset  == [lo : 0..Word-1, hi : Nat]
FidNode == [node : Dir \cup File \cup {NoFile}, mode : {"free", "read", "write"}]

TypeOK ==
  /\ maxlen \in {0} \cup MinLen..MAXLEN
  /\ off \in [Handle -> Offset]
  /\ fids \in [Fid -> FidNode]
  /\ host \in [File -> Seq(Nat) \cup {Missing}]
  /\ opened \in [Handle -> Paths \cup {NoPath}]
  /\ call \in {NoCall} \cup InitCall \cup CloseCall \cup WalkCall \cup MoveCall

\* Before fs_init is through nothing but fs_init runs, and nothing is open.
Attached ==
  /\ maxlen = 0 \/ call.at = "attach" => \A f \in Handle : opened[f] = NoPath
  /\ maxlen = 0 => call.op \in {"none", "init"}
  /\ call.at = "version" => maxlen = 0
  /\ call.at = "attach" => maxlen > 0

\* A fid that is open stands for a file that is there.
OpenFids ==
  \A f \in Fid : fids[f].mode # "free" =>
    fids[f].node \in File /\ host[fids[f].node] # Missing

\* What txbuf may hold at each phase of a call: its request, or an answer.
ErrorReply == [t |-> "error", reply |-> TRUE]
Plain(t)   == {[t |-> t, reply |-> TRUE], ErrorReply}
Name       == STRING \cup {"."}  \* a STRING too, but not to the provers
ShortNames == {s \in Seq(Name) : Len(s) <= 1}

MoveRequest ==
  IF call.op = "read"
  THEN [t |-> "read", fid |-> call.f, lo |-> off[call.f].lo, hi |-> off[call.f].hi,
        count |-> CurCount]
  ELSE [t |-> "write", fid |-> call.f, lo |-> off[call.f].lo, hi |-> off[call.f].hi,
        data |-> SubSeq(call.buf, 1, CurCount)]

VersionExchange ==
  \/ txbuf \in {[t |-> "version", msize |-> MAXLEN], ErrorReply}
  \/ txbuf \in [t : {"version"}, reply : {TRUE}, msize : Nat]

WalkExchange ==
  \/ txbuf \in {Nothing} \cup Plain("walk")
  \/ txbuf \in [t : {"walk"}, fid : Fid, newfid : {call.f}, name : ShortNames]

CreateExchange ==
  \/ txbuf \in Plain("create")
  \/ txbuf = [t |-> "create", fid |-> call.f, name |-> LastName(call.path)]

OpenExchange ==
  \/ txbuf \in Plain("open")
  \/ txbuf = [t |-> "open", fid |-> call.f, mode |-> call.mode]

MoveExchange ==
  \/ txbuf \in {MoveRequest, ErrorReply}
  \/ txbuf = [t |-> call.op, reply |-> TRUE, count |-> CurCount + 1]
  \/ call.op = "write" /\ txbuf \in [t : {"write"}, reply : {TRUE}, count : 0..CurCount]
  \/ /\ call.op = "read"
     /\ txbuf \in [t : {"read"}, reply : {TRUE}, count : 0..CurCount, data : Seq(Nat)]
     /\ Len(txbuf.data) = txbuf.count
     /\ txbuf.count = 0 => Position(call.f) >= Len(host[fids[call.f].node])

Exchange ==
  /\ call.at \in {"none", "walked", "move"} => txbuf = Nothing
  /\ call.at = "version" => VersionExchange
  /\ call.at = "attach"  => txbuf \in {[t |-> "attach", fid |-> Root]} \cup Plain("attach")
  /\ call.at = "walk"    => WalkExchange
  /\ call.at = "create"  => CreateExchange
  /\ call.at = "open"    => OpenExchange
  /\ call.at = "clunk"   => txbuf \in Plain("clunk") \cup [t : {"clunk"}, fid : Handle]
  /\ call.at = "moving"  => MoveExchange

IInv == TypeOK /\ Attached /\ OpenFids /\ Exchange /\ Progress
-----------------------------------------------------------------------------
(* Lemmas about the operators.                                             *)

LEMMA ShortName == <<>> \in ShortNames /\ \A c \in Name : <<c>> \in ShortNames
<1>1. <<>> \in Seq(Name) /\ Len(<<>>) = 0
  OBVIOUS
<1>2. ASSUME NEW c \in Name PROVE <<c>> \in Seq(Name) /\ Len(<<c>>) = 1
  OBVIOUS
<1> QED BY <1>1, <1>2 DEF ShortNames

\* Skip drops slashes, and LastName keeps at most one name.
LEMMA PathPieces ==
  ASSUME NEW p \in Seq(STRING)
  PROVE  /\ Skip(p) \in Seq(STRING)
         /\ LastName(p) \in ShortNames /\ LastName(p) \in Seq(STRING)
<1> DEFINE first == {i \in 1..Len(p) : p[i] # "/" /\ \A j \in 1..i-1 : p[j] = "/"}
<1>1. Skip(p) \in Seq(STRING)
  <2>1. CASE first = {}
    <3>1. Skip(p) = <<>>
      BY <2>1 DEF Skip
    <3> QED BY <3>1
  <2>2. CASE first # {}
    <3>1. PICK i \in first : Skip(p) = SubSeq(p, i, Len(p))
      BY <2>2 DEF Skip
    <3>2. i \in 1..Len(p) /\ Len(p) \in Nat
      BY <3>1, LenProperties
    <3> QED BY <3>1, <3>2
  <2> QED BY <2>1, <2>2
<1>2. LastName(p) \in ShortNames
  <2>1. p # <<>> => p[Len(p)] \in Name
    BY LenProperties, EmptySeq DEF Name
  <2> QED BY <2>1, ShortName DEF LastName
<1>3. LastName(p) \in Seq(STRING)
  <2>1. p # <<>> => p[Len(p)] \in STRING
    BY LenProperties, EmptySeq
  <2>2. p # <<>> => <<p[Len(p)]>> \in Seq(STRING)
    BY <2>1
  <2>3. <<>> \in Seq(STRING)
    OBVIOUS
  <2> QED BY <2>2, <2>3 DEF LastName
<1> QED BY <1>1, <1>2, <1>3

\* Advancing an offset by what fits in a message moves the position by that,
\* across a wrap of the low word too.
LEMMA AdvancedMoves ==
  ASSUME NEW o \in Offset, NEW r \in 0..Word-1
  PROVE  /\ Advanced(o, r) \in Offset
         /\ Advanced(o, r).hi * Word + Advanced(o, r).lo = o.hi * Word + o.lo + r
<1>1. Word \in Nat /\ Word > 0 /\ o.lo \in 0..Word-1 /\ o.hi \in Nat
  BY Fs9pAssumption DEF Offset, MoveHead
<1>2. CASE o.lo + r < Word
  <2>1. (o.lo + r) % Word = o.lo + r
    BY <1>1, <1>2
  <2> QED BY <1>1, <1>2, <2>1 DEF Advanced, Offset
<1>3. CASE o.lo + r >= Word
  <2>1. (o.lo + r) % Word = o.lo + r - Word
    BY <1>1, <1>3
  <2>2. (o.hi + 1) * Word = o.hi * Word + Word
    BY <1>1
  <2> QED BY <1>1, <1>3, <2>1, <2>2 DEF Advanced, Offset
<1> QED BY <1>1, <1>2, <1>3

LEMMA PositionNat ==
  ASSUME TypeOK, NEW f \in Handle
  PROVE  Position(f) \in Nat
<1>1. off[f].hi \in Nat /\ off[f].lo \in Nat
  BY DEF TypeOK, Offset
<1>2. Word \in Nat
  BY Fs9pAssumption
<1> QED BY <1>1, <1>2 DEF Position

\* Bytes put into a sequence make a sequence.
LEMMA PatchedSeq ==
  ASSUME NEW c \in Seq(Nat), NEW p \in Nat, NEW d \in Seq(Nat)
  PROVE  Abstract!Patched(c, p, d) \in Seq(Nat)
<1> DEFINE n == IF Len(c) > p + Len(d) THEN Len(c) ELSE p + Len(d)
           P == [i \in 1..n |-> IF i \in p+1..p+Len(d) THEN d[i-p] ELSE IF i <= Len(c) THEN c[i] ELSE 0]
<1>1. Len(c) \in Nat /\ Len(d) \in Nat
  BY LenProperties
<1>2. n \in Nat
  BY <1>1
<1>3. ASSUME NEW i \in 1..n PROVE P[i] \in Nat
  <2>1. CASE i \in p+1..p+Len(d)
    <3>1. i - p \in 1..Len(d)
      BY <1>1, <2>1
    <3> QED BY <2>1, <3>1, ElementOfSeq
  <2>2. CASE i \notin p+1..p+Len(d)
    BY <1>1, <1>2, <2>2, ElementOfSeq
  <2> QED BY <2>1, <2>2
<1>4. P \in [1..n -> Nat]
  BY <1>3
<1>5. P \in Seq(Nat)
  BY <1>2, <1>4, IsASeq
<1> QED BY <1>5 DEF Abstract!Patched

LEMMA PieceOf ==
  ASSUME NEW c \in Seq(Nat), NEW p \in Nat, NEW r \in Nat, r = 0 \/ p + r <= Len(c)
  PROVE  SubSeq(c, p+1, p+r) \in Seq(Nat) /\ Len(SubSeq(c, p+1, p+r)) = r
<1>1. Len(c) \in Nat
  BY LenProperties
<1>2. \A i \in p+1..p+r : c[i] \in Nat
  <2> SUFFICES ASSUME NEW i \in p+1..p+r PROVE c[i] \in Nat
    OBVIOUS
  <2>1. i \in 1..Len(c)
    BY <1>1
  <2> QED BY <2>1, ElementOfSeq
<1> QED BY <1>2, SubSeqProperties

LEMMA SubSeqOfPrefix ==
  ASSUME NEW s \in Seq(Nat), NEW n \in 0..Len(s), NEW r \in 0..n
  PROVE  /\ SubSeq(SubSeq(s, 1, n), 1, r) = SubSeq(s, 1, r)
         /\ SubSeq(s, 1, r) \in Seq(Nat) /\ Len(SubSeq(s, 1, r)) = r
<1>1. Len(s) \in Nat /\ n \in Nat /\ r \in Nat
  BY LenProperties
<1>2. SubSeq(s, 1, r) \in Seq(Nat) /\ Len(SubSeq(s, 1, r)) = r
  BY <1>1, SubSeqProperties
<1>3. CASE r = 0
  BY <1>1, <1>2, <1>3, SubSeqEmpty, SubSeqProperties
<1>4. CASE r # 0
  BY <1>1, <1>4, SubSeqOfSubSeq
<1> QED BY <1>2, <1>3, <1>4

\* The bytes of one message of a transfer.
LEMMA CurCountFits ==
  ASSUME TypeOK, Attached, call.op \in {"read", "write"}
  PROVE  /\ call \in MoveCall
         /\ CurCount \in Nat \ {0} /\ CurCount <= call.count
         /\ CurCount <= Left /\ CurCount \in 0..Word-1 /\ Left \in Nat \ {0}
<1>1. call \in MoveCall
  BY DEF TypeOK, NoCall, InitCall, CloseCall, WalkCall, MoveCall
<1>2. maxlen \in MinLen..MAXLEN
  BY Fs9pAssumption DEF TypeOK, Attached
<1>3. call.count \in Nat \ {0}
  BY <1>1 DEF MoveCall
<1> QED BY <1>1, <1>2, <1>3, Fs9pAssumption DEF CurCount, Left, MoveHead

\* What a call is, by its phase or by its name.
LEMMA CallShape ==
  ASSUME TypeOK
  PROVE  /\ call.at \in {"version", "attach"} \/ call.op = "init" => call \in InitCall
         /\ call.at = "clunk" \/ call.op = "close" => call \in CloseCall
         /\ call.at \in {"walk", "walked", "create", "open"} \/ call.op \in {"open", "create"}
              => call \in WalkCall
         /\ call.at \in {"move", "moving"} \/ call.op \in {"read", "write"} => call \in MoveCall
         /\ call.at = "none" \/ Idle => call = NoCall
BY DEF TypeOK, Idle, NoCall, InitCall, CloseCall, WalkCall, MoveCall

\* A reply the client takes for a transfer has moved what it says.
LEMMA MovedReply ==
  ASSUME IInv, Answered("moving"), Replied(call.op), txbuf.count <= CurCount
  PROVE  /\ call \in MoveCall /\ txbuf.count \in 0..CurCount
         /\ call.op = "read" => txbuf.data \in Seq(Nat) /\ Len(txbuf.data) = txbuf.count
         /\ call.op = "read" /\ txbuf.count = 0 =>
              Position(call.f) >= Len(host[fids[call.f].node])
<1>1. call \in MoveCall /\ call.op \in {"read", "write"}
  BY CallShape DEF IInv, Answered, MoveCall
<1>2. CurCount \in Nat
  BY <1>1, CurCountFits DEF IInv
<1>3. MoveExchange
  BY DEF IInv, Answered, Exchange
<1>4. txbuf # MoveRequest
  BY <1>1 DEF Replied, MoveRequest
<1>5. txbuf # ErrorReply
  BY <1>1 DEF Replied, ErrorReply
<1>6. txbuf # [t |-> call.op, reply |-> TRUE, count |-> CurCount + 1]
  BY <1>2
<1> QED BY <1>1, <1>3, <1>4, <1>5, <1>6 DEF MoveExchange

\* The phases of a call.
LEMMA CallPhases ==
  ASSUME TypeOK
  PROVE  call.at \in {"none", "version", "attach", "clunk", "walk", "walked", "create",
                      "open", "move", "moving"}
BY DEF TypeOK, NoCall, InitCall, CloseCall, WalkCall, MoveCall

\* Which request is in txbuf says which call has sent it.
LEMMA PendingRequest ==
  ASSUME IInv, txbuf # Nothing, "reply" \notin DOMAIN txbuf
  PROVE  \/ call.at = "version" /\ txbuf = [t |-> "version", msize |-> MAXLEN]
         \/ call.at = "attach" /\ txbuf = [t |-> "attach", fid |-> Root]
         \/ /\ call.at = "walk"
            /\ txbuf \in [t : {"walk"}, fid : Fid, newfid : {call.f}, name : ShortNames]
         \/ /\ call.at = "create"
            /\ txbuf = [t |-> "create", fid |-> call.f, name |-> LastName(call.path)]
         \/ call.at = "open" /\ txbuf = [t |-> "open", fid |-> call.f, mode |-> call.mode]
         \/ call.at = "clunk" /\ txbuf \in [t : {"clunk"}, fid : Handle]
         \/ call.at = "moving" /\ txbuf = MoveRequest
<1> USE DEF IInv
<1>0. txbuf # ErrorReply /\ \A t : txbuf \notin Plain(t)
  BY DEF Plain, ErrorReply
<1>1. CASE call.at \in {"none", "walked", "move"}
  BY <1>1 DEF Exchange
<1>2. CASE call.at = "version"
  <2>1. txbuf \notin [t : {"version"}, reply : {TRUE}, msize : Nat]
    OBVIOUS
  <2> QED BY <1>0, <1>2, <2>1 DEF Exchange, VersionExchange
<1>3. CASE call.at = "attach"
  BY <1>0, <1>3 DEF Exchange
<1>4. CASE call.at = "walk"
  BY <1>0, <1>4 DEF Exchange, WalkExchange
<1>5. CASE call.at = "create"
  BY <1>0, <1>5 DEF Exchange, CreateExchange
<1>6. CASE call.at = "open"
  BY <1>0, <1>6 DEF Exchange, OpenExchange
<1>7. CASE call.at = "clunk"
  BY <1>0, <1>7 DEF Exchange
<1>8. CASE call.at = "moving"
  <2>1. txbuf # [t |-> call.op, reply |-> TRUE, count |-> CurCount + 1]
    OBVIOUS
  <2>2. txbuf \notin [t : {"write"}, reply : {TRUE}, count : 0..CurCount]
    OBVIOUS
  <2>3. txbuf \notin [t : {"read"}, reply : {TRUE}, count : 0..CurCount, data : Seq(Nat)]
    OBVIOUS
  <2> QED BY <1>0, <1>8, <2>1, <2>2, <2>3 DEF Exchange, MoveExchange
<1> QED BY <1>1, <1>2, <1>3, <1>4, <1>5, <1>6, <1>7, <1>8, CallPhases

LEMMA WalkRequest ==
  ASSUME IInv, Request("walk")
  PROVE  /\ call \in WalkCall /\ call.at = "walk"
         /\ txbuf \in [t : {"walk"}, fid : Fid, newfid : {call.f}, name : ShortNames]
         /\ txbuf.newfid = call.f /\ call.f \in Handle /\ txbuf.newfid \in Fid
<1>1. call.at = "walk"
  BY PendingRequest DEF Request, Nothing, MoveRequest
<1>2. txbuf \in [t : {"walk"}, fid : Fid, newfid : {call.f}, name : ShortNames]
  BY <1>1, PendingRequest DEF Request, Nothing
<1>3. call \in WalkCall
  BY <1>1, CallShape DEF IInv
<1> QED BY <1>1, <1>2, <1>3 DEF WalkCall, Fid

LEMMA OpenRequest ==
  ASSUME IInv, Request("open") \/ Request("create")
  PROVE  /\ call \in WalkCall /\ call.at = txbuf.t
         /\ txbuf.fid = call.f /\ call.f \in Handle /\ txbuf.fid \in Fid
<1>1. call.at = txbuf.t /\ txbuf.fid = call.f
  BY PendingRequest DEF Request, Nothing, MoveRequest
<1>2. call \in WalkCall
  BY <1>1, CallShape DEF IInv, Request
<1> QED BY <1>1, <1>2 DEF WalkCall, Fid

LEMMA ClunkRequest ==
  ASSUME IInv, Request("clunk")
  PROVE  call.at = "clunk" /\ txbuf.fid \in Handle /\ txbuf.fid \in Fid
<1>1. call.at = "clunk" /\ txbuf.fid \in Handle
  BY PendingRequest DEF Request, Nothing, MoveRequest
<1> QED BY <1>1 DEF Fid

LEMMA TransferRequest ==
  ASSUME IInv, Request("read") \/ Request("write")
  PROVE  /\ call \in MoveCall /\ call.at = "moving" /\ txbuf = MoveRequest
         /\ call.op = txbuf.t /\ txbuf.fid = call.f
         /\ call.f \in Handle /\ call.f \in Fid
         /\ Place(txbuf) = Position(call.f)
         /\ CurCount \in Nat /\ CurCount <= call.count
         /\ call.op = "read" => txbuf.count = CurCount
         /\ call.op = "write" => txbuf.data = SubSeq(call.buf, 1, CurCount)
<1>1. call.at = "moving" /\ txbuf = MoveRequest
  BY PendingRequest DEF Request, Nothing
<1>2. call \in MoveCall
  BY <1>1, CallShape DEF IInv
<1>3. call.op = txbuf.t /\ txbuf.fid = call.f
      /\ txbuf.lo = off[call.f].lo /\ txbuf.hi = off[call.f].hi
  BY <1>1, <1>2 DEF MoveRequest, MoveCall
<1>4. Place(txbuf) = Position(call.f)
  BY <1>3 DEF Place, Position
<1>5. CurCount \in Nat /\ CurCount <= call.count
  BY <1>2, CurCountFits DEF IInv, MoveCall
<1> QED BY <1>1, <1>2, <1>3, <1>4, <1>5 DEF MoveRequest, MoveCall, Fid

\* What a read delivers: the bytes of the file at the position of the handle,
\* some at least unless it stands at the end.
LEMMA ReadServed ==
  ASSUME IInv, ServeRead
  PROVE  /\ call \in MoveCall /\ call.at = "moving" /\ call.op = "read"
         /\ fids[call.f].mode # "free" /\ fids[call.f].node \in File
         /\ host[fids[call.f].node] \in Seq(Nat)
         /\ \E r \in 0..CurCount :
              /\ txbuf' = [t |-> "read", reply |-> TRUE, count |-> r,
                           data |-> SubSeq(host[fids[call.f].node], Position(call.f) + 1,
                                           Position(call.f) + r)]
              /\ r # 0 => Position(call.f) + r <= Len(host[fids[call.f].node])
         /\ txbuf' \in [t : {"read"}, reply : {TRUE}, count : 0..CurCount, data : Seq(Nat)]
         /\ Len(txbuf'.data) = txbuf'.count
         /\ txbuf'.count = 0 => Position(call.f) >= Len(host[fids[call.f].node])
<1> DEFINE c == host[fids[call.f].node]
           p == Position(call.f)
<1>1. Request("read") /\ fids[txbuf.fid].mode = "read"
  BY DEF ServeRead
<1>2. /\ call \in MoveCall /\ call.at = "moving" /\ call.op = "read" /\ txbuf.fid = call.f
      /\ call.f \in Fid /\ Place(txbuf) = p /\ call.f \in Handle
      /\ CurCount \in Nat /\ txbuf.count = CurCount
  BY <1>1, TransferRequest DEF Request
<1>3. fids[call.f].mode # "free" /\ fids[call.f].node \in File /\ c \in Seq(Nat)
  BY <1>1, <1>2 DEF IInv, OpenFids, TypeOK
<1>4. p \in Nat /\ Len(c) \in Nat
  BY <1>2, <1>3, PositionNat, LenProperties DEF IInv
<1>5. PICK r \in 0..CurCount :
        /\ txbuf' = [t |-> "read", reply |-> TRUE, count |-> r, data |-> SubSeq(c, p+1, p+r)]
        /\ r # 0 => p + r <= Len(c)
        /\ r = 0 => p >= Len(c)
  <2> DEFINE n == IF Len(c) - p < CurCount THEN Len(c) - p ELSE CurCount
  <2>1. PICK r \in IF n <= 0 THEN {0} ELSE 1..n :
          txbuf' = [t |-> "read", reply |-> TRUE, count |-> r, data |-> SubSeq(c, p+1, p+r)]
    BY <1>2 DEF ServeRead
  <2>2. CurCount > 0
    BY <1>2, CurCountFits DEF IInv, MoveCall
  <2>3. r \in 0..CurCount /\ (r # 0 => p + r <= Len(c)) /\ (r = 0 => p >= Len(c))
    <3>1. CASE n <= 0
      BY <1>2, <1>4, <2>1, <2>2, <3>1
    <3>2. CASE ~(n <= 0)
      BY <1>2, <1>4, <2>1, <2>2, <3>2
    <3> QED BY <3>1, <3>2
  <2> QED BY <2>1, <2>3
<1>6. SubSeq(c, p+1, p+r) \in Seq(Nat) /\ Len(SubSeq(c, p+1, p+r)) = r
  <2>1. c \in Seq(Nat) /\ p \in Nat /\ r \in Nat /\ (r = 0 \/ p + r <= Len(c))
    BY <1>2, <1>3, <1>4, <1>5
  <2> HIDE DEF c, p
  <2> QED BY <2>1, PieceOf
<1> QED BY <1>2, <1>3, <1>5, <1>6

\* What a write puts where: the first r bytes of the caller's buffer, at the
\* position of the handle, into the file it is open on.
LEMMA WriteServed ==
  ASSUME IInv, ServeWrite
  PROVE  /\ call \in MoveCall /\ call.at = "moving" /\ call.op = "write"
         /\ fids[call.f].mode # "free" /\ fids[call.f].node \in File
         /\ \E r \in 0..CurCount :
              /\ txbuf' = [t |-> "write", reply |-> TRUE, count |-> r]
              /\ r = 0 => host' = host
              /\ r # 0 =>
                   /\ SubSeq(call.buf, 1, r) \in Seq(Nat)
                   /\ host[fids[call.f].node] \in Seq(Nat)
                   /\ host' = [host EXCEPT ![fids[call.f].node] =
                        Abstract!Patched(@, Position(call.f), SubSeq(call.buf, 1, r))]
         /\ host' \in [File -> Seq(Nat) \cup {Missing}]
         /\ \A n \in File : host[n] # Missing => host'[n] # Missing
<1>1. Request("write") /\ fids[txbuf.fid].mode = "write"
  BY DEF ServeWrite
<1>2. /\ call \in MoveCall /\ call.at = "moving" /\ call.op = "write" /\ txbuf.fid = call.f
      /\ call.f \in Fid /\ Place(txbuf) = Position(call.f) /\ call.f \in Handle
      /\ CurCount \in Nat /\ CurCount <= call.count
      /\ txbuf.data = SubSeq(call.buf, 1, CurCount)
  BY <1>1, TransferRequest DEF Request
<1>3. CurCount <= Len(call.buf) /\ call.buf \in Seq(Nat) /\ Len(call.buf) \in Nat
  BY <1>2, LenProperties DEF IInv, Progress, MoveCall
<1>4. Len(txbuf.data) = CurCount
  BY <1>2, <1>3, SubSeqProperties
<1>5. fids[call.f].mode # "free" /\ fids[call.f].node \in File
      /\ host[fids[call.f].node] \in Seq(Nat)
  BY <1>1, <1>2 DEF IInv, OpenFids, TypeOK
<1>6. PICK r \in 0..CurCount :
        /\ txbuf' = [t |-> "write", reply |-> TRUE, count |-> r]
        /\ host' = IF r = 0 THEN host ELSE
             [host EXCEPT ![fids[call.f].node] =
                 Abstract!Patched(@, Position(call.f), SubSeq(txbuf.data, 1, r))]
  BY <1>2, <1>4 DEF ServeWrite
<1>7. r # 0 => SubSeq(txbuf.data, 1, r) = SubSeq(call.buf, 1, r)
               /\ SubSeq(call.buf, 1, r) \in Seq(Nat)
  BY <1>2, <1>3, <1>6, SubSeqOfPrefix
<1>8. r # 0 => Abstract!Patched(host[fids[call.f].node], Position(call.f),
                                SubSeq(call.buf, 1, r)) \in Seq(Nat)
  BY <1>2, <1>5, <1>7, PositionNat, PatchedSeq DEF IInv
<1>9. host' \in [File -> Seq(Nat) \cup {Missing}]
  BY <1>5, <1>6, <1>7, <1>8 DEF IInv, TypeOK
<1>10. \A n \in File : host[n] # Missing => host'[n] # Missing
  <2>1. Missing \notin Seq(Nat)
    BY DEF Missing
  <2> QED BY <1>5, <1>6, <1>7, <1>8, <2>1 DEF IInv, TypeOK
<1> QED BY <1>2, <1>5, <1>6, <1>7, <1>9, <1>10
-----------------------------------------------------------------------------
(* The invariant is kept.                                                  *)

\* The part of a call that walks stays one, or returns.
LEMMA WalkCallStep ==
  ASSUME IInv, WalkStep \/ WalkReply \/ SendOpen \/ CreateReply \/ OpenReply
  PROVE  /\ call \in WalkCall
         /\ call' \in WalkCall \cup {NoCall}
<1> USE DEF IInv
<1>1. call \in WalkCall
  BY CallShape DEF WalkStep, WalkReply, SendOpen, CreateReply, OpenReply, At, Answered
<1> SUFFICES call' \in WalkCall \cup {NoCall}
  BY <1>1
<1>2. CASE WalkStep
  <2>1. Skip(call.rest) \in Seq(STRING)
    BY <1>1, PathPieces DEF WalkCall
  <2>2. ASSUME NEW r \in Seq(STRING) PROVE Walked(r) \in WalkCall
    BY <1>1 DEF Walked, WalkCall, Fid
  <2>3. [call EXCEPT !.at = "walked"] \in WalkCall
    BY <1>1 DEF WalkCall
  <2>4. Skip(call.rest) # <<>> => Tail(Skip(call.rest)) \in Seq(STRING)
    BY <2>1
  <2> DEFINE p == Skip(call.rest)
  <2>5. CASE p = <<>>
    BY <1>2, <2>2, <2>3, <2>5, EmptySeq DEF WalkStep
  <2>6. CASE p # <<>>
    BY <1>2, <2>2, <2>3, <2>4, <2>6 DEF WalkStep
  <2> QED BY <2>5, <2>6
<1>3. CASE WalkReply
  <2>1. ASSUME NEW a \in {"walk", "walked"} PROVE [call EXCEPT !.at = a] \in WalkCall
    BY <1>1 DEF WalkCall
  <2> QED BY <1>3, <2>1 DEF WalkReply, Return, Continue
<1>4. CASE SendOpen
  BY <1>1, <1>4 DEF SendOpen, WalkCall
<1>5. CASE CreateReply
  <2>1. LastName(call.path) \in Seq(STRING)
    BY <1>1, PathPieces, Fs9pAssumption DEF WalkCall, ShortNames
  <2>2. Fallback \in WalkCall
    BY <1>1, <2>1 DEF Fallback, WalkCall, Fid
  <2> QED BY <1>5, <2>2 DEF CreateReply, Return, Continue
<1>6. CASE OpenReply
  BY <1>6 DEF OpenReply, Return, Continue
<1> QED BY <1>2, <1>3, <1>4, <1>5, <1>6

LEMMA TypeStep == IInv /\ [Next]_vars => TypeOK'
<1> SUFFICES ASSUME IInv, [Next]_vars PROVE TypeOK'
  OBVIOUS
<1> USE DEF IInv
<1>1. CASE FsInit
  BY <1>1 DEF FsInit, TypeOK, InitCall
<1>2. ASSUME NEW f \in Handle, NEW p \in Paths, FsCreate(f, p)
      PROVE TypeOK'
  <2>1. call' \in WalkCall
    BY <1>2, Fs9pAssumption DEF FsCreate, WalkCall, Fid
  <2> QED BY <1>2, <2>1 DEF FsCreate, TypeOK
<1>3. ASSUME NEW f \in Handle, NEW p \in Paths, NEW m \in {"read", "write", "trunc"},
             FsOpen(f, p, m)
      PROVE TypeOK'
  <2>1. call' \in WalkCall
    BY <1>3, Fs9pAssumption DEF FsOpen, WalkCall, Fid
  <2> QED BY <1>3, <2>1 DEF FsOpen, TypeOK
<1>4. ASSUME NEW f \in Handle, FsClose(f)
      PROVE TypeOK'
  BY <1>4 DEF FsClose, TypeOK, CloseCall
<1>5. ASSUME NEW f \in Handle, NEW n \in 1..MaxSize, FsRead(f, n)
      PROVE TypeOK'
  <2>1. Position(f) \in Nat /\ n \in Nat
    BY PositionNat, Fs9pAssumption
  <2>2. call' \in MoveCall
    BY <1>5, <2>1 DEF FsRead, MoveCall
  <2> QED BY <1>5, <2>2 DEF FsRead, TypeOK
<1>6. ASSUME NEW f \in Handle, NEW d \in Data, FsWrite(f, d)
      PROVE TypeOK'
  <2>1. Position(f) \in Nat /\ d \in Seq(Nat) /\ Len(d) \in Nat \ {0}
    BY PositionNat, Fs9pAssumption, LenProperties
  <2>2. call' \in MoveCall
    BY <1>6, <2>1 DEF FsWrite, MoveCall
  <2> QED BY <1>6, <2>2 DEF FsWrite, TypeOK
<1>7. CASE VersionReply
  <2>1. call \in InitCall
    BY <1>7, CallShape DEF VersionReply, Answered
  <2>2. [call EXCEPT !.at = "attach"] \in InitCall
    BY <2>1 DEF InitCall
  <2>3. maxlen' \in {0} \cup MinLen..MAXLEN
    <3>1. VersionExchange
      BY <1>7 DEF VersionReply, Answered, Exchange
    <3>2. Replied("version") => txbuf.msize \in Nat
      <4>1. CASE txbuf \in {[t |-> "version", msize |-> MAXLEN], ErrorReply}
        BY <1>7, <4>1, Fs9pAssumption DEF VersionReply, Answered, ErrorReply, Replied
      <4>2. CASE txbuf \in [t : {"version"}, reply : {TRUE}, msize : Nat]
        BY <4>2
      <4> QED BY <3>1, <4>1, <4>2 DEF VersionExchange
    <3> QED BY <1>7, <3>2, Fs9pAssumption DEF VersionReply, InRange, TypeOK
  <2> QED BY <1>7, <2>2, <2>3 DEF VersionReply, Return, Continue, TypeOK
<1>8. CASE AttachReply
  BY <1>8 DEF AttachReply, Return, Continue, TypeOK
<1>9. CASE WalkStep \/ WalkReply \/ SendOpen
  <2>1. call' \in WalkCall \cup {NoCall}
    BY <1>9, WalkCallStep
  <2> QED BY <1>9, <2>1 DEF WalkStep, WalkReply, SendOpen, TypeOK
<1>10. CASE CreateReply
  <2>1. call \in WalkCall /\ call' \in WalkCall \cup {NoCall}
    BY <1>10, WalkCallStep
  <2>2. opened' \in [Handle -> Paths \cup {NoPath}]
    BY <1>10, <2>1 DEF CreateReply, TypeOK, WalkCall
  <2> QED BY <1>10, <2>1, <2>2 DEF CreateReply, TypeOK
<1>11. CASE OpenReply
  <2>1. call \in WalkCall /\ call' \in WalkCall \cup {NoCall}
    BY <1>11, WalkCallStep
  <2>2. opened' \in [Handle -> Paths \cup {NoPath}]
    BY <1>11, <2>1 DEF OpenReply, TypeOK, WalkCall
  <2>3. off' \in [Handle -> Offset]
    <3>1. [lo |-> 0, hi |-> 0] \in Offset
      BY Fs9pAssumption DEF Offset, MoveHead
    <3> QED BY <1>11, <3>1 DEF OpenReply, TypeOK
  <2> QED BY <1>11, <2>1, <2>2, <2>3 DEF OpenReply, TypeOK
<1>12. CASE ClunkReply
  BY <1>12 DEF ClunkReply, Return, Continue, TypeOK
<1>13. CASE MoveStep
  <2>1. call \in MoveCall
    BY <1>13, CallShape DEF MoveStep, At
  <2>2. call' \in MoveCall
    BY <1>13, <2>1 DEF MoveStep, MoveCall
  <2> QED BY <1>13, <2>2 DEF MoveStep, TypeOK
<1>14. CASE MoveReply
  <2>1. call \in MoveCall
    BY <1>14, CallShape DEF MoveReply, Answered
  <2>2. CASE Replied(call.op) /\ txbuf.count <= CurCount
    <3>1. /\ txbuf.count \in 0..CurCount
          /\ call.op = "read" => txbuf.data \in Seq(Nat) /\ Len(txbuf.data) = txbuf.count
      BY <1>14, <2>2, MovedReply DEF MoveReply
    <3>2. CurCount \in 0..Word-1 /\ CurCount <= call.count /\ CurCount \in Nat
      BY <2>1, CurCountFits DEF MoveCall
    <3>3. off' \in [Handle -> Offset]
      <4>1. off[call.f] \in Offset
        BY <2>1 DEF MoveCall, TypeOK
      <4>2. txbuf.count \in 0..Word-1
        BY <3>1, <3>2, Fs9pAssumption
      <4>3. Advanced(off[call.f], txbuf.count) \in Offset
        BY <4>1, <4>2, AdvancedMoves
      <4> QED BY <1>14, <2>2, <4>3 DEF MoveReply, TypeOK
    <3>4. ~Over(txbuf.count) => Moved(txbuf.count) \in MoveCall
      <4>1. SubSeq(call.buf, txbuf.count + 1, Len(call.buf)) \in Seq(Nat)
        BY <2>1, <3>1, <3>2, LenProperties, SubSeqProperties DEF MoveCall
      <4>2. call.op = "read" => call.buf \o txbuf.data \in Seq(Nat)
        BY <2>1, <3>1, ConcatProperties DEF MoveCall
      <4>3. call.total + txbuf.count \in Nat
        BY <2>1, <3>1, <3>2 DEF MoveCall
      <4>4. ~Over(txbuf.count) => call.count - txbuf.count \in Nat \ {0}
        BY <2>1, <3>1, <3>2 DEF MoveCall, Over
      <4> QED BY <2>1, <4>1, <4>2, <4>3, <4>4 DEF Moved, MoveCall
    <3> QED BY <1>14, <2>2, <3>3, <3>4 DEF MoveReply, Return, Continue, TypeOK
  <2>3. CASE ~(Replied(call.op) /\ txbuf.count <= CurCount)
    BY <1>14, <2>3 DEF MoveReply, Return, Continue, TypeOK
  <2> QED BY <2>2, <2>3
<1>15. ASSUME Server PROVE TypeOK'
  <2> USE <1>15 DEF Server
  <2>1. CASE Refuse
    BY <2>1 DEF Refuse, TypeOK
  <2>2. CASE Greet
    BY <2>2 DEF Greet, Fid, FidNode, Dir, TypeOK
  <2>3. CASE Walk
    <3>1. txbuf.newfid \in Fid
      BY <2>3, WalkRequest DEF Walk
    <3>2. ASSUME NEW m, Exists(m) PROVE [node |-> m, mode |-> "free"] \in FidNode
      BY <3>2 DEF Exists, FidNode
    <3>3. fids' \in [Fid -> FidNode]
      BY <2>3, <3>1, <3>2 DEF Walk, TypeOK
    <3> QED BY <2>3, <3>3 DEF Walk, TypeOK
  <2>4. CASE OpenFid
    <3>1. txbuf.fid \in Fid
      BY <2>4, OpenRequest DEF OpenFid
    <3>2. fids' \in [Fid -> FidNode]
      <4>1. CASE OpenFid!1
        <5>1. fids[txbuf.fid] \in FidNode
          BY <3>1 DEF TypeOK
        <5>2. ASSUME NEW m \in {"read", "write"}
              PROVE [fids[txbuf.fid] EXCEPT !.mode = m] \in FidNode
          BY <5>1 DEF FidNode
        <5> QED BY <3>1, <4>1, <5>2 DEF TypeOK
      <4>2. CASE OpenFid!2
        <5>1. ASSUME NEW n \in File
              PROVE [node |-> n, mode |-> "write"] \in FidNode
          BY DEF FidNode
        <5> QED BY <3>1, <4>2, <5>1 DEF TypeOK
      <4> QED BY <2>4, <4>1, <4>2 DEF OpenFid
    <3>3. host' \in [File -> Seq(Nat) \cup {Missing}]
      <4>1. CASE OpenFid!1
        BY <4>1, EmptySeq DEF TypeOK
      <4>2. CASE OpenFid!2
        BY <4>2, EmptySeq DEF TypeOK
      <4> QED BY <2>4, <4>1, <4>2 DEF OpenFid
    <3> QED BY <2>4, <3>2, <3>3 DEF OpenFid, TypeOK
  <2>5. CASE Clunk
    BY <2>5 DEF Clunk, Free, FidNode, TypeOK
  <2>6. CASE ServeRead
    BY <2>6 DEF ServeRead, TypeOK
  <2>7. CASE ServeWrite
    <3>1. host' \in [File -> Seq(Nat) \cup {Missing}]
      BY <2>7, WriteServed
    <3> QED BY <2>7, <3>1 DEF ServeWrite, TypeOK
  <2>8. CASE BadCount
    BY <2>8 DEF BadCount, TypeOK
  <2> QED BY <2>1, <2>2, <2>3, <2>4, <2>5, <2>6, <2>7, <2>8
<1>16. CASE UNCHANGED vars
  BY <1>16 DEF vars, TypeOK
<1> QED
  BY <1>1, <1>2, <1>3, <1>4, <1>5, <1>6, <1>7, <1>8, <1>9, <1>10, <1>11, <1>12, <1>13,
     <1>14, <1>15, <1>16 DEF Next, Program, Client

LEMMA AttachedStep == IInv /\ [Next]_vars => Attached'
<1> SUFFICES ASSUME IInv, [Next]_vars PROVE Attached'
  OBVIOUS
<1> USE DEF IInv
<1>0. maxlen \in Nat /\ MinLen > 0
  BY Fs9pAssumption DEF TypeOK, MoveHead
<1>1. CASE FsInit
  BY <1>1 DEF FsInit, Attached, Idle
<1>2. ASSUME NEW f \in Handle, NEW p \in Paths, FsCreate(f, p)
      PROVE Attached'
  BY <1>0, <1>2 DEF FsCreate, Attached
<1>3. ASSUME NEW f \in Handle, NEW p \in Paths, NEW m \in {"read", "write", "trunc"},
             FsOpen(f, p, m)
      PROVE Attached'
  BY <1>0, <1>3 DEF FsOpen, Attached
<1>4. ASSUME NEW f \in Handle, FsClose(f)
      PROVE Attached'
  BY <1>0, <1>4 DEF FsClose, Attached
<1>5. ASSUME NEW f \in Handle, NEW n \in 1..MaxSize, FsRead(f, n)
      PROVE Attached'
  BY <1>0, <1>5 DEF FsRead, Attached
<1>6. ASSUME NEW f \in Handle, NEW d \in Data, FsWrite(f, d)
      PROVE Attached'
  BY <1>0, <1>6 DEF FsWrite, Attached
<1>7. CASE VersionReply
  <2>1. call \in InitCall
    BY <1>7, CallShape DEF VersionReply, Answered
  <2>2. \A f \in Handle : opened[f] = NoPath
    BY <1>7 DEF VersionReply, Answered, Attached
  <2>3. InRange(maxlen') => maxlen' > 0
    BY <1>0, TypeStep, Fs9pAssumption DEF InRange, TypeOK, MoveHead
  <2>4. \/ call' = NoCall /\ maxlen' = maxlen
        \/ call' = [call EXCEPT !.at = "attach"] /\ maxlen' > 0
    BY <1>7, <2>3 DEF VersionReply, Return, Continue
  <2> QED BY <1>7, <2>1, <2>2, <2>4 DEF VersionReply, Attached, NoCall, InitCall
<1>8. CASE AttachReply
  BY <1>8 DEF AttachReply, Answered, Return, Continue, NoCall, Attached
<1>9. ASSUME WalkStep \/ WalkReply \/ SendOpen \/ CreateReply \/ OpenReply
      PROVE Attached'
  <2>1. call \in WalkCall
    BY <1>9, CallShape DEF WalkStep, WalkReply, SendOpen, CreateReply, OpenReply, At, Answered
  <2>2. maxlen > 0 /\ maxlen' = maxlen
    BY <1>0, <1>9, <2>1 DEF WalkCall, Attached, WalkStep, WalkReply, SendOpen, CreateReply, OpenReply
  <2>3. call'.at \notin {"version", "attach"}
    <3>1. CASE WalkStep
      BY <2>1, <3>1 DEF WalkStep, At, Walked, WalkCall
    <3>2. CASE WalkReply
      <4>1. /\ [call EXCEPT !.at = "walk"].at = "walk"
            /\ [call EXCEPT !.at = "walked"].at = "walked"
        BY <2>1 DEF WalkCall
      <4>2. CASE call' = NoCall
        BY <4>2 DEF NoCall
      <4>3. CASE call' = [call EXCEPT !.at = "walk"]
        BY <4>1, <4>3
      <4>4. CASE call' = [call EXCEPT !.at = "walked"]
        BY <4>1, <4>4
      <4> QED BY <3>2, <4>2, <4>3, <4>4 DEF WalkReply, Return, Continue
    <3>3. CASE SendOpen
      BY <2>1, <3>3 DEF SendOpen, WalkCall
    <3>4. CASE CreateReply
      <4>1. Fallback.at = "walk"
        BY <2>1 DEF Fallback, WalkCall
      <4> QED BY <3>4, <4>1 DEF CreateReply, Return, Continue, NoCall
    <3>5. CASE OpenReply
      BY <3>5 DEF OpenReply, Return, Continue, NoCall
    <3> QED BY <1>9, <3>1, <3>2, <3>3, <3>4, <3>5
  <2> QED BY <2>2, <2>3 DEF Attached
<1>10. CASE ClunkReply
  BY <1>10 DEF ClunkReply, Answered, Return, Continue, NoCall, Attached
<1>11. ASSUME MoveStep \/ MoveReply
       PROVE Attached'
  <2>1. call \in MoveCall
    BY <1>11, CallShape DEF MoveStep, MoveReply, At, Answered
  <2>2. maxlen > 0 /\ maxlen' = maxlen
    BY <1>0, <1>11, <2>1 DEF MoveCall, Attached, MoveStep, MoveReply
  <2>3. call'.at \notin {"version", "attach"}
    <3>1. CASE MoveStep
      BY <2>1, <3>1 DEF MoveStep, MoveCall
    <3>2. CASE MoveReply
      <4>1. Moved(txbuf.count).at = "move"
        BY <2>1 DEF Moved, MoveCall
      <4> QED BY <3>2, <4>1 DEF MoveReply, Return, Continue, NoCall
    <3> QED BY <1>11, <3>1, <3>2
  <2> QED BY <2>2, <2>3 DEF Attached
<1>12. CASE Server
  BY <1>12 DEF Server, Attached
<1>13. CASE UNCHANGED vars
  BY <1>13 DEF vars, Attached
<1> QED
  BY <1>1, <1>2, <1>3, <1>4, <1>5, <1>6, <1>7, <1>8, <1>9, <1>10, <1>11, <1>12, <1>13
     DEF Next, Program, Client

LEMMA OpenFidsStep == IInv /\ [Next]_vars => OpenFids'
<1> SUFFICES ASSUME IInv, [Next]_vars PROVE OpenFids'
  OBVIOUS
<1> USE DEF IInv
<1>1. CASE Server
  <2>1. CASE Greet \/ Walk \/ Clunk
    BY <2>1 DEF Greet, Walk, Clunk, Free, OpenFids, TypeOK
  <2>2. CASE OpenFid!1
    <3>1. /\ fids[txbuf.fid].node \in File /\ txbuf.fid \in Fid
          /\ host[fids[txbuf.fid].node] # Missing
      BY <2>2, OpenRequest DEF Exists, Dir, File
    <3>2. \A n \in File : host[n] # Missing => host'[n] # Missing
      BY <2>2, <3>1 DEF TypeOK, Missing
    <3>3. \A f \in Fid : f # txbuf.fid => fids'[f] = fids[f]
      BY <2>2 DEF TypeOK
    <3>4. fids'[txbuf.fid].node = fids[txbuf.fid].node
      BY <2>2, <3>1 DEF TypeOK, FidNode
    <3> QED BY <3>1, <3>2, <3>3, <3>4 DEF OpenFids
  <2>3. CASE OpenFid!2
    BY <2>3, OpenRequest DEF OpenFids, TypeOK, Missing
  <2>4. CASE ServeWrite
    <3>1. \A n \in File : host[n] # Missing => host'[n] # Missing
      BY <2>4, WriteServed
    <3> QED BY <2>4, <3>1 DEF ServeWrite, OpenFids
  <2>5. CASE Refuse \/ ServeRead \/ BadCount
    BY <2>5 DEF Refuse, ServeRead, BadCount, OpenFids
  <2> QED BY <1>1, <2>1, <2>2, <2>3, <2>4, <2>5 DEF Server, OpenFid
<1>2. CASE UNCHANGED <<fids, host>>
  BY <1>2 DEF OpenFids
<1>3. Next => Server \/ UNCHANGED <<fids, host>>
  BY DEF Next, Program, Client, FsInit, FsCreate, FsOpen, FsClose, FsRead, FsWrite,
    VersionReply, AttachReply, WalkStep, WalkReply, SendOpen, CreateReply, OpenReply,
    ClunkReply, MoveStep, MoveReply
<1> QED BY <1>1, <1>2, <1>3 DEF vars

LEMMA ProgressStep == IInv /\ [Next]_vars => Progress'
<1> SUFFICES ASSUME IInv, [Next]_vars PROVE Progress'
  OBVIOUS
<1> USE DEF IInv
<1>1. CASE call'.op \notin {"read", "write"}
  BY <1>1 DEF Progress
<1>2. ASSUME NEW f \in Handle, NEW n \in 1..MaxSize, FsRead(f, n)
      PROVE Progress'
  <2>1. Position(f) \in Nat /\ n \in Nat /\ Len(<<>>) = 0
    BY PositionNat, Fs9pAssumption
  <2> QED BY <1>2, <2>1 DEF FsRead, Progress, Position
<1>3. ASSUME NEW f \in Handle, NEW d \in Data, FsWrite(f, d)
      PROVE Progress'
  <2>1. Position(f) \in Nat /\ Len(d) \in Nat
    BY PositionNat, Fs9pAssumption, LenProperties
  <2> QED BY <1>3, <2>1 DEF FsWrite, Progress, Position
<1>4. CASE MoveStep
  <2>1. call \in MoveCall /\ call' = [call EXCEPT !.at = "moving"]
    BY <1>4, CallShape DEF MoveStep, At
  <2> QED BY <1>4, <2>1 DEF MoveStep, MoveCall, Progress, Position
<1>5. CASE MoveReply /\ call' # NoCall
  <2>1. /\ call \in MoveCall /\ Answered("moving")
        /\ Replied(call.op) /\ txbuf.count <= CurCount
        /\ off' = [off EXCEPT ![call.f] = Advanced(@, txbuf.count)]
        /\ call' = Moved(txbuf.count)
    BY <1>5, CallShape DEF MoveReply, Answered, Return, Continue
  <2>2. /\ txbuf.count \in 0..CurCount
        /\ call.op = "read" => txbuf.data \in Seq(Nat) /\ Len(txbuf.data) = txbuf.count
    BY <2>1, MovedReply
  <2>3. CurCount \in 0..Word-1 /\ CurCount <= call.count
    BY <2>1, CurCountFits DEF MoveCall
  <2>4. txbuf.count \in 0..Word-1 /\ txbuf.count \in 0..call.count /\ txbuf.count \in Nat
    BY <2>1, <2>2, <2>3, Fs9pAssumption DEF MoveCall
  <2>5. off[call.f] \in Offset /\ call.f \in Handle
    BY <2>1 DEF MoveCall, TypeOK
  <2>6. Position(call.f)' = Position(call.f) + txbuf.count
    <3>1. /\ call'.f = call.f
          /\ off'[call.f] = Advanced(off[call.f], txbuf.count)
      BY <2>1, <2>5 DEF TypeOK, Moved, MoveCall
    <3> QED BY <2>4, <2>5, <3>1, AdvancedMoves DEF Position
  <2>7. /\ Len(call.buf \o txbuf.data) = Len(call.buf) + txbuf.count \/ call.op = "write"
        /\ \/ Len(SubSeq(call.buf, txbuf.count + 1, Len(call.buf))) = Len(call.buf) - txbuf.count
           \/ call.op = "read"
    <3>1. CASE call.op = "read"
      BY <2>1, <2>2, <3>1, ConcatProperties DEF MoveCall
    <3>2. CASE call.op = "write"
      <4>1. Len(call.buf) \in Nat /\ txbuf.count <= Len(call.buf)
        BY <2>1, <2>4, <3>2, LenProperties DEF MoveCall, Progress
      <4> QED BY <2>1, <2>4, <3>2, <4>1, SubSeqProperties DEF MoveCall
    <3> QED BY <2>1, <3>1, <3>2 DEF MoveCall
  <2>8. /\ Position(call.f) = call.start + call.total
        /\ call.total + call.count = call.asked
        /\ Len(call.buf) = IF call.op = "read" THEN call.total ELSE call.count
    BY <2>1 DEF Progress, MoveCall
  <2>9. /\ call'.op = call.op /\ call'.start = call.start /\ call'.asked = call.asked
        /\ call'.total = call.total + txbuf.count /\ call'.count = call.count - txbuf.count
        /\ call'.buf = IF call.op = "read" THEN call.buf \o txbuf.data
                       ELSE SubSeq(call.buf, txbuf.count + 1, Len(call.buf))
    BY <2>1 DEF Moved, MoveCall
  <2>10. /\ call.start \in Nat /\ call.total \in Nat /\ call.count \in Nat /\ call.asked \in Nat
         /\ call.op \in {"read", "write"}
    BY <2>1 DEF MoveCall
  <2>11. Position(call.f)' = call'.start + call'.total
    BY <2>4, <2>6, <2>8, <2>9, <2>10
  <2>12. call'.total + call'.count = call'.asked
    BY <2>4, <2>8, <2>9, <2>10
  <2>13. Len(call'.buf) = IF call'.op = "read" THEN call'.total ELSE call'.count
    BY <2>7, <2>8, <2>9, <2>10
  <2> QED BY <2>11, <2>12, <2>13 DEF Progress
<1>6. CASE UNCHANGED <<call, off>>
  BY <1>6 DEF Progress, Position
<1>7. ASSUME Next
      PROVE  \/ call'.op \notin {"read", "write"}
             \/ \E f \in Handle : \/ \E n \in 1..MaxSize : FsRead(f, n)
                                  \/ \E d \in Data : FsWrite(f, d)
             \/ MoveStep
             \/ MoveReply /\ call' # NoCall
             \/ UNCHANGED <<call, off>>
  <2>1. CASE FsInit \/ VersionReply \/ AttachReply \/ ClunkReply
    <3>1. CASE call' = [call EXCEPT !.at = "attach"] /\ call \in InitCall
      BY <3>1 DEF InitCall
    <3> QED
      BY <2>1, <3>1, CallShape DEF FsInit, VersionReply, AttachReply, ClunkReply, Answered,
        Return, Continue, NoCall
  <2>2. CASE WalkStep \/ WalkReply \/ SendOpen \/ CreateReply \/ OpenReply
    <3>1. call \in WalkCall
      BY <2>2, CallShape DEF WalkStep, WalkReply, SendOpen, CreateReply, OpenReply, At, Answered
    <3>2. call' \in WalkCall \cup {NoCall}
      BY <2>2, <3>1, WalkCallStep
    <3> QED BY <3>2 DEF WalkCall, NoCall
  <2>3. ASSUME NEW f \in Handle
        PROVE  /\ \A p \in Paths : FsCreate(f, p) => call'.op = "create"
               /\ \A p \in Paths, m \in {"read", "write", "trunc"} :
                    FsOpen(f, p, m) => call'.op = "open"
               /\ FsClose(f) => call'.op = "close"
    BY DEF FsCreate, FsOpen, FsClose
  <2>4. CASE MoveReply /\ call' = NoCall
    BY <2>4 DEF NoCall
  <2>5. CASE Server
    BY <2>5 DEF Server
  <2> QED BY <1>7, <2>1, <2>2, <2>3, <2>4, <2>5 DEF Next, Program, Client
<1> QED BY <1>1, <1>2, <1>3, <1>4, <1>5, <1>6, <1>7 DEF vars

\* The server answers what it was asked.
LEMMA ServerExchange ==
  ASSUME IInv, Server
  PROVE  Exchange'
<1> USE DEF IInv
<1>1. call' = call /\ maxlen' = maxlen /\ off' = off
  BY DEF Server
<1>2. Pending => txbuf # Nothing /\ "reply" \notin DOMAIN txbuf
  BY DEF Pending
<1>3. ASSUME NEW t \in {"version", "attach", "walk", "open", "create", "clunk", "read", "write"},
             Request(t)
      PROVE  Pending
  BY <1>3 DEF Request, Pending, Nothing
<1>4. ASSUME Pending, txbuf' = ErrorReply
      PROVE  Exchange'
  <2>1. call.at \notin {"none", "walked", "move"}
    BY <1>4 DEF Exchange, Pending
  <2> QED BY <1>1, <1>4, <2>1 DEF Exchange, Plain, VersionExchange, WalkExchange,
        CreateExchange, OpenExchange, MoveExchange
<1>5. ASSUME NEW t \in {"attach", "walk", "open", "create", "clunk"}, call.at = t,
             txbuf' = [t |-> t, reply |-> TRUE]
      PROVE  Exchange'
  BY <1>1, <1>5 DEF Exchange, Plain, WalkExchange, CreateExchange, OpenExchange
<1>6. CASE Refuse
  BY <1>4, <1>6 DEF Refuse, Reply, ErrorReply
<1>7. CASE Greet!1
  <2>1. call.at = "version"
    BY <1>7, PendingRequest DEF Request, Nothing, MoveRequest
  <2>2. txbuf' \in [t : {"version"}, reply : {TRUE}, msize : Nat]
    BY <1>7, Fs9pAssumption
  <2> QED BY <1>1, <2>1, <2>2 DEF Exchange, VersionExchange
<1>8. CASE Greet!2
  <2>1. call.at = "attach"
    BY <1>8, PendingRequest DEF Request, Nothing, MoveRequest
  <2> QED BY <1>5, <1>8, <2>1 DEF Reply
<1>9. CASE Walk
  BY <1>5, <1>9, WalkRequest DEF Walk, Reply
<1>10. CASE OpenFid!1
  <2>1. call.at = "open"
    BY <1>10, OpenRequest DEF Request
  <2> QED BY <1>5, <1>10, <2>1 DEF Reply
<1>11. CASE OpenFid!2
  <2>1. call.at = "create"
    BY <1>11, OpenRequest DEF Request
  <2> QED BY <1>5, <1>11, <2>1 DEF Reply
<1>12. CASE Clunk
  BY <1>5, <1>12, ClunkRequest DEF Clunk, Reply
<1>13. CurCount' = CurCount
  BY <1>1 DEF CurCount, Left
<1>14. CASE ServeRead
  <2>1. /\ call.at = "moving" /\ call.op = "read"
        /\ Place(txbuf) = Position(call.f) /\ txbuf.count = CurCount
        /\ fids' = fids /\ host' = host
    BY <1>14, TransferRequest DEF ServeRead, Request
  <2>2. /\ txbuf' \in [t : {"read"}, reply : {TRUE}, count : 0..CurCount, data : Seq(Nat)]
        /\ Len(txbuf'.data) = txbuf'.count
        /\ txbuf'.count = 0 => Position(call.f) >= Len(host[fids[call.f].node])
    BY <1>14, ReadServed
  <2>3. Position(call.f)' = Position(call.f)
    BY <1>1 DEF Position
  <2> QED BY <1>1, <1>13, <2>1, <2>2, <2>3 DEF Exchange, MoveExchange
<1>15. CASE ServeWrite
  <2>1. /\ call.at = "moving" /\ call.op = "write"
        /\ txbuf' \in [t : {"write"}, reply : {TRUE}, count : 0..CurCount]
    <3>1. PICK r \in 0..CurCount : txbuf' = [t |-> "write", reply |-> TRUE, count |-> r]
      BY <1>15, WriteServed
    <3> QED BY <1>15, <3>1, WriteServed
  <2> QED BY <1>1, <1>13, <2>1 DEF Exchange, MoveExchange
<1>16. CASE BadCount
  <2>1. /\ call.at = "moving"
        /\ txbuf' = [t |-> call.op, reply |-> TRUE, count |-> CurCount + 1]
    BY <1>16, TransferRequest DEF BadCount
  <2> QED BY <1>1, <1>13, <2>1 DEF Exchange, MoveExchange
<1> QED
  BY <1>6, <1>7, <1>8, <1>9, <1>10, <1>11, <1>12, <1>14, <1>15, <1>16 DEF Server, Greet, OpenFid

LEMMA ExchangeStep == IInv /\ [Next]_vars => Exchange'
<1> SUFFICES ASSUME IInv, [Next]_vars PROVE Exchange'
  OBVIOUS
<1> USE DEF IInv
<1>1. CASE FsInit
  BY <1>1 DEF FsInit, Send, Exchange, VersionExchange
<1>2. ASSUME NEW f \in Handle,
             \/ \E p \in Paths : FsCreate(f, p) \/ \E m \in {"read", "write", "trunc"} : FsOpen(f, p, m)
             \/ \E n \in 1..MaxSize : FsRead(f, n)
             \/ \E d \in Data : FsWrite(f, d)
      PROVE Exchange'
  <2>1. txbuf = Nothing
    BY <1>2, CallShape DEF FsCreate, FsOpen, FsRead, FsWrite, NoCall, Exchange
  <2>2. call'.at \in {"walk", "move"} /\ txbuf' = Nothing
    BY <1>2, <2>1 DEF FsCreate, FsOpen, FsRead, FsWrite
  <2> QED BY <2>2 DEF Exchange, WalkExchange
<1>3. ASSUME NEW f \in Handle, FsClose(f)
      PROVE Exchange'
  BY <1>3 DEF FsClose, Send, Exchange
<1>4. CASE call' = NoCall /\ txbuf' = Nothing
  BY <1>4 DEF NoCall, Exchange
<1>5. CASE VersionReply
  <2>1. call \in InitCall
    BY <1>5, CallShape DEF VersionReply, Answered
  <2>2. CASE call' = [call EXCEPT !.at = "attach"] /\ txbuf' = [t |-> "attach", fid |-> Root]
    <3>1. call'.at = "attach"
      BY <2>1, <2>2 DEF InitCall
    <3> QED BY <2>2, <3>1 DEF Exchange
  <2> QED BY <1>4, <1>5, <2>2 DEF VersionReply, Send, Return, Continue
<1>6. CASE WalkStep
  <2>1. call \in WalkCall
    BY <1>6, CallShape DEF WalkStep, At
  <2> DEFINE p    == Skip(call.rest)
             name == IF p = <<>> THEN <<>>
                     ELSE IF call.skip /\ Len(p) = 1 THEN <<".">> ELSE <<Head(p)>>
  <2>2. p \in Seq(STRING)
    BY <2>1, PathPieces DEF WalkCall
  <2>3. name \in ShortNames
    <3>1. p # <<>> => Head(p) \in Name
      BY <2>2, HeadTailProperties DEF Name
    <3>2. "." \in Name
      BY DEF Name
    <3> QED BY <3>1, <3>2, ShortName
  <2>4. CASE call' = [call EXCEPT !.at = "walked"] /\ UNCHANGED txbuf
    <3>1. call'.at = "walked" /\ txbuf' = Nothing
      BY <1>6, <2>1, <2>4 DEF WalkStep, At, WalkCall
    <3> QED BY <3>1 DEF Exchange
  <2>5. CASE /\ txbuf' = [t |-> "walk", fid |-> call.from, newfid |-> call.f, name |-> name]
             /\ call' = Walked(IF p = <<>> THEN <<>> ELSE Tail(p))
    <3>1. call'.at = "walk" /\ call'.f = call.f
      BY <1>6, <2>1, <2>5 DEF WalkStep, At, Walked, WalkCall
    <3>2. txbuf' \in [t : {"walk"}, fid : Fid, newfid : {call'.f}, name : ShortNames]
      BY <2>1, <2>3, <2>5, <3>1 DEF WalkCall
    <3> QED BY <3>1, <3>2 DEF Exchange, WalkExchange
  <2> QED BY <1>6, <2>4, <2>5 DEF WalkStep, Send
<1>7. CASE WalkReply /\ call' # NoCall
  <2>1. call \in WalkCall
    BY <1>7, CallShape DEF WalkReply, Answered
  <2>2. txbuf' = Nothing /\ \E a \in {"walked", "walk"} : call' = [call EXCEPT !.at = a]
    BY <1>7 DEF WalkReply, Return, Continue
  <2>3. txbuf' = Nothing /\ call'.at \in {"walked", "walk"}
    BY <2>1, <2>2 DEF WalkCall
  <2> QED BY <2>3 DEF Exchange, WalkExchange
<1>8. CASE SendOpen
  <2>1. call \in WalkCall
    BY <1>8, CallShape DEF SendOpen, At
  <2>2. CASE /\ txbuf' = [t |-> "create", fid |-> call.f, name |-> LastName(call.path)]
             /\ call' = [call EXCEPT !.at = "create"]
    <3>1. call'.at = "create" /\ call'.f = call.f /\ call'.path = call.path
      BY <2>1, <2>2 DEF WalkCall
    <3> QED BY <2>2, <3>1 DEF Exchange, CreateExchange
  <2>3. CASE /\ txbuf' = [t |-> "open", fid |-> call.f, mode |-> call.mode]
             /\ call' = [call EXCEPT !.at = "open"]
    <3>1. call'.at = "open" /\ call'.f = call.f /\ call'.mode = call.mode
      BY <2>1, <2>3 DEF WalkCall
    <3> QED BY <2>3, <3>1 DEF Exchange, OpenExchange
  <2> QED BY <1>8, <2>2, <2>3 DEF SendOpen, Send
<1>9. CASE CreateReply /\ call' # NoCall
  <2>1. call \in WalkCall
    BY <1>9, CallShape DEF CreateReply, Answered
  <2>2. call'.at = "walk" /\ txbuf' = Nothing
    BY <1>9, <2>1 DEF CreateReply, Return, Continue, Fallback, WalkCall
  <2> QED BY <2>2 DEF Exchange, WalkExchange
<1>10. CASE MoveStep
  <2>1. call \in MoveCall /\ call' = [call EXCEPT !.at = "moving"]
        /\ maxlen' = maxlen /\ off' = off
    BY <1>10, CallShape DEF MoveStep, At
  <2>2. call'.at = "moving" /\ call'.op = call.op /\ call'.f = call.f
        /\ call'.count = call.count /\ call'.buf = call.buf
    BY <2>1 DEF MoveCall
  <2>3. CurCount' = CurCount
    BY <2>1, <2>2 DEF CurCount, Left
  <2>4. txbuf' = MoveRequest
    BY <1>10, <2>1 DEF MoveStep, Send, MoveRequest
  <2>5. MoveRequest' = MoveRequest
    BY <2>1, <2>2, <2>3 DEF MoveRequest
  <2> QED BY <2>2, <2>4, <2>5 DEF Exchange, MoveExchange
<1>11. CASE MoveReply /\ call' # NoCall
  <2>1. call \in MoveCall /\ call' = Moved(txbuf.count) /\ txbuf' = Nothing
    BY <1>11, CallShape DEF MoveReply, Answered, Return, Continue
  <2>2. call'.at = "move"
    BY <2>1 DEF Moved, MoveCall
  <2> QED BY <2>1, <2>2 DEF Exchange
<1>12. CASE Server
  BY <1>12, ServerExchange
<1>13. CASE UNCHANGED vars
  <2>1. CurCount' = CurCount /\ Position(call.f)' = Position(call.f)
    BY <1>13 DEF vars, CurCount, Left, Position
  <2>2. MoveRequest' = MoveRequest
    BY <1>13, <2>1 DEF vars, MoveRequest
  <2>3. MoveExchange => MoveExchange'
    BY <1>13, <2>1, <2>2 DEF vars, MoveExchange
  <2>4. /\ VersionExchange => VersionExchange'
        /\ WalkExchange => WalkExchange'
        /\ CreateExchange => CreateExchange'
        /\ OpenExchange => OpenExchange'
    BY <1>13 DEF vars, VersionExchange, WalkExchange, CreateExchange, OpenExchange
  <2> QED BY <1>13, <2>3, <2>4 DEF vars, Exchange
<1>14. AttachReply \/ OpenReply \/ ClunkReply => call' = NoCall /\ txbuf' = Nothing
  BY DEF AttachReply, OpenReply, ClunkReply, Return, Continue
<1>15. WalkReply \/ CreateReply \/ MoveReply => txbuf' = Nothing
  BY DEF WalkReply, CreateReply, MoveReply, Return, Continue
<1> QED
  BY <1>1, <1>2, <1>3, <1>4, <1>5, <1>6, <1>7, <1>8, <1>9, <1>10, <1>11, <1>12, <1>13,
     <1>14, <1>15 DEF Next, Program, Client

LEMMA InitInv == Init => IInv
<1> SUFFICES ASSUME Init PROVE IInv
  OBVIOUS
<1>1. TypeOK
  <2>1. Word \in Nat \ {0} /\ [lo |-> 0, hi |-> 0] \in Offset /\ Free \in FidNode
    BY Fs9pAssumption DEF Offset, MoveHead, Free, FidNode
  <2> QED BY <2>1, Fs9pAssumption DEF Init, TypeOK
<1>2. Attached /\ OpenFids /\ Progress
  BY DEF Init, NoCall, Free, Attached, OpenFids, Progress
<1>3. Exchange
  BY DEF Init, NoCall, Exchange
<1> QED BY <1>1, <1>2, <1>3 DEF IInv

LEMMA StepInv == IInv /\ [Next]_vars => IInv'
BY TypeStep, AttachedStep, OpenFidsStep, ExchangeStep, ProgressStep DEF IInv
-----------------------------------------------------------------------------
(* Theorems.                                                               *)

\* Each phase of a call has the call, the handle, the request or answer and the
\* counts that belong to it.
THEOREM Invariant == Spec => []IInv
<1> QED BY InitInv, StepInv, PTL DEF Spec

\* However a transfer is cut into messages, the handle stands where the call
\* began plus what has been moved, and buffer and counts agree with that.
THEOREM TransfersAddUp == Spec => []Progress
<1>1. IInv => Progress
  BY DEF IInv
<1> QED BY <1>1, Invariant, PTL

\* A request in txbuf is no longer than the two sides agreed on.
THEOREM RequestsFit == Spec => []FitsMessage
<1>1. IInv => FitsMessage
  <2> SUFFICES ASSUME IInv, Pending
               PROVE  SizeOf(txbuf) <= IF maxlen = 0 THEN MAXLEN ELSE maxlen
    BY DEF FitsMessage
  <2> USE DEF IInv
  <2>1. maxlen \in {0} \cup MinLen..MAXLEN /\ MinLen >= 24 /\ MAXLEN >= 24
        /\ MinLen \in Nat /\ MAXLEN \in Nat
    BY Fs9pAssumption DEF TypeOK, MoveHead
  <2>2. txbuf # Nothing /\ "reply" \notin DOMAIN txbuf
    BY DEF Pending
  <2>3. \A s \in ShortNames : Len(s) \in Nat /\ Len(s) <= 1
    BY LenProperties DEF ShortNames
  <2>4. CASE \/ txbuf = [t |-> "version", msize |-> MAXLEN]
             \/ txbuf = [t |-> "attach", fid |-> Root]
    BY <2>1, <2>4 DEF SizeOf
  <2>5. CASE txbuf \in [t : {"walk"}, fid : Fid, newfid : {call.f}, name : ShortNames]
    BY <2>1, <2>5 DEF SizeOf, NameLen
  <2>6. CASE /\ call.at = "create"
             /\ txbuf = [t |-> "create", fid |-> call.f, name |-> LastName(call.path)]
    <3>1. call \in WalkCall
      BY <2>6, CallShape
    <3>2. LastName(call.path) \in ShortNames
      BY <3>1, PathPieces, Fs9pAssumption DEF WalkCall
    <3>3. SizeOf(txbuf) = 18 + NameLen * Len(LastName(call.path))
      BY <2>6 DEF SizeOf
    <3> QED BY <2>1, <2>3, <3>2, <3>3 DEF NameLen
  <2>7. CASE txbuf = [t |-> "open", fid |-> call.f, mode |-> call.mode]
    BY <2>1, <2>7 DEF SizeOf
  <2>8. CASE txbuf \in [t : {"clunk"}, fid : Handle]
    BY <2>1, <2>8 DEF SizeOf
  <2>9. CASE call.at = "moving" /\ txbuf = MoveRequest
    <3>1. call \in MoveCall /\ call.op \in {"read", "write"}
      BY <2>9, CallShape DEF MoveCall
    <3>2. CurCount \in Nat /\ CurCount <= Left /\ CurCount <= call.count
      BY <3>1, CurCountFits
    <3>3. MoveHead + CurCount <= maxlen /\ maxlen # 0
      BY <2>1, <3>2 DEF Left, MoveHead
    <3>4. CASE call.op = "read"
      <4>1. SizeOf(txbuf) = MoveHead
        BY <2>9, <3>4 DEF MoveRequest, SizeOf
      <4> QED BY <2>1, <3>2, <3>3, <4>1 DEF MoveHead
    <3>5. CASE call.op = "write"
      <4>1. CurCount \in 0..Len(call.buf) /\ call.buf \in Seq(Nat)
        BY <3>1, <3>2, <3>5 DEF Progress, MoveCall
      <4>2. Len(SubSeq(call.buf, 1, CurCount)) = CurCount
        BY <4>1, <3>2, SubSeqOfPrefix
      <4>3. SizeOf(txbuf) = MoveHead + CurCount
        BY <2>9, <3>5, <4>2 DEF MoveRequest, SizeOf
      <4> QED BY <3>3, <4>3
    <3> QED BY <3>1, <3>4, <3>5
  <2> QED BY <2>2, <2>4, <2>5, <2>6, <2>7, <2>8, <2>9, PendingRequest
<1> QED BY <1>1, Invariant, PTL

\* A read that returns less than it was asked for, and no error, has come to
\* the end of the file.
THEOREM ShortReadsEnd == Spec => ShortMeansEnd
<1>1. ASSUME IInv, MoveReply, Idle', Replied("read"), txbuf.count <= CurCount
      PROVE  \/ call.total + txbuf.count = call.asked
             \/ Position(call.f) >= Len(host[fids[call.f].node])
  <2> USE <1>1 DEF IInv
  <2>1. call \in MoveCall /\ Answered("moving")
    BY CallShape DEF MoveReply, Answered
  <2>2. call.op = "read"
    <3> SUFFICES ASSUME call.op = "write" PROVE FALSE
      BY <2>1 DEF MoveCall
    <3>1. MoveExchange
      BY <2>1 DEF Answered, Exchange
    <3>2. txbuf.t # "read"
      <4>1. CASE txbuf \in {MoveRequest, ErrorReply}
        BY <4>1 DEF MoveRequest, ErrorReply
      <4>2. CASE txbuf = [t |-> call.op, reply |-> TRUE, count |-> CurCount + 1]
        BY <4>2
      <4>3. CASE txbuf \in [t : {"write"}, reply : {TRUE}, count : 0..CurCount]
        BY <4>3
      <4> QED BY <3>1, <4>1, <4>2, <4>3 DEF MoveExchange
    <3> QED BY <3>2 DEF Replied
  <2>3. Over(txbuf.count)
    BY <2>1, <2>2 DEF MoveReply, Idle, Continue, Moved, MoveCall
  <2>4. call.total + call.count = call.asked
    BY <2>2 DEF Progress
  <2> QED BY <2>2, <2>3, <2>4, <2>1, MovedReply DEF Over
<1> QED BY <1>1, Invariant, PTL DEF Spec, ShortMeansEnd
-----------------------------------------------------------------------------
(* The refinement.                                                         *)

\* The reply in txbuf that has moved something, before the client reads it.
Taken == call.at = "moving" /\ Replied(call.op) /\ txbuf.count <= CurCount

NodeIn(f) == IF fids[f].mode = "free" THEN NoFile ELSE fids[f].node

\* What the program sees while no such reply waits, and while one does.
PlainlySeen ==
  /\ \A f \in Handle : Cursor(f) = [file |-> NodeIn(f), pos |-> Position(f)]
  /\ Buffer = IF call.op \in {"read", "write"} THEN call.buf ELSE <<>>

TakenSeen ==
  /\ call \in MoveCall /\ txbuf.count \in 0..CurCount /\ CurCount \in Nat
  /\ \A f \in Handle : Cursor(f) =
       [file |-> NodeIn(f), pos |-> Position(f) + IF f = call.f THEN txbuf.count ELSE 0]
  /\ Buffer = IF call.op = "read" THEN call.buf \o txbuf.data
              ELSE SubSeq(call.buf, txbuf.count + 1, Len(call.buf))

LEMMA PlainView == IInv /\ ~Taken => PlainlySeen
<1> SUFFICES ASSUME IInv, ~Taken PROVE PlainlySeen
  OBVIOUS
<1>1. \A f : InFlight(f) = 0
  BY DEF InFlight, Taken
<1>2. ASSUME NEW f \in Handle
      PROVE  Cursor(f) = [file |-> NodeIn(f), pos |-> Position(f)]
  <2>1. Position(f) \in Nat
    BY PositionNat DEF IInv
  <2> QED BY <1>1, <2>1 DEF Cursor, NodeIn
<1>3. CASE call.op \in {"read", "write"}
  <2>1. call.buf \in Seq(Nat)
    BY <1>3, CallShape DEF IInv, MoveCall
  <2>2. SubSeq(call.buf, 0 + 1, Len(call.buf)) = call.buf
    BY <2>1, SubSeqFull
  <2> QED BY <1>1, <1>2, <1>3, <2>2 DEF Buffer, PlainlySeen
<1>4. CASE call.op \notin {"read", "write"}
  BY <1>2, <1>4 DEF Buffer, PlainlySeen
<1> QED BY <1>3, <1>4

LEMMA TakenView == IInv /\ Taken => TakenSeen
<1> SUFFICES ASSUME IInv, Taken PROVE TakenSeen
  OBVIOUS
<1>1. /\ call \in MoveCall /\ txbuf.count \in 0..CurCount
      /\ call.op = "read" => txbuf.data \in Seq(Nat) /\ Len(txbuf.data) = txbuf.count
  BY MovedReply DEF Taken, Answered, Replied
<1>2. CurCount \in Nat /\ call.op \in {"read", "write"}
  BY <1>1, CurCountFits DEF IInv, MoveCall
<1>3. \A f : InFlight(f) = IF f = call.f THEN txbuf.count ELSE 0
  BY DEF InFlight, Taken
<1>4. \A f \in Handle : Cursor(f) =
        [file |-> NodeIn(f), pos |-> Position(f) + IF f = call.f THEN txbuf.count ELSE 0]
  BY <1>3 DEF Cursor, NodeIn
<1>5. CASE call.op = "read"
  <2>1. txbuf.count = 0 => call.buf = call.buf \o txbuf.data
    <3> SUFFICES ASSUME txbuf.count = 0 PROVE call.buf = call.buf \o txbuf.data
      OBVIOUS
    <3>1. txbuf.data = <<>>
      BY <1>1, <1>5, EmptySeq
    <3> QED BY <1>1, <3>1, ConcatEmptySeq DEF MoveCall
  <2> QED BY <1>1, <1>2, <1>3, <1>4, <1>5, <2>1 DEF Buffer, TakenSeen
<1>6. CASE call.op = "write"
  BY <1>1, <1>2, <1>3, <1>4, <1>6 DEF Buffer, TakenSeen
<1> QED BY <1>2, <1>5, <1>6

\* One handle's cursor is moved, or put on another file.
LEMMA SetPos ==
  ASSUME NEW f \in Handle, NEW n, NEW p, NEW q,
         Cursor(f) = [file |-> n, pos |-> p], Cursor(f)' = [file |-> n, pos |-> q],
         \A g \in Handle \ {f} : Cursor(g)' = Cursor(g)
  PROVE  Cursors' = [Cursors EXCEPT ![f].pos = q]
<1>1. Cursors[f] = [file |-> n, pos |-> p]
  BY DEF Cursors
<1>2. [Cursors[f] EXCEPT !.pos = q] = [file |-> n, pos |-> q]
  BY <1>1
<1>3. Cursors' = [Cursors EXCEPT ![f] = [file |-> n, pos |-> q]]
  BY DEF Cursors
<1> QED BY <1>2, <1>3

LEMMA SetFile ==
  ASSUME NEW f \in Handle, NEW n, NEW m, NEW p,
         Cursor(f) = [file |-> n, pos |-> p], Cursor(f)' = [file |-> m, pos |-> p],
         \A g \in Handle \ {f} : Cursor(g)' = Cursor(g)
  PROVE  Cursors' = [Cursors EXCEPT ![f].file = m]
<1>1. Cursors[f] = [file |-> n, pos |-> p]
  BY DEF Cursors
<1>2. [Cursors[f] EXCEPT !.file = m] = [file |-> m, pos |-> p]
  BY <1>1
<1>3. Cursors' = [Cursors EXCEPT ![f] = [file |-> m, pos |-> p]]
  BY DEF Cursors
<1> QED BY <1>2, <1>3

\* A step that leaves handles, files and offsets alone shows in the buffer only.
LEMMA QuietStep ==
  ASSUME PlainlySeen, PlainlySeen', UNCHANGED <<host, off>>,
         \A f \in Handle : fids'[f] = fids[f]
  PROVE  UNCHANGED <<Content, Cursors>>
<1>1. Content' = Content
  BY DEF Content
<1>2. \A f \in Handle : Cursor(f)' = Cursor(f)
  BY DEF PlainlySeen, NodeIn, Position
<1> QED BY <1>1, <1>2 DEF Cursors

\* The client's steps: only reading a reply, opening and beginning show.
LEMMA ClientRefines ==
  ASSUME IInv, IInv', PlainlySeen \/ MoveReply, PlainlySeen', Program \/ Client
  PROVE  Abstract!Next \/ UNCHANGED <<Content, Cursors, Buffer>>
<1> USE DEF IInv
<1>0. host' = host /\ fids' = fids
  BY DEF Program, Client, FsInit, FsCreate, FsOpen, FsClose, FsRead, FsWrite,
    VersionReply, AttachReply, WalkStep, WalkReply, SendOpen, CreateReply, OpenReply,
    ClunkReply, MoveStep, MoveReply
<1>1. ASSUME UNCHANGED <<Content, Cursors>>, Buffer' \in Data \cup {<<>>}
      PROVE  Abstract!Next
  BY <1>1 DEF Abstract!Next, Abstract!Begin
<1>2. ASSUME NEW f \in Handle, NEW n \in 1..MaxSize, FsRead(f, n), PlainlySeen
      PROVE  Abstract!Next
  <2>1. off' = off /\ Buffer' = <<>>
    BY <1>2 DEF FsRead, PlainlySeen
  <2> QED BY <1>0, <1>1, <1>2, <2>1, QuietStep
<1>3. ASSUME NEW f \in Handle, NEW d \in Data, FsWrite(f, d), PlainlySeen
      PROVE  Abstract!Next
  <2>1. off' = off /\ Buffer' = d
    BY <1>3 DEF FsWrite, PlainlySeen
  <2> QED BY <1>0, <1>1, <1>3, <2>1, QuietStep
<1>4. ASSUME off' = off, PlainlySeen, call.op \notin {"read", "write"},
             call'.op \notin {"read", "write"}
      PROVE  UNCHANGED <<Content, Cursors, Buffer>>
  BY <1>0, <1>4, QuietStep DEF PlainlySeen
<1>5. CASE OpenReply /\ PlainlySeen
  <2>1. call \in WalkCall /\ call.f \in Handle /\ call' = NoCall
    BY <1>5, CallShape DEF OpenReply, Answered, Return, Continue, WalkCall
  <2>2. Buffer' = Buffer
    BY <1>5, <2>1 DEF PlainlySeen, WalkCall, NoCall
  <2>3. CASE off' = off
    BY <1>0, <1>5, <2>2, <2>3, QuietStep
  <2>4. CASE off' = [off EXCEPT ![call.f] = [lo |-> 0, hi |-> 0]]
    <3>1. PICK f \in Handle : f = call.f
      BY <2>1
    <3>2. \A g \in Handle \ {f} : Cursor(g)' = Cursor(g)
      BY <1>0, <1>5, <2>4, <3>1 DEF TypeOK, PlainlySeen, NodeIn, Position
    <3>3. Position(f)' = 0
      <4>1. off'[f].hi = 0 /\ off'[f].lo = 0 /\ Word \in Nat
        BY <2>4, <3>1, Fs9pAssumption DEF TypeOK
      <4> QED BY <4>1 DEF Position
    <3>4. /\ Cursor(f) = [file |-> NodeIn(f), pos |-> Position(f)]
          /\ Cursor(f)' = [file |-> NodeIn(f), pos |-> 0]
      BY <1>0, <1>5, <3>3 DEF PlainlySeen, NodeIn
    <3>5. Cursors' = [Cursors EXCEPT ![f].pos = 0]
      BY <3>2, <3>4, SetPos
    <3>6. Content' = Content
      BY <1>0 DEF Content
    <3> QED BY <2>2, <3>5, <3>6 DEF Abstract!Next, Abstract!Rewind
  <2> QED BY <1>5, <2>3, <2>4 DEF OpenReply
<1>6. CASE MoveStep /\ PlainlySeen
  <2>1. call \in MoveCall /\ call' = [call EXCEPT !.at = "moving"] /\ off' = off
    BY <1>6, CallShape DEF MoveStep, At
  <2>2. call'.op = call.op /\ call'.buf = call.buf
    BY <2>1 DEF MoveCall
  <2>3. Buffer' = Buffer
    BY <1>6, <2>2 DEF PlainlySeen
  <2> QED BY <1>0, <1>6, <2>1, <2>3, QuietStep
<1>7. CASE MoveReply /\ ~Taken
  <2>1. PlainlySeen /\ off' = off /\ call' = NoCall
    BY <1>7, PlainView DEF MoveReply, Answered, Taken, Return, Continue
  <2>2. Buffer' = <<>>
    BY <2>1 DEF PlainlySeen, NoCall
  <2> QED BY <1>0, <1>1, <2>1, <2>2, QuietStep
<1>11. CASE MoveReply /\ Taken
  <2>1. TakenSeen
    BY <1>11, TakenView
  <2>2. /\ txbuf.count \in 0..Word-1 /\ call.f \in Handle /\ off[call.f] \in Offset
        /\ off' = [off EXCEPT ![call.f] = Advanced(@, txbuf.count)]
    <3>1. CurCount \in 0..Word-1 /\ call.f \in Handle
      BY <2>1, CurCountFits DEF TakenSeen, MoveCall
    <3> QED BY <1>11, <2>1, <3>1, Fs9pAssumption DEF TakenSeen, MoveReply, Taken, TypeOK
  <2>3. \A f \in Handle : Cursor(f)' = Cursor(f)
    <3> SUFFICES ASSUME NEW f \in Handle PROVE Cursor(f)' = Cursor(f)
      OBVIOUS
    <3>1. Position(f)' = Position(f) + IF f = call.f THEN txbuf.count ELSE 0
      <4>1. CASE f = call.f
        BY <2>2, <4>1, AdvancedMoves DEF TypeOK, Position
      <4>2. CASE f # call.f
        BY <2>2, <4>2, PositionNat DEF TypeOK, Position
      <4> QED BY <4>1, <4>2
    <3> QED BY <1>0, <2>1, <3>1 DEF TakenSeen, PlainlySeen, NodeIn
  <2>4. UNCHANGED <<Content, Cursors>>
    BY <1>0, <2>3 DEF Content, Cursors
  <2>5. CASE call' = NoCall
    <3>1. Buffer' = <<>>
      BY <2>5 DEF PlainlySeen, NoCall
    <3> QED BY <1>1, <2>4, <3>1
  <2>6. CASE call' = Moved(txbuf.count)
    <3>1. /\ call'.op = call.op /\ call.op \in {"read", "write"}
          /\ call'.buf = IF call.op = "read" THEN call.buf \o txbuf.data
                         ELSE SubSeq(call.buf, txbuf.count + 1, Len(call.buf))
      BY <2>1, <2>6 DEF Moved, TakenSeen, MoveCall
    <3>2. Buffer' = Buffer
      BY <2>1, <3>1 DEF PlainlySeen, TakenSeen
    <3> QED BY <2>4, <3>2
  <2> QED BY <1>11, <2>5, <2>6 DEF MoveReply, Taken, Return, Continue
<1>8. CASE (VersionReply \/ AttachReply \/ ClunkReply) /\ PlainlySeen
  <2>1. call \in InitCall \cup CloseCall
    BY <1>8, CallShape DEF VersionReply, AttachReply, ClunkReply, Answered
  <2>2. call'.op \notin {"read", "write"}
    BY <1>8, <2>1 DEF VersionReply, AttachReply, ClunkReply, Return, Continue, NoCall,
      InitCall, CloseCall
  <2> QED BY <1>4, <1>8, <2>1, <2>2 DEF InitCall, CloseCall, VersionReply, AttachReply, ClunkReply
<1>9. CASE (WalkStep \/ WalkReply \/ SendOpen \/ CreateReply) /\ PlainlySeen
  <2>1. call \in WalkCall /\ call' \in WalkCall \cup {NoCall}
    BY <1>9, WalkCallStep
  <2>2. off' = off
    BY <1>9 DEF WalkStep, WalkReply, SendOpen, CreateReply
  <2> QED BY <1>4, <1>9, <2>1, <2>2 DEF WalkCall, NoCall
<1>10. ASSUME PlainlySeen,
              \/ FsInit
              \/ \E f \in Handle : \/ FsClose(f)
                                   \/ \E p \in Paths : \/ FsCreate(f, p)
                                                       \/ \E m \in {"read", "write", "trunc"} : FsOpen(f, p, m)
       PROVE  UNCHANGED <<Content, Cursors, Buffer>>
  <2>1. Idle /\ off' = off /\ call'.op \notin {"read", "write"}
    <3>1. CASE FsInit
      BY <3>1 DEF FsInit
    <3>2. ASSUME NEW f \in Handle, FsClose(f)
          PROVE  Idle /\ off' = off /\ call'.op \notin {"read", "write"}
      BY <3>2 DEF FsClose
    <3>3. ASSUME NEW f \in Handle, NEW p \in Paths,
                 FsCreate(f, p) \/ \E m \in {"read", "write", "trunc"} : FsOpen(f, p, m)
          PROVE  Idle /\ off' = off /\ call'.op \notin {"read", "write"}
      BY <3>3 DEF FsCreate, FsOpen
    <3> QED BY <1>10, <3>1, <3>2, <3>3
  <2> QED BY <1>4, <1>10, <2>1 DEF Idle
<1> QED
  BY <1>2, <1>3, <1>5, <1>6, <1>7, <1>8, <1>9, <1>10, <1>11 DEF Program, Client

\* The server's steps: what it does to a fid and to a file shows, and what a
\* reply has moved as soon as it is in txbuf.
LEMMA ServerRefines ==
  ASSUME IInv, IInv', PlainlySeen, Server
  PROVE  Abstract!Next \/ UNCHANGED <<Content, Cursors, Buffer>>
<1> USE DEF IInv
<1>0. call' = call /\ off' = off /\ maxlen' = maxlen
  BY DEF Server
<1>1. ~Taken' => PlainlySeen' /\ Buffer' = Buffer
  <2>1. ~Taken' => PlainlySeen'
    BY PlainView, PTL
  <2> QED BY <1>0, <2>1 DEF PlainlySeen
<1>2. CASE (Refuse \/ Greet) /\ ~Taken'
  <2>1. host' = host /\ \A f \in Handle : fids'[f] = fids[f]
    BY <1>2, Fs9pAssumption DEF Refuse, Greet, TypeOK, Fid
  <2> QED BY <1>0, <1>1, <1>2, <2>1, QuietStep
<1>3. CASE Walk \/ Clunk
  <2>1. PICK f \in Handle : /\ txbuf.t = "walk" => f = txbuf.newfid
                            /\ txbuf.t = "clunk" => f = txbuf.fid
                            /\ f \in Fid
    BY <1>3, WalkRequest, ClunkRequest DEF Walk, Clunk, Request, Fid
  <2>2. /\ call.at # "moving" /\ host' = host
        /\ NodeIn(f)' = NoFile
        /\ \A g \in Handle \ {f} : fids'[g] = fids[g]
    <3>1. CASE Walk
      <4>1. f = txbuf.newfid /\ call.at = "walk"
        BY <2>1, <3>1, WalkRequest DEF Walk, Request
      <4>2. PICK m : fids' = [fids EXCEPT ![f] = [node |-> m, mode |-> "free"]]
        BY <3>1, <4>1 DEF Walk
      <4>3. /\ fids'[f] = [node |-> m, mode |-> "free"]
            /\ \A g \in Handle \ {f} : fids'[g] = fids[g]
        BY <2>1, <4>2 DEF TypeOK, Fid
      <4>4. NodeIn(f)' = NoFile
        BY <4>3 DEF NodeIn
      <4>5. host' = host
        BY <3>1 DEF Walk
      <4> QED BY <4>1, <4>3, <4>4, <4>5
    <3>2. CASE Clunk
      BY <2>1, <3>2, ClunkRequest DEF Clunk, Request, Free, NodeIn, TypeOK
    <3> QED BY <1>3, <3>1, <3>2
  <2>3. PlainlySeen' /\ Buffer' = Buffer
    BY <1>0, <1>1, <2>2 DEF Taken
  <2>4. \A g \in Handle \ {f} : Cursor(g)' = Cursor(g)
    BY <1>0, <2>2, <2>3 DEF PlainlySeen, NodeIn, Position
  <2>5. /\ Cursor(f) = [file |-> NodeIn(f), pos |-> Position(f)]
        /\ Cursor(f)' = [file |-> NoFile, pos |-> Position(f)]
    BY <1>0, <2>2, <2>3 DEF PlainlySeen, Position
  <2>6. Cursors' = [Cursors EXCEPT ![f].file = NoFile]
    BY <2>4, <2>5, SetFile
  <2>7. Content' = Content
    BY <2>2 DEF Content
  <2> QED BY <2>3, <2>6, <2>7 DEF Abstract!Next, Abstract!Close
<1>4. CASE OpenFid
  <2>1. PICK f \in Handle : f = txbuf.fid /\ f \in Fid
    BY <1>4, OpenRequest DEF OpenFid
  <2>2. PICK n \in File :
          /\ fids'[f].node = n /\ fids'[f].mode # "free"
          /\ \A g \in Handle \ {f} : fids'[g] = fids[g]
          /\ host' = [host EXCEPT ![n] = <<>>] \/ host' = host
    <3>1. CASE OpenFid!1
      <4>1. fids[f] \in FidNode
        BY <2>1 DEF TypeOK
      <4>2. host' = [host EXCEPT ![fids[f].node] = <<>>] \/ host' = host
        BY <2>1, <3>1 DEF TypeOK
      <4>3. /\ fids'[f].node = fids[f].node /\ fids'[f].mode # "free"
            /\ \A g \in Handle \ {f} : fids'[g] = fids[g]
        BY <2>1, <3>1, <4>1 DEF TypeOK, FidNode
      <4> QED BY <2>1, <3>1, <4>2, <4>3
    <3>2. CASE OpenFid!2
      <4> DEFINE n == fids[f].node \o txbuf.name
      <4>1. n \in File
        BY <2>1, <3>2
      <4>2. /\ fids' = [fids EXCEPT ![f] = [node |-> n, mode |-> "write"]]
            /\ host' = [host EXCEPT ![n] = <<>>]
        BY <2>1, <3>2
      <4> HIDE DEF n
      <4>3. /\ fids'[f].node = n /\ fids'[f].mode # "free"
            /\ \A g \in Handle \ {f} : fids'[g] = fids[g]
        BY <2>1, <4>2 DEF TypeOK
      <4> QED BY <4>1, <4>2, <4>3
    <3> QED BY <1>4, <3>1, <3>2 DEF OpenFid
  <2>3. call.at # "moving"
    BY <1>4, OpenRequest DEF OpenFid, Request
  <2>4. PlainlySeen' /\ Buffer' = Buffer
    BY <1>0, <1>1, <2>3 DEF Taken
  <2>5. \A g \in Handle \ {f} : Cursor(g)' = Cursor(g)
    BY <1>0, <2>2, <2>4 DEF PlainlySeen, NodeIn, Position
  <2>6. /\ Cursor(f) = [file |-> NodeIn(f), pos |-> Position(f)]
        /\ Cursor(f)' = [file |-> n, pos |-> Position(f)]
    BY <1>0, <2>2, <2>4 DEF PlainlySeen, NodeIn, Position
  <2>7. Cursors' = [Cursors EXCEPT ![f].file = n]
    BY <2>5, <2>6, SetFile
  <2>8. Content' \in {Content, [Content EXCEPT ![n] = <<>>]}
    BY <2>2 DEF Content, TypeOK, Missing
  <2> QED BY <2>4, <2>7, <2>8 DEF Abstract!Next, Abstract!Open
<1>5. CASE ServeRead
  <2>1. PICK f \in Handle : f = call.f
    BY <1>5, ReadServed DEF MoveCall
  <2> DEFINE c == host[fids[f].node]
             p == Position(f)
  <2>2. /\ call \in MoveCall /\ call.at = "moving" /\ call.op = "read"
        /\ NodeIn(f) = fids[f].node /\ NodeIn(f) \in File /\ NodeIn(f) # NoFile
        /\ c \in Seq(Nat) /\ CurCount \in Nat
    BY <1>5, <2>1, ReadServed, CurCountFits DEF NodeIn, File, NoFile
  <2>3. PICK r \in 0..CurCount :
          /\ txbuf' = [t |-> "read", reply |-> TRUE, count |-> r, data |-> SubSeq(c, p + 1, p + r)]
          /\ r # 0 => p + r <= Len(c)
    BY <1>5, <2>1, ReadServed
  <2>4. fids' = fids /\ host' = host
    BY <1>5 DEF ServeRead
  <2>5. CurCount' = CurCount
    BY <1>0 DEF CurCount, Left
  <2>6. Taken'
    BY <1>0, <2>2, <2>3, <2>5 DEF Taken, Replied
  <2>7. TakenSeen'
    BY <2>6, TakenView, PTL
  <2>8. p \in Nat /\ Len(c) \in Nat /\ r \in Nat
    BY <2>2, <2>3, PositionNat, LenProperties
  <2>9. /\ Cursor(f) = [file |-> NodeIn(f), pos |-> p]
        /\ Cursor(f)' = [file |-> NodeIn(f), pos |-> p + r]
        /\ \A g \in Handle \ {f} : Cursor(g)' = Cursor(g)
    <3>1. Cursor(f) = [file |-> NodeIn(f), pos |-> p]
      BY DEF PlainlySeen
    <3>2. Cursor(f)' = [file |-> NodeIn(f), pos |-> p + r]
      BY <1>0, <2>1, <2>3, <2>4, <2>7 DEF TakenSeen, NodeIn, Position
    <3>3. ASSUME NEW g \in Handle \ {f} PROVE Cursor(g)' = Cursor(g)
      <4>1. Position(g) \in Nat
        BY PositionNat
      <4> QED BY <1>0, <2>1, <2>4, <2>7, <4>1 DEF TakenSeen, PlainlySeen, NodeIn, Position
    <3> QED BY <3>1, <3>2, <3>3
  <2>10. Buffer = call.buf /\ Buffer' = Buffer \o SubSeq(c, p + 1, p + r)
    BY <1>0, <2>2, <2>3, <2>7 DEF TakenSeen, PlainlySeen
  <2>11. Content' = Content /\ Content[NodeIn(f)] = c
    BY <2>2, <2>4 DEF Content, Missing
  <2>12. CASE r = 0
    <3>1. SubSeq(c, p + 1, p + r) = <<>>
      BY <2>8, <2>12, SubSeqEmpty
    <3>2. Buffer' = Buffer
      BY <2>2, <2>10, <3>1, ConcatEmptySeq DEF MoveCall
    <3>3. Cursors' = Cursors
      BY <2>8, <2>9, <2>12 DEF Cursors
    <3> QED BY <2>11, <3>2, <3>3
  <2>13. CASE r # 0
    <3>1. Cursors[f] = [file |-> NodeIn(f), pos |-> p]
      BY <2>9 DEF Cursors
    <3>2. Cursors' = [Cursors EXCEPT ![f].pos = p + r]
      BY <2>9, SetPos
    <3>3. r \in 1..Len(Content[Cursors[f].file]) - Cursors[f].pos
      BY <2>3, <2>8, <2>11, <2>13, <3>1
    <3>4. Cursors' = [Cursors EXCEPT ![f].pos = @ + r]
      BY <3>1, <3>2
    <3>5. Buffer' = Buffer \o SubSeq(Content[Cursors[f].file], Cursors[f].pos + 1, Cursors[f].pos + r)
      <4>1. Cursors[f].file = NodeIn(f) /\ Cursors[f].pos = p
        BY <3>1
      <4>2. Content[Cursors[f].file] = c
        BY <2>11, <4>1
      <4> HIDE DEF c, p
      <4> QED BY <2>10, <4>1, <4>2
    <3>6. Abstract!Read(f)
      BY <2>11, <3>3, <3>4, <3>5 DEF Abstract!Read
    <3> QED BY <2>2, <3>1, <3>6 DEF Abstract!Next
  <2> QED BY <2>12, <2>13
<1>6. CASE ServeWrite
  <2>1. PICK f \in Handle : f = call.f
    BY <1>6, WriteServed DEF MoveCall
  <2> DEFINE n == fids[f].node
             p == Position(f)
  <2>2. /\ call \in MoveCall /\ call.at = "moving" /\ call.op = "write"
        /\ NodeIn(f) = n /\ n \in File /\ NodeIn(f) # NoFile
        /\ call.buf \in Seq(Nat) /\ CurCount \in Nat /\ CurCount <= Len(call.buf)
    BY <1>6, <2>1, WriteServed, CurCountFits DEF NodeIn, File, NoFile, MoveCall, Progress
  <2>3. PICK r \in 0..CurCount :
          /\ txbuf' = [t |-> "write", reply |-> TRUE, count |-> r]
          /\ r = 0 => host' = host
          /\ r # 0 =>
               /\ SubSeq(call.buf, 1, r) \in Seq(Nat)
               /\ host[n] \in Seq(Nat)
               /\ host' = [host EXCEPT ![n] = Abstract!Patched(@, p, SubSeq(call.buf, 1, r))]
    BY <1>6, <2>1, WriteServed
  <2>4. fids' = fids
    BY <1>6 DEF ServeWrite
  <2>5. CurCount' = CurCount
    BY <1>0 DEF CurCount, Left
  <2>6. Taken'
    BY <1>0, <2>2, <2>3, <2>5 DEF Taken, Replied
  <2>7. TakenSeen'
    BY <2>6, TakenView, PTL
  <2>8. p \in Nat /\ Len(call.buf) \in Nat /\ r \in Nat /\ r <= Len(call.buf)
    BY <2>2, <2>3, PositionNat, LenProperties
  <2>9. /\ Cursor(f) = [file |-> NodeIn(f), pos |-> p]
        /\ Cursor(f)' = [file |-> NodeIn(f), pos |-> p + r]
        /\ \A g \in Handle \ {f} : Cursor(g)' = Cursor(g)
    <3>1. Cursor(f) = [file |-> NodeIn(f), pos |-> p]
      BY DEF PlainlySeen
    <3>2. Cursor(f)' = [file |-> NodeIn(f), pos |-> p + r]
      BY <1>0, <2>1, <2>3, <2>4, <2>7 DEF TakenSeen, NodeIn, Position
    <3>3. ASSUME NEW g \in Handle \ {f} PROVE Cursor(g)' = Cursor(g)
      <4>1. Position(g) \in Nat
        BY PositionNat
      <4> QED BY <1>0, <2>1, <2>4, <2>7, <4>1 DEF TakenSeen, PlainlySeen, NodeIn, Position
    <3> QED BY <3>1, <3>2, <3>3
  <2>10. Buffer = call.buf /\ Buffer' = SubSeq(Buffer, r + 1, Len(Buffer))
    BY <1>0, <2>2, <2>3, <2>7 DEF TakenSeen, PlainlySeen
  <2>12. CASE r = 0
    <3>1. Buffer' = Buffer
      BY <2>2, <2>10, <2>12, SubSeqFull
    <3>2. Cursors' = Cursors
      BY <2>8, <2>9, <2>12 DEF Cursors
    <3>3. Content' = Content
      BY <2>3, <2>12 DEF Content
    <3> QED BY <3>1, <3>2, <3>3
  <2>13. CASE r # 0
    <3>1. Cursors[f] = [file |-> n, pos |-> p]
      BY <2>2, <2>9 DEF Cursors
    <3>2. Cursors' = [Cursors EXCEPT ![f].pos = p + r]
      BY <2>9, SetPos
    <3>3. Content' = [Content EXCEPT ![n] = Abstract!Patched(@, p, SubSeq(Buffer, 1, r))]
      <4> DEFINE new == Abstract!Patched(host[n], p, SubSeq(call.buf, 1, r))
      <4>1. new \in Seq(Nat) /\ host' = [host EXCEPT ![n] = new]
        BY <2>3, <2>8, <2>13, PatchedSeq
      <4>2. Content[n] = host[n] /\ host[n] \in Seq(Nat)
        BY <2>2, <2>3, <2>13 DEF Content, Missing
      <4>3. Missing \notin Seq(Nat)
        BY DEF Missing
      <4> HIDE DEF new, n
      <4>4. Content' = [Content EXCEPT ![n] = new]
        BY <2>2, <4>1, <4>2, <4>3 DEF Content, TypeOK
      <4> QED BY <2>10, <4>2, <4>4 DEF new
    <3>4. r \in 1..Len(Buffer)
      BY <2>8, <2>10, <2>13
    <3>5. Cursors' = [Cursors EXCEPT ![f].pos = @ + r]
      BY <3>1, <3>2
    <3>6. Content' = [Content EXCEPT ![Cursors[f].file] =
                        Abstract!Patched(@, Cursors[f].pos, SubSeq(Buffer, 1, r))]
      BY <3>1, <3>3
    <3>7. Abstract!Write(f)
      BY <2>10, <3>4, <3>5, <3>6 DEF Abstract!Write
    <3> QED BY <2>2, <3>1, <3>7 DEF Abstract!Next
  <2> QED BY <2>12, <2>13
<1>7. ~Taken' \/ ~(Refuse \/ Greet)
  <2>1. Refuse => txbuf'.t = "error"
    BY DEF Refuse, Reply
  <2>2. Greet => txbuf'.t \in {"version", "attach"}
    BY DEF Greet, Reply
  <2>3. Taken' => txbuf'.t \in {"read", "write"}
    BY <1>0, CallShape DEF Taken, Replied, MoveCall
  <2> QED BY <2>1, <2>2, <2>3
<1>8. CASE BadCount
  <2>1. CurCount \in Nat /\ CurCount' = CurCount /\ txbuf'.count = CurCount + 1
    BY <1>0, <1>8, TransferRequest DEF BadCount, CurCount, Left
  <2>2. ~Taken'
    BY <2>1 DEF Taken
  <2> QED BY <1>0, <1>1, <1>8, <2>2, QuietStep DEF BadCount
<1> QED BY <1>2, <1>3, <1>4, <1>5, <1>6, <1>7, <1>8 DEF Server

LEMMA TakenReply ==
  Taken => "reply" \in DOMAIN txbuf /\ call.at = "moving"
BY DEF Taken, Replied

LEMMA StepRefines ==
  ASSUME IInv, IInv', [Next]_vars
  PROVE  [Abstract!Next]_(Abstract!vars)
<1> SUFFICES Abstract!Next \/ UNCHANGED <<Content, Cursors, Buffer>>
  BY DEF Abstract!vars
<1>1. (~Taken => PlainlySeen) /\ (~Taken' => PlainlySeen')
  BY PlainView, PTL
<1>2. CASE Program \/ Client
  <2>1. ~Taken \/ MoveReply
    <3>1. Taken => call.op \in {"read", "write"} /\ call.at = "moving" /\ "reply" \in DOMAIN txbuf
      BY TakenReply, CallShape DEF IInv, MoveCall
    <3> QED
      BY <1>2, <3>1 DEF Program, Client, FsInit, FsCreate, FsOpen, FsClose, FsRead, FsWrite,
        VersionReply, AttachReply, WalkStep, WalkReply, SendOpen, CreateReply, OpenReply,
        ClunkReply, MoveStep, At, Answered, Idle
  <2>2. ~Taken'
    <3>1. (Taken => "reply" \in DOMAIN txbuf /\ call.at = "moving")'
      BY TakenReply, PTL
    <3>2. MoveStep => "reply" \notin DOMAIN txbuf'
      BY DEF MoveStep, Send
    <3>3. call'.at = "moving" => MoveStep
      <4>1. CASE WalkStep \/ WalkReply \/ SendOpen \/ CreateReply \/ OpenReply
        BY <4>1, WalkCallStep DEF WalkCall, NoCall
      <4>2. CASE VersionReply
        BY <4>2, CallShape DEF IInv, VersionReply, Answered, Return, Continue, NoCall, InitCall
      <4>3. CASE MoveReply
        <5>1. Answered("moving") => Moved(txbuf.count).at = "move"
          BY CallShape DEF IInv, Answered, Moved, MoveCall
        <5> QED BY <4>3, <5>1 DEF MoveReply, Return, Continue, NoCall
      <4>4. CASE AttachReply \/ ClunkReply
        BY <4>4 DEF AttachReply, ClunkReply, Return, Continue, NoCall
      <4>5. CASE Program
        <5>1. FsInit => call'.at = "version"
          BY DEF FsInit
        <5>2. ASSUME NEW f \in Handle
              PROVE  /\ \A p \in Paths : FsCreate(f, p) => call'.at = "walk"
                     /\ \A p \in Paths, m \in {"read", "write", "trunc"} :
                          FsOpen(f, p, m) => call'.at = "walk"
                     /\ FsClose(f) => call'.at = "clunk"
                     /\ \A n \in 1..MaxSize : FsRead(f, n) => call'.at = "move"
                     /\ \A d \in Data : FsWrite(f, d) => call'.at = "move"
          BY DEF FsCreate, FsOpen, FsClose, FsRead, FsWrite
        <5> QED BY <4>5, <5>1, <5>2 DEF Program
      <4> QED BY <1>2, <4>1, <4>2, <4>3, <4>4, <4>5 DEF Client
    <3> QED BY <3>1, <3>2, <3>3
  <2> QED BY <1>1, <1>2, <2>1, <2>2, ClientRefines
<1>3. CASE Server
  <2>1. ~Taken
    BY <1>3 DEF Server, Refuse, Greet, Walk, OpenFid, Clunk, ServeRead, ServeWrite, BadCount,
      Pending, Request, Taken, Replied
  <2> QED BY <1>1, <1>3, <2>1, ServerRefines
<1>4. CASE UNCHANGED vars
  BY <1>4 DEF vars, Content, Cursors, Cursor, Buffer, InFlight, Position, Replied, CurCount, Left
<1> QED BY <1>2, <1>3, <1>4 DEF Next

\* fs9p.cc gives the program a cursor in a file: messages, chunks, short
\* counts, refused requests and fids do not show.
THEOREM ClientImplementsHostFile == Spec => IsHostFile
<1>1. Init => Abstract!Init
  <2> SUFFICES ASSUME Init PROVE Abstract!Init
    OBVIOUS
  <2>1. IInv /\ ~Taken
    BY InitInv DEF Init, NoCall, Taken
  <2>2. PlainlySeen
    BY <2>1, PlainView
  <2>3. Content \in [File -> Seq(Nat)]
    BY EmptySeq, Fs9pAssumption DEF Init, Content
  <2>4. Cursors = [f \in Handle |-> [file |-> NoFile, pos |-> 0]]
    <3>1. \A f \in Handle : Position(f) = 0 /\ NodeIn(f) = NoFile
      BY Fs9pAssumption DEF Init, Position, NodeIn, Free, Fid
    <3> QED BY <2>2, <3>1 DEF Cursors, PlainlySeen
  <2>5. Buffer = <<>>
    BY <2>2 DEF PlainlySeen, Init, NoCall
  <2> QED BY <2>3, <2>4, <2>5 DEF Abstract!Init
<1> QED BY <1>1, StepRefines, Invariant, PTL DEF Spec, IsHostFile, Abstract!Spec
-----------------------------------------------------------------------------
(* HandleNamesItsFile: the names of a path, by induction along the path.    *)

LEMMA NamesSeq ==
  ASSUME NEW S, NEW c \in S
  PROVE  Names(c) \in Seq(S)
BY DEF Names

\* The fold of NodeOf, as a function of the prefixes of p.
LEMMA NodeFold ==
  ASSUME NEW S, NEW p \in Seq(S)
  PROVE  \E h : /\ h[0] = <<>> /\ h[Len(p)] = NodeOf(p)
                /\ \A k \in 1..Len(p) : h[k] = h[k-1] \o Names(p[k])
                /\ \A k \in 0..Len(p) : h[k] \in Seq(S)
<1> DEFINE L == Len(p)
           D == Seq(S)
           R == NodeOf(p)
           Eq(g) == g = [s \in SUBSET (1..L) |->
                           IF s = {} THEN <<>>
                           ELSE g[s \ {Max(s)}] \o Names(p[Max(s)])]
           step == [i \in 1..L |-> [e \in D |-> e \o Names(p[i])]]
<1>1. L \in Nat /\ DOMAIN p = 1..L /\ \A i \in 1..L : p[i] \in S
  OBVIOUS
<1>2. <<>> \in D /\ \A e \in D, c \in S : e \o Names(c) \in D
  BY NamesSeq
<1>3. R = (CHOOSE g : Eq(g))[1..L]
  <2>1. R = (CHOOSE g : g = [s \in SUBSET (DOMAIN p) |->
                               IF s = {} THEN <<>>
                               ELSE g[s \ {Max(s)}] \o Names(p[Max(s)])])[DOMAIN p]
    BY DEF NodeOf, FoldLeft, MapThenFoldSet
  <2>2. QED BY <1>1, <2>1
<1> HIDE DEF D, L, R
<1>4. \E g : Eq(g)
  <2>1. step \in [1..L -> [D -> D]] /\ \A i \in 1..L, e \in D : step[i][e] = e \o Names(p[i])
    BY <1>1, <1>2
  <2> HIDE DEF step
  <2>2. PICK g : Folding(g, L, D, <<>>, step)
    BY <1>1, <1>2, <2>1, FoldSolved
  <2>3. \A s \in SUBSET (1..L) : s # {} => Max(s) \in 1..L /\ g[s \ {Max(s)}] \in D
    BY <1>1, <2>2, MaxOf DEF Folding
  <2>4. \A s \in SUBSET (1..L) :
          g[s] = IF s = {} THEN <<>> ELSE g[s \ {Max(s)}] \o Names(p[Max(s)])
    BY <2>1, <2>2, <2>3 DEF Folding
  <2>5. QED BY <2>2, <2>4 DEF Folding
<1>5. PICK g : Eq(g) /\ R = g[1..L]
  <2> HIDE DEF Eq
  <2>1. QED BY <1>3, <1>4
<1>6. \A s \in SUBSET (1..L) :
        g[s] = IF s = {} THEN <<>> ELSE g[s \ {Max(s)}] \o Names(p[Max(s)])
  BY <1>5
<1>7. R = g[1..L]
  BY <1>5
<1> HIDE DEF Eq
<1> DEFINE h == [k \in 0..L |-> g[1..k]]
<1>8. h[0] = <<>> /\ h[L] = R
  <2>1. 1..0 = {}
    OBVIOUS
  <2>2. h[0] = g[{}] /\ h[L] = g[1..L]
    BY <1>1, <2>1
  <2>3. {} \in SUBSET (1..L)
    OBVIOUS
  <2>4. QED BY <1>6, <1>7, <2>2, <2>3
<1>9. ASSUME NEW k \in 1..L PROVE h[k] = h[k-1] \o Names(p[k])
  <2>1. h[k] = g[1..k] /\ h[k-1] = g[1..k-1]
    BY <1>1
  <2>2. g[1..k] = g[1..k-1] \o Names(p[k])
    BY <1>1, <1>6, FoldSteps
  <2>3. QED BY <2>1, <2>2
<1> HIDE DEF h
<1>10. \A k \in 0..L : h[k] \in D
  <2> DEFINE E == [k \in 0..L |-> D]
  <2>1. \A k \in 0..L : E[k] = D
    OBVIOUS
  <2>2. 0 \in 0..L /\ \A k \in 1..L : k \in 0..L /\ k-1 \in 0..L
    BY <1>1
  <2> HIDE DEF E
  <2>3. h[0] \in E[0]
    BY <1>2, <1>8, <2>1, <2>2
  <2>4. ASSUME NEW k \in 1..L, h[k-1] \in E[k-1] PROVE h[k] \in E[k]
    <3>1. h[k-1] \in D /\ p[k] \in S /\ E[k] = D
      BY <1>1, <2>1, <2>2, <2>4
    <3>2. h[k-1] \o Names(p[k]) \in D
      BY <1>2, <3>1
    <3>3. QED BY <1>9, <3>1, <3>2
  <2>5. \A k \in 0..L : h[k] \in E[k]
    BY <1>1, <2>3, <2>4, StepsStay
  <2>6. QED BY <2>1, <2>5
<1>11. QED BY <1>8, <1>9, <1>10 DEF L, D, R

LEMMA NodeOfEmpty == NodeOf(<<>>) = <<>>
<1>1. <<>> \in Seq({}) /\ Len(<<>>) = 0
  OBVIOUS
<1>2. QED BY <1>1, NodeFold

LEMMA NodeOfAppend ==
  ASSUME NEW S, NEW p \in Seq(S), NEW c \in S
  PROVE  NodeOf(Append(p, c)) = NodeOf(p) \o Names(c)
<1> DEFINE L == Len(p)
           q == Append(p, c)
<1>1. q \in Seq(S) /\ L \in Nat /\ Len(q) = L + 1 /\ q[L+1] = c /\ \A k \in 1..L : q[k] = p[k]
  OBVIOUS
<1> HIDE DEF q, L
<1>2. PICK h : /\ h[0] = <<>> /\ h[L] = NodeOf(p)
               /\ \A k \in 1..L : h[k] = h[k-1] \o Names(p[k])
  BY NodeFold DEF L
<1>3. PICK g : /\ g[0] = <<>> /\ g[L+1] = NodeOf(q)
               /\ \A k \in 1..L+1 : g[k] = g[k-1] \o Names(q[k])
  <2>1. \E g : /\ g[0] = <<>> /\ g[Len(q)] = NodeOf(q)
               /\ \A k \in 1..Len(q) : g[k] = g[k-1] \o Names(q[k])
    BY <1>1, NodeFold
  <2>2. QED BY <1>1, <2>1
<1> DEFINE T == {k \in Nat : k <= L => g[k] = h[k]}
<1>4. 0 \in T
  BY <1>2, <1>3
<1>5. ASSUME NEW k \in Nat, k \in T PROVE k + 1 \in T
  <2>1. CASE k + 1 <= L
    <3>1. k + 1 \in 1..L /\ k + 1 \in 1..L+1 /\ (k + 1) - 1 = k /\ k <= L
      BY <1>1, <2>1
    <3>2. h[k+1] = h[k] \o Names(p[k+1]) /\ g[k+1] = g[k] \o Names(q[k+1])
      BY <1>2, <1>3, <3>1
    <3>3. g[k] = h[k] /\ p[k+1] = q[k+1]
      BY <1>1, <1>5, <3>1
    <3>4. g[k+1] = h[k+1]
      BY <3>2, <3>3
    <3>5. QED BY <3>4
  <2>2. CASE ~(k + 1 <= L)
    BY <2>2
  <2>3. QED BY <2>1, <2>2
<1>6. Nat \subseteq T
  <2> HIDE DEF T
  <2>1. QED BY <1>4, <1>5, Inductive
<1>7. g[L] = h[L]
  BY <1>1, <1>6
<1>8. g[L+1] = g[L] \o Names(q[L+1])
  <2>1. L + 1 \in 1..L+1 /\ (L + 1) - 1 = L
    BY <1>1
  <2>2. QED BY <1>3, <2>1
<1>9. QED BY <1>1, <1>2, <1>3, <1>7, <1>8 DEF q

LEMMA NodeOfSeq ==
  ASSUME NEW S, NEW p \in Seq(S)
  PROVE  NodeOf(p) \in Seq(S)
<1>1. Len(p) \in 0..Len(p)
  OBVIOUS
<1>2. QED BY <1>1, NodeFold

\* The names of two paths one after the other.
LEMMA NodeOfConcat ==
  ASSUME NEW S, NEW p \in Seq(S), NEW q \in Seq(S)
  PROVE  NodeOf(p \o q) = NodeOf(p) \o NodeOf(q)
<1>0. \A a, b, c \in Seq(S) : (a \o b) \o c = a \o (b \o c)
  OBVIOUS
<1> DEFINE Sub(k) == SubSeq(q, 1, k)
           T == {k \in Nat : k <= Len(q) => NodeOf(p \o Sub(k)) = NodeOf(p) \o NodeOf(Sub(k))}
<1>1. 0 \in T
  <2>1. Sub(0) = <<>> /\ p \o <<>> = p
    OBVIOUS
  <2>2. NodeOf(p) \o <<>> = NodeOf(p)
    BY NodeOfSeq, ConcatEmptySeq
  <2>3. QED BY <2>1, <2>2, NodeOfEmpty
<1>2. ASSUME NEW k \in Nat, k \in T PROVE k + 1 \in T
  <2>1. CASE k + 1 <= Len(q)
    <3>1. Sub(k) \in Seq(S) /\ q[k+1] \in S /\ k <= Len(q)
      <4>1. k + 1 \in 1..Len(q) /\ k <= Len(q)
        BY <2>1
      <4>2. \A i \in 1..k : q[i] \in S
        BY <4>1
      <4>3. QED BY <4>1, <4>2, SubSeqProperties
    <3>2. Sub(k+1) = Append(Sub(k), q[k+1])
      BY <2>1
    <3> HIDE DEF Sub
    <3>3. p \o Append(Sub(k), q[k+1]) = Append(p \o Sub(k), q[k+1]) /\ p \o Sub(k) \in Seq(S)
      BY <3>1
    <3>4. NodeOf(p \o Sub(k+1)) = NodeOf(p \o Sub(k)) \o Names(q[k+1])
      BY <3>1, <3>2, <3>3, NodeOfAppend
    <3>5. NodeOf(Sub(k+1)) = NodeOf(Sub(k)) \o Names(q[k+1])
      BY <3>1, <3>2, NodeOfAppend
    <3>6. NodeOf(p \o Sub(k)) = NodeOf(p) \o NodeOf(Sub(k))
      BY <1>2, <3>1
    <3>7. NodeOf(p) \in Seq(S) /\ NodeOf(Sub(k)) \in Seq(S) /\ Names(q[k+1]) \in Seq(S)
      BY <3>1, NodeOfSeq, NamesSeq
    <3>8. (NodeOf(p) \o NodeOf(Sub(k))) \o Names(q[k+1]) = NodeOf(p) \o (NodeOf(Sub(k)) \o Names(q[k+1]))
      BY <1>0, <3>7
    <3>9. NodeOf(p \o Sub(k+1)) = NodeOf(p) \o NodeOf(Sub(k+1))
      BY <3>4, <3>5, <3>6, <3>8
    <3>10. QED BY <3>9
  <2>2. CASE ~(k + 1 <= Len(q))
    BY <2>2
  <2>3. QED BY <2>1, <2>2
<1>3. Nat \subseteq T
  <2> HIDE DEF T
  <2>1. QED BY <1>1, <1>2, Inductive
<1>4. NodeOf(p \o Sub(Len(q))) = NodeOf(p) \o NodeOf(Sub(Len(q)))
  <2>1. Len(q) \in Nat
    OBVIOUS
  <2>2. QED BY <1>3, <2>1
<1>5. Sub(Len(q)) = q
  OBVIOUS
<1>6. QED BY <1>4, <1>5

LEMMA NodeOfOne ==
  ASSUME NEW c
  PROVE  NodeOf(<<c>>) = Names(c)
<1>1. <<>> \in Seq({c}) /\ c \in {c} /\ Append(<<>>, c) = <<c>> /\ Names(c) \in Seq({c})
  BY NamesSeq
<1>2. NodeOf(Append(<<>>, c)) = NodeOf(<<>>) \o Names(c)
  BY <1>1, NodeOfAppend
<1>3. <<>> \o Names(c) = Names(c)
  BY <1>1, ConcatEmptySeq
<1>4. QED BY <1>1, <1>2, <1>3, NodeOfEmpty

\* Slashes name nothing.
LEMMA NodeOfSlashes ==
  ASSUME NEW p \in Seq(STRING), \A i \in 1..Len(p) : p[i] = "/"
  PROVE  NodeOf(p) = <<>>
<1>1. PICK h : /\ h[0] = <<>> /\ h[Len(p)] = NodeOf(p)
               /\ \A k \in 1..Len(p) : h[k] = h[k-1] \o Names(p[k])
  BY NodeFold
<1> DEFINE E == [k \in 0..Len(p) |-> {<<>>}]
<1>2. \A k \in 0..Len(p) : E[k] = {<<>>}
  OBVIOUS
<1>3. 0 \in 0..Len(p) /\ Len(p) \in 0..Len(p) /\ \A k \in 1..Len(p) : k \in 0..Len(p) /\ k-1 \in 0..Len(p)
  OBVIOUS
<1> HIDE DEF E
<1>4. h[0] \in E[0]
  BY <1>1, <1>2, <1>3
<1>5. \A k \in 1..Len(p) : h[k-1] \in E[k-1] => h[k] \in E[k]
  <2> SUFFICES ASSUME NEW k \in 1..Len(p), h[k-1] \in E[k-1] PROVE h[k] \in E[k]
    OBVIOUS
  <2>1. h[k-1] = <<>> /\ Names(p[k]) = <<>> /\ <<>> \o <<>> = <<>>
    BY <1>2, <1>3 DEF Names
  <2>2. QED BY <1>1, <1>2, <1>3, <2>1
<1>6. \A k \in 0..Len(p) : h[k] \in E[k]
  <2>1. Len(p) \in Nat
    OBVIOUS
  <2>2. QED BY <1>4, <1>5, <2>1, StepsStay
<1>7. QED BY <1>1, <1>2, <1>3, <1>6
-----------------------------------------------------------------------------
(* The invariant of a walk.                                                *)

\* The names a walk has still to take, when its request is answered.
Ahead == IF call.skip /\ call.rest = <<>> THEN LastName(call.path) ELSE call.rest

\* The path q from node n is the file the call was given.
Leads(n, q) == n \o NodeOf(q) = NodeOf(call.path)

\* The root directory of the client is that of the server, once attached.
Rooted ==
  (maxlen > 0 /\ call.at # "attach") \/ (call.at = "attach" /\ Replied("attach")) =>
    fids[Root].node = <<>>

\* The handle of a call that opens or closes is not open to the program.
Own ==
  /\ call.op \in {"open", "create"} => opened[call.f] = NoPath
  /\ call.at = "clunk" /\ Request("clunk") => opened[txbuf.fid] = NoPath

\* From where a walk has come, what is ahead of it leads to the file; a walk
\* that leaves out the last name has not lost it.
WalkLeads ==
  call.at = "walk" =>
    /\ call.skip /\ call.rest # <<>> =>
         call.path # <<>> /\ call.rest[Len(call.rest)] = call.path[Len(call.path)]
    /\ txbuf # Nothing \/ call.sent => call.from = call.f
    /\ txbuf = Nothing => Leads(fids[call.from].node, Ahead)
    /\ Request("walk") => Leads(fids[txbuf.fid].node \o NodeOf(txbuf.name), Ahead)
    /\ Replied("walk") => Leads(fids[call.f].node, Ahead)

\* What comes after the walk is asked of the file, or of its directory.
OpenLeads ==
  /\ call.at = "walked" =>
       Leads(fids[call.f].node, IF call.skip THEN LastName(call.path) ELSE <<>>)
  /\ call.at = "create" =>
       IF Replied("create")
       THEN fids[call.f].node = NodeOf(call.path) /\ fids[call.f].mode # "free"
       ELSE Leads(fids[call.f].node, LastName(call.path))
  /\ call.at = "open" =>
       /\ fids[call.f].node = NodeOf(call.path)
       /\ Replied("open") => fids[call.f].mode # "free"

NamesInv == Rooted /\ Own /\ WalkLeads /\ OpenLeads /\ HandleNamesItsFile
-----------------------------------------------------------------------------
(* Lemmas about nodes and paths.                                           *)

Symbol == Name \cup {"d", "x", "none"}

LEMMA NodesAreSeqs ==
  ASSUME TypeOK, NEW f \in Fid
  PROVE  fids[f].node \in Seq(Symbol)
<1>1. fids[f].node \in Dir \cup File \cup {NoFile}
  BY DEF TypeOK, FidNode
<1>2. <<>> \in Seq(Symbol) /\ <<"d">> \in Seq(Symbol) /\ <<"x">> \in Seq(Symbol)
      /\ <<"d", "x">> \in Seq(Symbol) /\ <<"none">> \in Seq(Symbol)
  BY DEF Symbol
<1> QED BY <1>1, <1>2 DEF Dir, File, NoFile

LEMMA PathsAreSeqs ==
  ASSUME NEW p \in Seq(STRING)
  PROVE  p \in Seq(Symbol) /\ NodeOf(p) \in Seq(Symbol)
<1>1. p \in Seq(Symbol)
  BY DEF Symbol, Name
<1> QED BY <1>1, NodeOfSeq

LEMMA ShortIsSeq ==
  ASSUME NEW p \in ShortNames
  PROVE  p \in Seq(Symbol) /\ NodeOf(p) \in Seq(Symbol)
<1>1. p \in Seq(Symbol)
  BY DEF Symbol, ShortNames
<1> QED BY <1>1, NodeOfSeq

\* Skip leaves out slashes only, and not the end of a path.
LEMMA SkipKeeps ==
  ASSUME NEW p \in Seq(STRING)
  PROVE  /\ Skip(p) \in Seq(STRING) /\ NodeOf(Skip(p)) = NodeOf(p)
         /\ Skip(p) = <<>> => LastName(p) = <<>>
         /\ Skip(p) # <<>> =>
              /\ p # <<>> /\ Skip(p)[Len(Skip(p))] = p[Len(p)]
              /\ Skip(p)[1] # "/"
<1> DEFINE first == {i \in 1..Len(p) : p[i] # "/" /\ \A j \in 1..i-1 : p[j] = "/"}
           L == Len(p)
<1>0. L \in Nat /\ \A i \in 1..L : p[i] \in STRING
  BY LenProperties
<1>1. CASE first = {}
  <2>1. Skip(p) = <<>>
    BY <1>1 DEF Skip
  <2>2. \A i \in 1..L : p[i] = "/"
    <3> DEFINE T == {i \in 1..L : p[i] # "/"}
    <3>1. SUFFICES ASSUME T # {} PROVE FALSE
      OBVIOUS
    <3>2. T \subseteq Nat
      BY <1>0
    <3>3. PICK n \in T : \A m \in T : n <= m
      <4> HIDE DEF T
      <4>1. QED BY <3>1, <3>2, LeastNatural
    <3>4. \A j \in 1..n-1 : p[j] = "/"
      BY <1>0, <3>3
    <3>5. n \in first
      BY <3>3, <3>4
    <3> QED BY <1>1, <3>5
  <2>3. NodeOf(p) = <<>>
    BY <2>2, NodeOfSlashes
  <2>4. LastName(p) = <<>>
    BY <1>0, <2>2, EmptySeq DEF LastName
  <2> QED BY <2>1, <2>3, <2>4, NodeOfEmpty
<1>2. CASE first # {}
  <2>1. PICK i \in first : Skip(p) = SubSeq(p, i, L)
    BY <1>2 DEF Skip
  <2>2. i \in 1..L /\ p[i] # "/" /\ \A j \in 1..i-1 : p[j] = "/"
    BY <2>1
  <2> HIDE DEF first
  <2> DEFINE a == SubSeq(p, 1, i-1)
             b == SubSeq(p, i, L)
  <2>3. a \in Seq(STRING) /\ Len(a) = i - 1 /\ \A j \in 1..i-1 : a[j] = p[j]
    <3>1. \A j \in 1..i-1 : p[j] \in STRING
      BY <1>0, <2>2
    <3>2. i - 1 \in Nat
      BY <1>0, <2>2
    <3>3. a \in Seq(STRING) /\ Len(a) = IF 1 <= i-1 THEN (i-1) - 1 + 1 ELSE 0
      BY <1>0, <2>2, <3>1, SubSeqProperties
    <3>4. \A j \in 1..i-1 : a[j] = p[j]
      BY <1>0, <2>2
    <3> QED BY <3>2, <3>3, <3>4
  <2>4. b \in Seq(STRING) /\ Len(b) = L - i + 1 /\ b # <<>>
        /\ \A j \in 1..L-i+1 : b[j] = p[i + j - 1]
    <3>1. \A j \in i..L : p[j] \in STRING
      BY <1>0, <2>2
    <3>2. b \in Seq(STRING) /\ Len(b) = IF i <= L THEN L - i + 1 ELSE 0
      BY <1>0, <2>2, <3>1, SubSeqProperties
    <3>3. \A j \in 1..L-i+1 : b[j] = p[i + j - 1]
      BY <1>0, <2>2
    <3>4. b # <<>>
      <4>1. Len(b) # 0
        BY <1>0, <2>2, <3>2
      <4> HIDE DEF b
      <4> QED BY <4>1
    <3> QED BY <2>2, <3>2, <3>3, <3>4
  <2>5. a \o b = p
    BY <1>0, <2>2
  <2>6. NodeOf(a) = <<>>
    <3>1. \A j \in 1..Len(a) : a[j] = "/"
      BY <2>2, <2>3
    <3> QED BY <2>3, <3>1, NodeOfSlashes
  <2> HIDE DEF a, b
  <2>7. NodeOf(p) = NodeOf(a) \o NodeOf(b)
    BY <2>3, <2>4, <2>5, NodeOfConcat
  <2>8. NodeOf(b) \in Seq(STRING) /\ <<>> \o NodeOf(b) = NodeOf(b)
    BY <2>4, NodeOfSeq, ConcatEmptySeq
  <2>9. b[1] = p[i] /\ b[Len(b)] = p[L]
    BY <1>0, <2>2, <2>4
  <2>10. Skip(p) = b
    BY <2>1 DEF b
  <2>11. p # <<>>
    BY <1>0, <2>2, EmptySeq
  <2> QED BY <2>2, <2>4, <2>6, <2>7, <2>8, <2>9, <2>10, <2>11
<1> QED BY <1>1, <1>2
-----------------------------------------------------------------------------
LEMMA TailOfOne ==
  ASSUME NEW p \in Seq(STRING), p # <<>>
  PROVE  Tail(p) = <<>> <=> Len(p) = 1
<1>1. Len(Tail(p)) = Len(p) - 1 /\ Len(p) \in Nat /\ Tail(p) \in Seq(STRING)
  OBVIOUS
<1>2. Tail(p) = <<>> <=> Len(Tail(p)) = 0
  BY <1>1, EmptySeq
<1> QED BY <1>1, <1>2

LEMMA OneMore ==
  ASSUME NEW n \in Seq(Symbol), NEW c \in Symbol
  PROVE  Len(n \o <<c>>) = Len(n) + 1 /\ (n \o <<c>>)[Len(n) + 1] = c /\ Len(n) \in Nat
OBVIOUS

\* One turn of the walk: the name that is asked for, and what is then ahead.
LEMMA WalkStepLeads ==
  ASSUME IInv, NamesInv, WalkStep
  PROVE  WalkLeads' /\ OpenLeads'
<1> USE DEF IInv
<1> DEFINE r == call.rest
           p == Skip(r)
           n == fids[call.from].node
           last == call.skip /\ Len(p) = 1
           f == call.f
<1>1. call \in WalkCall /\ call.at = "walk" /\ txbuf = Nothing
  BY CallShape DEF WalkStep, At
<1>2. /\ r \in Seq(STRING) /\ call.path \in Seq(STRING) /\ call.from \in Fid /\ f \in Fid
      /\ call.skip \in BOOLEAN /\ call.sent \in BOOLEAN
  BY <1>1, Fs9pAssumption DEF WalkCall, Fid
<1>3. /\ p \in Seq(STRING) /\ NodeOf(p) = NodeOf(r)
      /\ p = <<>> => LastName(r) = <<>>
      /\ p # <<>> => r # <<>> /\ p[Len(p)] = r[Len(r)] /\ p[1] # "/"
  BY <1>2, SkipKeeps
<1>4. /\ n \o NodeOf(Ahead) = NodeOf(call.path)
      /\ call.skip /\ r # <<>> =>
           call.path # <<>> /\ r[Len(r)] = call.path[Len(call.path)]
      /\ call.sent => call.from = f
  BY <1>1 DEF NamesInv, WalkLeads, Leads
<1>5. n \in Seq(Symbol) /\ n \o <<>> = n
  <2>1. n \in Seq(Symbol)
    BY <1>2, NodesAreSeqs
  <2> HIDE DEF n
  <2> QED BY <2>1, ConcatEmptySeq
<1>6. UNCHANGED fids
  BY DEF WalkStep
<1>7. ASSUME last PROVE LastName(call.path) = p /\ Ahead = r /\ p = <<p[1]>> /\ p # <<>>
  <2>1. p = <<p[1]>> /\ p # <<>>
    BY <1>3, <1>7
  <2>2. p[1] # "/" /\ p[1] = call.path[Len(call.path)] /\ call.path # <<>> /\ r # <<>>
    BY <1>3, <1>4, <1>7, <2>1
  <2> QED BY <1>7, <2>1, <2>2 DEF LastName, Ahead
<1>8. CASE last /\ call.sent
  <2>1. call' = [call EXCEPT !.at = "walked"] /\ txbuf' = Nothing
    BY <1>1, <1>8 DEF WalkStep
  <2>2. /\ call'.at = "walked" /\ call'.f = f /\ call'.skip = TRUE /\ call'.path = call.path
    BY <1>1, <1>8, <2>1 DEF WalkCall
  <2>3. fids[f].node \o NodeOf(LastName(call.path)) = NodeOf(call.path)
    BY <1>3, <1>4, <1>7, <1>8
  <2> QED BY <1>6, <2>2, <2>3 DEF WalkLeads, OpenLeads, Leads
<1>9. CASE ~(last /\ call.sent)
  <2> DEFINE name == IF p = <<>> THEN <<>> ELSE IF last THEN <<".">> ELSE <<Head(p)>>
             rest == IF p = <<>> THEN <<>> ELSE Tail(p)
  <2>1. /\ txbuf' = [t |-> "walk", fid |-> call.from, newfid |-> f, name |-> name]
        /\ call' = Walked(rest)
    BY <1>9 DEF WalkStep, Send
  <2>2. /\ call'.at = "walk" /\ call'.f = f /\ call'.from = f /\ call'.skip = call.skip
        /\ call'.path = call.path /\ call'.rest = rest /\ call'.sent = TRUE
    BY <1>1, <2>1 DEF Walked, WalkCall
  <2>3. Ahead' = IF call.skip /\ rest = <<>> THEN LastName(call.path) ELSE rest
    BY <2>2 DEF Ahead
  <2> DEFINE ahead == IF call.skip /\ rest = <<>> THEN LastName(call.path) ELSE rest
  <2>4. /\ (n \o NodeOf(name)) \o NodeOf(ahead) = NodeOf(call.path)
        /\ call.skip /\ rest # <<>> =>
             call.path # <<>> /\ rest[Len(rest)] = call.path[Len(call.path)]
    <3>1. CASE p = <<>>
      <4>1. name = <<>> /\ rest = <<>>
        BY <3>1
      <4>2. NodeOf(ahead) = NodeOf(Ahead)
        <5>1. CASE ~call.skip
          BY <1>3, <3>1, <4>1, <5>1 DEF Ahead
        <5>2. CASE call.skip /\ r = <<>>
          BY <4>1, <5>2 DEF Ahead
        <5>3. CASE call.skip /\ r # <<>>
          <6>1. r[Len(r)] = "/"
            BY <1>3, <3>1, <5>3 DEF LastName
          <6>2. LastName(call.path) = <<>>
            BY <1>4, <5>3, <6>1 DEF LastName
          <6> QED BY <1>3, <3>1, <4>1, <5>3, <6>2 DEF Ahead
        <5> QED BY <1>2, <5>1, <5>2, <5>3
      <4> QED BY <1>4, <1>5, <4>1, <4>2, NodeOfEmpty
    <3>2. CASE p # <<>> /\ last
      <4>1. name = <<".">> /\ rest = <<>> /\ ahead = p
        <5>1. p = <<p[1]>> /\ LastName(call.path) = p
          BY <1>7, <3>2
        <5>2. Tail(p) = <<>>
          BY <1>3, <3>2, TailOfOne
        <5> QED BY <3>2, <5>1, <5>2
      <4>2. NodeOf(name) = <<>>
        BY <4>1, NodeOfOne DEF Names
      <4> QED BY <1>3, <1>4, <1>5, <1>7, <3>2, <4>1, <4>2
    <3>3. CASE p # <<>> /\ ~last
      <4>1. name = <<Head(p)>> /\ rest = Tail(p) /\ Head(p) \in STRING /\ Tail(p) \in Seq(STRING)
            /\ <<Head(p)>> \in Seq(STRING) /\ p = <<Head(p)>> \o Tail(p)
        BY <1>3, <3>3
      <4>2. call.skip => Tail(p) # <<>>
        BY <1>3, <3>3, TailOfOne
      <4>3. ahead = Tail(p) /\ Ahead = r
        BY <1>3, <3>3, <4>1, <4>2 DEF Ahead
      <4>4. NodeOf(p) = NodeOf(name) \o NodeOf(Tail(p))
        BY <4>1, NodeOfConcat
      <4>5. NodeOf(name) \in Seq(Symbol) /\ NodeOf(Tail(p)) \in Seq(Symbol)
        BY <4>1, PathsAreSeqs
      <4>6. (n \o NodeOf(name)) \o NodeOf(Tail(p)) = n \o (NodeOf(name) \o NodeOf(Tail(p)))
        <5>1. \A a, b, c \in Seq(Symbol) : (a \o b) \o c = a \o (b \o c)
          OBVIOUS
        <5> HIDE DEF n, name, p
        <5> QED BY <1>5, <4>5, <5>1
      <4>7. Tail(p) # <<>> => Tail(p)[Len(Tail(p))] = p[Len(p)]
        BY <1>3, <3>3
      <4> QED BY <1>3, <1>4, <3>3, <4>1, <4>3, <4>4, <4>6, <4>7
    <3> QED BY <3>1, <3>2, <3>3
  <2>5. WalkLeads'
    <3>1. txbuf'.fid = call.from /\ txbuf'.name = name /\ "reply" \notin DOMAIN txbuf'
          /\ txbuf' # Nothing
      BY <2>1 DEF Nothing
    <3> HIDE DEF name, rest, p, n
    <3>2. fids'[txbuf'.fid].node = n
      BY <1>6, <3>1 DEF n
    <3> QED BY <1>6, <2>2, <2>3, <2>4, <3>1, <3>2 DEF WalkLeads, Leads, Replied
  <2>6. OpenLeads'
    BY <2>2 DEF OpenLeads
  <2> QED BY <2>5, <2>6
<1> QED BY <1>8, <1>9

\* What the client does with the answers to a walk and to what comes after it.
LEMMA ClientLeads ==
  ASSUME IInv, NamesInv, WalkStep \/ WalkReply \/ SendOpen \/ CreateReply \/ OpenReply
  PROVE  WalkLeads' /\ OpenLeads'
<1> USE DEF IInv
<1>1. call \in WalkCall /\ call.f \in Fid /\ call.path \in Seq(STRING) /\ call.rest \in Seq(STRING)
  BY WalkCallStep, Fs9pAssumption DEF WalkCall, Fid
<1>2. CASE WalkStep
  BY <1>2, WalkStepLeads
<1>3. CASE WalkReply
  <2>1. CASE Replied("walk")
    <3>1. call.at = "walk" /\ Leads(fids[call.f].node, Ahead) /\ txbuf # Nothing
      BY <1>3, <2>1 DEF WalkReply, Answered, NamesInv, WalkLeads, Replied, Nothing
    <3>2. call.from = call.f
          /\ (call.skip /\ call.rest # <<>> =>
                call.path # <<>> /\ call.rest[Len(call.rest)] = call.path[Len(call.path)])
      BY <3>1 DEF NamesInv, WalkLeads
    <3>3. CASE call.rest = <<>>
      <4>1. /\ call'.at = "walked" /\ call'.f = call.f /\ call'.skip = call.skip
            /\ call'.path = call.path /\ UNCHANGED fids
        BY <1>1, <1>3, <2>1, <3>3 DEF WalkReply, Continue, WalkCall
      <4> QED BY <3>1, <3>3, <4>1 DEF WalkLeads, OpenLeads, Leads, Ahead
    <3>4. CASE call.rest # <<>>
      <4>1. call' = [call EXCEPT !.at = "walk"] /\ txbuf' = Nothing /\ UNCHANGED fids
        BY <1>3, <2>1, <3>4 DEF WalkReply, Continue
      <4>2. call' = call
        BY <1>1, <3>1, <4>1 DEF WalkCall
      <4> QED BY <3>1, <3>2, <4>1, <4>2
              DEF WalkLeads, OpenLeads, Leads, Ahead, Request, Replied, Nothing
    <3> QED BY <3>3, <3>4
  <2>2. CASE ~Replied("walk")
    BY <1>3, <2>2 DEF WalkReply, Return, Continue, NoCall, WalkLeads, OpenLeads
  <2> QED BY <2>1, <2>2
<1>4. CASE SendOpen
  <2>1. call.at = "walked" /\ UNCHANGED fids
        /\ Leads(fids[call.f].node, IF call.skip THEN LastName(call.path) ELSE <<>>)
    BY <1>4 DEF SendOpen, At, NamesInv, OpenLeads
  <2>2. CASE call.skip
    <3>1. call' = [call EXCEPT !.at = "create"] /\ "reply" \notin DOMAIN txbuf'
      BY <1>4, <2>2 DEF SendOpen, Send
    <3>2. call'.at = "create" /\ call'.f = call.f /\ call'.path = call.path
      BY <1>1, <3>1 DEF WalkCall
    <3> QED BY <2>1, <2>2, <3>1, <3>2 DEF WalkLeads, OpenLeads, Leads, Replied
  <2>3. CASE ~call.skip
    <3>1. call' = [call EXCEPT !.at = "open"] /\ "reply" \notin DOMAIN txbuf'
      BY <1>4, <2>3 DEF SendOpen, Send
    <3>2. call'.at = "open" /\ call'.f = call.f /\ call'.path = call.path
      BY <1>1, <3>1 DEF WalkCall
    <3>3. fids[call.f].node \o NodeOf(<<>>) = fids[call.f].node
      <4>1. fids[call.f].node \in Seq(Symbol)
        BY <1>1, NodesAreSeqs
      <4> QED BY <4>1, NodeOfEmpty, ConcatEmptySeq
    <3> QED BY <2>1, <2>3, <3>1, <3>2, <3>3 DEF WalkLeads, OpenLeads, Leads, Replied
  <2> QED BY <2>2, <2>3
<1>5. CASE CreateReply
  <2>1. CASE Replied("create")
    BY <1>5, <2>1 DEF CreateReply, Return, Continue, NoCall, WalkLeads, OpenLeads
  <2>2. CASE ~Replied("create")
    <3>1. call' = Fallback /\ txbuf' = Nothing /\ UNCHANGED fids
      BY <1>5, <2>2 DEF CreateReply, Continue
    <3>2. Leads(fids[call.f].node, LastName(call.path))
      BY <1>5, <2>2 DEF CreateReply, Answered, NamesInv, OpenLeads
    <3>3. /\ call'.at = "walk" /\ call'.f = call.f /\ call'.from = call.f
          /\ call'.skip = FALSE /\ call'.sent = FALSE
          /\ call'.path = call.path /\ call'.rest = LastName(call.path)
      BY <1>1, <3>1 DEF Fallback, WalkCall
    <3> QED BY <3>1, <3>2, <3>3
            DEF WalkLeads, OpenLeads, Leads, Ahead, Request, Replied, Nothing
  <2> QED BY <2>1, <2>2
<1>6. CASE OpenReply
  BY <1>6 DEF OpenReply, Return, Continue, NoCall, WalkLeads, OpenLeads
<1> QED BY <1>2, <1>3, <1>4, <1>5, <1>6

\* The server's walk by at most one name that is there.
LEMMA WalkServed ==
  ASSUME IInv, NamesInv, Walk
  PROVE  /\ call.at = "walk" /\ call.f \in Handle /\ call.from = call.f
         /\ txbuf' = [t |-> "walk", reply |-> TRUE]
         /\ \A g \in Fid : g # call.f => fids'[g] = fids[g]
         /\ Leads(fids'[call.f].node, Ahead)
<1> USE DEF IInv
<1> DEFINE n == fids[txbuf.fid].node
           m == IF txbuf.name \in {<<>>, <<".">>} THEN n ELSE n \o txbuf.name
<1>1. /\ call \in WalkCall /\ call.at = "walk" /\ txbuf.fid \in Fid /\ txbuf.newfid = call.f
      /\ call.f \in Handle /\ call.f \in Fid /\ txbuf.name \in ShortNames
  BY WalkRequest DEF Walk, Fid
<1>2. call.from = call.f /\ Leads(n \o NodeOf(txbuf.name), Ahead)
  BY <1>1 DEF Walk, NamesInv, WalkLeads, Request, Nothing
<1>3. /\ Exists(m) /\ fids' = [fids EXCEPT ![call.f] = [node |-> m, mode |-> "free"]]
      /\ txbuf' = [t |-> "walk", reply |-> TRUE]
  BY <1>1 DEF Walk, Reply
<1>4. n \in Seq(Symbol)
  BY <1>1, NodesAreSeqs
<1> HIDE DEF n
<1>5. m = n \o NodeOf(txbuf.name)
  <2>1. CASE txbuf.name = <<>>
    <3>1. n \o <<>> = n
      BY <1>4, ConcatEmptySeq
    <3> QED BY <2>1, <3>1, NodeOfEmpty
  <2>2. CASE txbuf.name = <<".">>
    <3>1. n \o <<>> = n
      BY <1>4, ConcatEmptySeq
    <3>2. NodeOf(<<".">>) = <<>>
      BY NodeOfOne DEF Names
    <3> QED BY <2>2, <3>1, <3>2
  <2>3. CASE txbuf.name \notin {<<>>, <<".">>}
    <3>1. PICK c \in Name : txbuf.name = <<c>>
      BY <1>1, <2>3 DEF ShortNames
    <3>2. m = n \o <<c>> /\ m \in Dir \cup File
      BY <1>3, <2>3, <3>1 DEF Exists
    <3>3. c # "/"
      <4>1. c \in Symbol
        BY DEF Symbol
      <4>2. Len(n \o <<c>>) = Len(n) + 1 /\ (n \o <<c>>)[Len(n) + 1] = c /\ Len(n) \in Nat
        BY <1>4, <4>1
      <4> HIDE DEF m
      <4>3. m \in {<<>>, <<"d">>, <<"x">>, <<"d", "x">>}
        BY <3>2 DEF Dir, File
      <4>4. Len(m) # 0 /\ m[Len(m)] = c
        BY <3>2, <4>2
      <4> QED BY <4>3, <4>4
    <3>4. c # "."
      BY <2>3, <3>1
    <3> QED BY <3>1, <3>2, <3>3, <3>4, NodeOfOne DEF Names
  <2> QED BY <2>1, <2>2, <2>3
<1>6. fids'[call.f].node = m /\ \A g \in Fid : g # call.f => fids'[g] = fids[g]
  BY <1>1, <1>3 DEF TypeOK
<1> HIDE DEF m
<1> QED BY <1>1, <1>2, <1>3, <1>5, <1>6

\* The server opens the file, or makes it.
LEMMA OpenServed ==
  ASSUME IInv, NamesInv, OpenFid
  PROVE  /\ call.at \in {"open", "create"} /\ call.f \in Handle
         /\ txbuf' = [t |-> call.at, reply |-> TRUE]
         /\ \A g \in Fid : g # call.f => fids'[g] = fids[g]
         /\ fids'[call.f].node = NodeOf(call.path) /\ fids'[call.f].mode # "free"
<1> USE DEF IInv
<1>1. call \in WalkCall /\ call.at = txbuf.t /\ txbuf.fid = call.f /\ call.f \in Handle /\ call.f \in Fid
  BY OpenRequest DEF OpenFid, Fid
<1>2. CASE OpenFid!1
  <2>1. call.at = "open" /\ txbuf' = [t |-> "open", reply |-> TRUE]
    BY <1>1, <1>2 DEF Request, Reply
  <2>2. fids[call.f].node = NodeOf(call.path)
    BY <2>1 DEF NamesInv, OpenLeads
  <2>3. fids'[call.f].node = fids[call.f].node /\ fids'[call.f].mode \in {"read", "write"}
        /\ \A g \in Fid : g # call.f => fids'[g] = fids[g]
    BY <1>1, <1>2 DEF TypeOK, FidNode
  <2> QED BY <1>1, <2>1, <2>2, <2>3
<1>3. CASE OpenFid!2
  <2> DEFINE n == fids[call.f].node
  <2>1. call.at = "create" /\ txbuf' = [t |-> "create", reply |-> TRUE] /\ ~Replied("create")
    BY <1>1, <1>3 DEF Request, Reply, Replied
  <2>2. txbuf.name = LastName(call.path)
    BY <1>3, <2>1, PendingRequest DEF Request, Nothing
  <2>3. n \o NodeOf(txbuf.name) = NodeOf(call.path)
    BY <2>1, <2>2 DEF NamesInv, OpenLeads, Leads
  <2>4. n \o txbuf.name \in File /\ txbuf.name # <<>>
        /\ fids' = [fids EXCEPT ![call.f] = [node |-> n \o txbuf.name, mode |-> "write"]]
    BY <1>1, <1>3
  <2>5. PICK c \in STRING : txbuf.name = <<c>> /\ c # "/"
    <3>1. call.path \in Seq(STRING)
      BY <1>1, Fs9pAssumption DEF WalkCall
    <3>2. call.path # <<>> /\ call.path[Len(call.path)] # "/"
          /\ txbuf.name = <<call.path[Len(call.path)]>>
      BY <2>2, <2>4 DEF LastName
    <3>3. call.path[Len(call.path)] \in STRING
      BY <3>1, <3>2, LenProperties, EmptySeq
    <3> QED BY <3>2, <3>3
  <2>6. n \in Seq(Symbol)
    BY <1>1, NodesAreSeqs
  <2> HIDE DEF n
  <2>7. c # "."
    <3>1. c \in Symbol
      BY DEF Symbol, Name
    <3>2. Len(n \o <<c>>) = Len(n) + 1 /\ (n \o <<c>>)[Len(n) + 1] = c /\ Len(n) \in Nat
      BY <2>6, <3>1, OneMore
    <3> DEFINE m == n \o <<c>>
    <3>3. m \in {<<"x">>, <<"d", "x">>} /\ Len(m) # 0 /\ m[Len(m)] = c
      BY <2>4, <2>5, <3>2 DEF File
    <3> HIDE DEF m
    <3> QED BY <3>3
  <2>8. NodeOf(txbuf.name) = txbuf.name
    BY <2>5, <2>7, NodeOfOne DEF Names
  <2>9. fids'[call.f] = [node |-> n \o txbuf.name, mode |-> "write"]
        /\ \A g \in Fid : g # call.f => fids'[g] = fids[g]
    BY <1>1, <2>4 DEF TypeOK
  <2> QED BY <1>1, <2>1, <2>3, <2>8, <2>9
<1> QED BY <1>2, <1>3 DEF OpenFid

LEMMA ServerLeads ==
  ASSUME IInv, NamesInv, Server
  PROVE  WalkLeads' /\ OpenLeads'
<1> USE DEF IInv
<1>1. UNCHANGED call
  BY DEF Server
<1>2. CASE Walk
  BY <1>1, <1>2, WalkServed
     DEF WalkLeads, OpenLeads, Leads, Ahead, Request, Replied, Nothing, NamesInv
<1>3. CASE OpenFid
  <2>1. call.at # "walk" /\ call.at # "walked"
    BY <1>3, OpenServed
  <2> QED BY <1>1, <1>3, <2>1, OpenServed DEF WalkLeads, OpenLeads, Replied
<1>4. CASE Refuse
  <2>1. txbuf' = [t |-> "error", reply |-> TRUE] /\ UNCHANGED fids /\ txbuf # Nothing
        /\ "reply" \notin DOMAIN txbuf
    BY <1>4 DEF Refuse, Pending, Reply
  <2> QED BY <1>1, <2>1 DEF WalkLeads, OpenLeads, Leads, Ahead, Request, Replied, Nothing, NamesInv
<1>5. CASE Greet \/ Clunk \/ ServeRead \/ ServeWrite \/ BadCount
  <2>1. call.at \in {"version", "attach", "clunk", "moving"}
    <3>1. CASE Greet
      BY <3>1, PendingRequest DEF Greet, Request, Nothing, MoveRequest
    <3>2. CASE Clunk
      BY <3>2, ClunkRequest DEF Clunk
    <3>3. CASE ServeRead \/ ServeWrite \/ BadCount
      BY <3>3, TransferRequest DEF ServeRead, ServeWrite, BadCount
    <3> QED BY <1>5, <3>1, <3>2, <3>3
  <2> QED BY <1>1, <2>1 DEF WalkLeads, OpenLeads
<1> QED BY <1>2, <1>3, <1>4, <1>5 DEF Server

\* A call to open begins at the root with the whole path ahead.
LEMMA ProgramLeads ==
  ASSUME IInv, NamesInv, NEW f \in Handle, NEW p \in Paths,
         FsCreate(f, p) \/ \E m \in {"read", "write", "trunc"} : FsOpen(f, p, m)
  PROVE  WalkLeads' /\ OpenLeads'
<1> USE DEF IInv
<1>1. call = NoCall /\ txbuf = Nothing /\ maxlen > 0
  BY CallShape DEF FsCreate, FsOpen, Exchange, NoCall
<1>2. fids[Root].node = <<>>
  BY <1>1 DEF NamesInv, Rooted, NoCall
<1>3. /\ call'.at = "walk" /\ call'.f = f /\ call'.path = p /\ call'.from = Root /\ call'.rest = p
      /\ call'.sent = FALSE /\ txbuf' = Nothing /\ UNCHANGED fids
  BY <1>1 DEF FsCreate, FsOpen
<1>4. Ahead' = p
  BY <1>3 DEF Ahead, LastName
<1>5. p \in Seq(STRING)
  BY Fs9pAssumption
<1>6. <<>> \o NodeOf(p) = NodeOf(p)
  BY <1>5, PathsAreSeqs, ConcatEmptySeq
<1> QED BY <1>2, <1>3, <1>4, <1>6 DEF WalkLeads, OpenLeads, Leads, Request, Replied, Nothing

LEMMA LeadsStep == IInv /\ NamesInv /\ [Next]_vars => WalkLeads' /\ OpenLeads'
<1> SUFFICES ASSUME IInv, NamesInv, [Next]_vars PROVE WalkLeads' /\ OpenLeads'
  OBVIOUS
<1> USE DEF IInv
<1>1. CASE Server
  BY <1>1, ServerLeads
<1>2. CASE WalkStep \/ WalkReply \/ SendOpen \/ CreateReply \/ OpenReply
  BY <1>2, ClientLeads
<1>3. ASSUME NEW f \in Handle, NEW p \in Paths,
             FsCreate(f, p) \/ \E m \in {"read", "write", "trunc"} : FsOpen(f, p, m)
      PROVE  WalkLeads' /\ OpenLeads'
  BY <1>3, ProgramLeads
<1>4. CASE call'.at \notin {"walk", "walked", "create", "open"}
  BY <1>4 DEF WalkLeads, OpenLeads
<1>5. CASE \/ FsInit \/ VersionReply \/ AttachReply \/ ClunkReply
           \/ \E f \in Handle : \/ FsClose(f)
                                \/ \E n \in 1..MaxSize : FsRead(f, n)
                                \/ \E d \in Data : FsWrite(f, d)
  <2> SUFFICES call'.at \notin {"walk", "walked", "create", "open"}
    BY <1>4
  <2>1. CASE FsInit
    BY <2>1 DEF FsInit
  <2>2. CASE VersionReply
    <3>1. call \in InitCall
      BY <2>2, CallShape DEF VersionReply, Answered
    <3> QED BY <2>2, <3>1 DEF VersionReply, Return, Continue, NoCall, InitCall
  <2>3. CASE AttachReply \/ ClunkReply
    BY <2>3 DEF AttachReply, ClunkReply, Return, Continue, NoCall
  <2>4. ASSUME NEW f \in Handle, \/ FsClose(f)
                                 \/ \E n \in 1..MaxSize : FsRead(f, n)
                                 \/ \E d \in Data : FsWrite(f, d)
        PROVE  call'.at \notin {"walk", "walked", "create", "open"}
    BY <2>4 DEF FsClose, FsRead, FsWrite
  <2> QED BY <1>5, <2>1, <2>2, <2>3, <2>4
<1>6. CASE MoveStep \/ MoveReply
  <2>1. call \in MoveCall
    BY <1>6, CallShape DEF MoveStep, MoveReply, At, Answered
  <2>2. Moved(txbuf.count).at = "move"
    BY <2>1 DEF Moved, MoveCall
  <2>3. call'.at \notin {"walk", "walked", "create", "open"}
    BY <1>6, <2>1, <2>2 DEF MoveStep, MoveReply, MoveCall, Return, Continue, NoCall
  <2> QED BY <1>4, <2>3
<1>7. CASE UNCHANGED vars
  BY <1>7 DEF vars, NamesInv, WalkLeads, OpenLeads, Leads, Ahead, Request, Replied
<1> QED BY <1>1, <1>2, <1>3, <1>5, <1>6, <1>7 DEF Next, Program, Client

LEMMA RootedStep == IInv /\ NamesInv /\ [Next]_vars => Rooted'
<1> SUFFICES ASSUME IInv, NamesInv, [Next]_vars PROVE Rooted'
  OBVIOUS
<1> USE DEF IInv
<1>0. Rooted /\ Root \in Fid /\ Root \notin Handle
  BY Fs9pAssumption DEF NamesInv, Fid
<1>1. CASE Server
  <2>1. UNCHANGED <<call, maxlen>>
    BY <1>1 DEF Server
  <2>2. CASE Greet!1
    BY <1>0, <2>1, <2>2 DEF Rooted, Replied
  <2>3. CASE Greet!2
    <3>1. fids'[Root].node = <<>>
      BY <1>0, <2>3 DEF TypeOK
    <3> QED BY <3>1 DEF Rooted
  <2>4. CASE Walk
    <3>1. fids'[Root] = fids[Root] /\ call.at # "attach"
      BY <1>0, <2>4, WalkServed
    <3> QED BY <1>0, <2>1, <3>1 DEF Rooted
  <2>5. CASE OpenFid
    <3>1. fids'[Root] = fids[Root] /\ call.at # "attach"
      BY <1>0, <2>5, OpenServed
    <3> QED BY <1>0, <2>1, <3>1 DEF Rooted
  <2>6. CASE Clunk
    <3>1. fids'[Root] = fids[Root] /\ call.at # "attach"
      BY <1>0, <2>6, ClunkRequest DEF Clunk, TypeOK
    <3> QED BY <1>0, <2>1, <3>1 DEF Rooted
  <2>7. CASE Refuse
    BY <1>0, <2>1, <2>7 DEF Refuse, Reply, Rooted, Replied
  <2>8. CASE ServeRead \/ ServeWrite \/ BadCount
    <3>1. call.at # "attach"
      BY <2>8, TransferRequest DEF ServeRead, ServeWrite, BadCount
    <3>2. UNCHANGED fids
      BY <2>8 DEF ServeRead, ServeWrite, BadCount
    <3> QED BY <1>0, <2>1, <3>1, <3>2 DEF Rooted
  <2> QED BY <1>1, <2>2, <2>3, <2>4, <2>5, <2>6, <2>7, <2>8 DEF Server, Greet
<1>2. CASE VersionReply
  <2>1. call \in InitCall /\ maxlen = 0
    BY <1>2, CallShape DEF VersionReply, Answered, Attached
  <2> QED BY <1>0, <1>2, <2>1 DEF VersionReply, Rooted, Send, Return, Continue, NoCall, InitCall, Replied
<1>3. CASE AttachReply
  BY <1>0, <1>3 DEF AttachReply, Answered, Rooted, Return, Continue, NoCall
<1>4. CASE UNCHANGED vars
  BY <1>0, <1>4 DEF vars, Rooted, Replied
<1>5. CASE UNCHANGED <<maxlen, fids>> /\ call.at # "attach" /\ call'.at # "attach"
  BY <1>0, <1>5 DEF Rooted
<1>6. CASE Program \/ ClunkReply
  <2>1. UNCHANGED <<maxlen, fids>> /\ call'.at # "attach"
    <3>1. FsInit => UNCHANGED <<maxlen, fids>> /\ call'.at # "attach"
      BY DEF FsInit
    <3>2. ClunkReply => UNCHANGED <<maxlen, fids>> /\ call'.at # "attach"
      BY DEF ClunkReply, Return, Continue, NoCall
    <3>3. ASSUME NEW f \in Handle,
                 \/ \E p \in Paths : FsCreate(f, p) \/ \E m \in {"read", "write", "trunc"} : FsOpen(f, p, m)
                 \/ FsClose(f)
                 \/ \E n \in 1..MaxSize : FsRead(f, n)
                 \/ \E d \in Data : FsWrite(f, d)
          PROVE  UNCHANGED <<maxlen, fids>> /\ call'.at # "attach"
      BY <3>3 DEF FsCreate, FsOpen, FsClose, FsRead, FsWrite
    <3> QED BY <1>6, <3>1, <3>2, <3>3 DEF Program
  <2>2. call.at # "attach"
    <3>1. CASE ClunkReply
      BY <3>1 DEF ClunkReply, Answered
    <3>2. CASE Program
      <4>1. Idle
        BY <3>2 DEF Program, FsInit, FsCreate, FsOpen, FsClose, FsRead, FsWrite
      <4> QED BY <4>1, CallShape DEF NoCall
    <3> QED BY <1>6, <3>1, <3>2
  <2> QED BY <1>5, <2>1, <2>2
<1>7. CASE WalkStep \/ WalkReply \/ SendOpen \/ CreateReply \/ OpenReply
  <2>1. call \in WalkCall /\ call' \in WalkCall \cup {NoCall}
    BY <1>7, WalkCallStep
  <2>2. call.at # "attach" /\ call'.at # "attach"
    BY <2>1 DEF WalkCall, NoCall
  <2>3. UNCHANGED <<maxlen, fids>>
    BY <1>7 DEF WalkStep, WalkReply, SendOpen, CreateReply, OpenReply
  <2> QED BY <1>5, <2>2, <2>3
<1>8. CASE MoveStep \/ MoveReply
  <2>1. call \in MoveCall
    BY <1>8, CallShape DEF MoveStep, MoveReply, At, Answered
  <2>2. Moved(txbuf.count).at = "move"
    BY <2>1 DEF Moved, MoveCall
  <2>3. call.at # "attach" /\ call'.at # "attach"
    BY <1>8, <2>1, <2>2 DEF MoveStep, MoveReply, MoveCall, Return, Continue, NoCall
  <2>4. UNCHANGED <<maxlen, fids>>
    BY <1>8 DEF MoveStep, MoveReply
  <2> QED BY <1>5, <2>3, <2>4
<1> QED BY <1>1, <1>2, <1>3, <1>4, <1>6, <1>7, <1>8 DEF Next, Client

LEMMA OwnStep == IInv /\ NamesInv /\ [Next]_vars => Own'
<1> SUFFICES ASSUME IInv, NamesInv, [Next]_vars PROVE Own'
  OBVIOUS
<1> USE DEF IInv
<1>0. Own
  BY DEF NamesInv
<1>1. CASE Server
  <2>1. UNCHANGED <<call, opened>>
    BY <1>1 DEF Server
  <2>2. CASE call.at = "clunk"
    <3>1. "reply" \in DOMAIN txbuf'
      <4>1. Refuse \/ Clunk
        <5>1. Walk => call.at = "walk"
          BY WalkServed
        <5>2. OpenFid => call.at \in {"open", "create"}
          BY OpenServed
        <5>3. ServeRead \/ ServeWrite \/ BadCount => call.at = "moving"
          BY TransferRequest DEF ServeRead, ServeWrite, BadCount
        <5>4. Greet => call.at \in {"version", "attach"}
          BY PendingRequest DEF Greet, Request, Nothing, MoveRequest
        <5> QED BY <1>1, <2>2, <5>1, <5>2, <5>3, <5>4 DEF Server
      <4> QED BY <4>1 DEF Refuse, Clunk, Reply
    <3> QED BY <1>0, <2>1, <3>1 DEF Own, Request
  <2>3. CASE call.at # "clunk"
    BY <1>0, <2>1, <2>3 DEF Own
  <2> QED BY <2>2, <2>3
<1>2. CASE WalkStep \/ WalkReply \/ SendOpen \/ CreateReply \/ OpenReply
  <2>1. call \in WalkCall /\ call' \in WalkCall \cup {NoCall}
    BY <1>2, WalkCallStep
  <2>2. CASE call' = NoCall
    BY <2>2 DEF Own, NoCall
  <2>3. CASE call' # NoCall
    <3>1. UNCHANGED opened
      BY <1>2, <2>3 DEF WalkStep, WalkReply, SendOpen, CreateReply, OpenReply, Return, Continue
    <3>2. call'.f = call.f /\ call'.at # "clunk"
      <4>1. call'.at # "clunk"
        BY <2>1, <2>3 DEF WalkCall
      <4>2. CASE WalkStep
        BY <2>1, <4>2 DEF WalkStep, Walked, WalkCall
      <4>3. CASE WalkReply
        BY <2>1, <2>3, <4>3 DEF WalkReply, Return, Continue, WalkCall
      <4>4. CASE SendOpen
        BY <2>1, <4>4 DEF SendOpen, WalkCall
      <4>5. CASE CreateReply
        BY <2>1, <2>3, <4>5 DEF CreateReply, Return, Continue, Fallback, WalkCall
      <4>6. CASE OpenReply
        BY <2>3, <4>6 DEF OpenReply, Return, Continue
      <4> QED BY <1>2, <4>1, <4>2, <4>3, <4>4, <4>5, <4>6
    <3>3. call.op \in {"open", "create"}
      BY <2>1 DEF WalkCall
    <3> QED BY <1>0, <3>1, <3>2, <3>3 DEF Own
  <2> QED BY <2>2, <2>3
<1>3. ASSUME NEW f \in Handle, NEW p \in Paths,
             FsCreate(f, p) \/ \E m \in {"read", "write", "trunc"} : FsOpen(f, p, m)
      PROVE  Own'
  BY <1>3 DEF FsCreate, FsOpen, Own
<1>4. ASSUME NEW f \in Handle, FsClose(f)
      PROVE  Own'
  <2>1. opened'[f] = NoPath
    BY <1>4 DEF FsClose, TypeOK
  <2> QED BY <1>4, <2>1 DEF FsClose, Own, Send
<1>5. ASSUME NEW f \in Handle, \/ \E n \in 1..MaxSize : FsRead(f, n)
                               \/ \E d \in Data : FsWrite(f, d)
      PROVE  Own'
  BY <1>5 DEF FsRead, FsWrite, Own
<1>6. CASE FsInit \/ AttachReply \/ ClunkReply
  BY <1>6 DEF FsInit, AttachReply, ClunkReply, Return, Continue, NoCall, Own
<1>7. CASE VersionReply
  <2>1. call \in InitCall
    BY <1>7, CallShape DEF VersionReply, Answered
  <2> QED BY <1>7, <2>1 DEF VersionReply, Return, Continue, NoCall, InitCall, Own
<1>8. CASE MoveStep \/ MoveReply
  <2>1. call \in MoveCall
    BY <1>8, CallShape DEF MoveStep, MoveReply, At, Answered
  <2>2. Moved(txbuf.count).at = "move" /\ Moved(txbuf.count).op = call.op
    BY <2>1 DEF Moved, MoveCall
  <2>3. call'.at # "clunk" /\ call'.op \notin {"open", "create"}
    BY <1>8, <2>1, <2>2 DEF MoveStep, MoveReply, MoveCall, Return, Continue, NoCall
  <2> QED BY <2>3 DEF Own
<1>9. CASE UNCHANGED vars
  BY <1>0, <1>9 DEF vars, Own, Request
<1> QED BY <1>1, <1>2, <1>3, <1>4, <1>5, <1>6, <1>7, <1>8, <1>9 DEF Next, Program, Client

LEMMA HandleStep == IInv /\ NamesInv /\ [Next]_vars => HandleNamesItsFile'
<1> SUFFICES ASSUME IInv, NamesInv, [Next]_vars, NEW f \in Handle, opened'[f] # NoPath
             PROVE  fids'[f].node = NodeOf(opened'[f]) /\ fids'[f].mode # "free"
  BY DEF HandleNamesItsFile
<1> USE DEF IInv
<1>0. /\ opened[f] # NoPath => fids[f].node = NodeOf(opened[f]) /\ fids[f].mode # "free"
      /\ f \in Fid /\ f # Root
  BY Fs9pAssumption DEF NamesInv, HandleNamesItsFile, Fid
<1>1. CASE Server
  <2>1. UNCHANGED opened
    BY <1>1 DEF Server
  <2>2. fids'[f] = fids[f]
    <3>1. CASE Greet
      BY <1>0, <3>1 DEF Greet, TypeOK
    <3>2. CASE Walk
      <4>1. call \in WalkCall
        BY <3>2, WalkRequest DEF Walk
      <4>2. opened[call.f] = NoPath
        BY <4>1 DEF NamesInv, Own, WalkCall
      <4> QED BY <1>0, <2>1, <3>2, <4>2, WalkServed
    <3>3. CASE OpenFid
      <4>1. call \in WalkCall
        BY <3>3, OpenRequest DEF OpenFid
      <4>2. opened[call.f] = NoPath
        BY <4>1 DEF NamesInv, Own, WalkCall
      <4> QED BY <1>0, <2>1, <3>3, <4>2, OpenServed
    <3>4. CASE Clunk
      <4>1. opened[txbuf.fid] = NoPath
        BY <3>4, ClunkRequest DEF Clunk, NamesInv, Own
      <4> QED BY <1>0, <2>1, <3>4, <4>1 DEF Clunk, TypeOK
    <3>5. CASE Refuse \/ ServeRead \/ ServeWrite \/ BadCount
      BY <3>5 DEF Refuse, ServeRead, ServeWrite, BadCount
    <3> QED BY <1>1, <3>1, <3>2, <3>3, <3>4, <3>5 DEF Server
  <2> QED BY <1>0, <2>1, <2>2
<1>2. CASE UNCHANGED <<fids, opened>>
  BY <1>0, <1>2
<1>3. CASE CreateReply \/ OpenReply
  <2>1. call \in WalkCall /\ UNCHANGED fids
    BY <1>3, WalkCallStep DEF CreateReply, OpenReply
  <2>2. CASE UNCHANGED opened
    BY <1>2, <2>1, <2>2
  <2>3. CASE opened' = [opened EXCEPT ![call.f] = call.path] /\ Replied(call.at)
    <3>1. fids[call.f].node = NodeOf(call.path) /\ fids[call.f].mode # "free"
      BY <1>3, <2>3 DEF CreateReply, OpenReply, Answered, NamesInv, OpenLeads
    <3>2. opened'[f] = IF f = call.f THEN call.path ELSE opened[f]
      BY <2>3 DEF TypeOK
    <3> QED BY <1>0, <2>1, <3>1, <3>2
  <2> QED BY <1>3, <2>2, <2>3 DEF CreateReply, OpenReply, Answered
<1>4. ASSUME NEW g \in Handle, FsClose(g)
      PROVE  UNCHANGED fids /\ opened'[f] = opened[f]
  BY <1>4 DEF FsClose, TypeOK
<1>5. CASE \E g \in Handle : FsClose(g)
  BY <1>0, <1>4, <1>5
<1>6. Next => \/ Server \/ CreateReply \/ OpenReply \/ UNCHANGED <<fids, opened>>
              \/ \E g \in Handle : FsClose(g)
  BY DEF Next, Program, Client, FsInit, FsCreate, FsOpen, FsRead, FsWrite, VersionReply,
     AttachReply, WalkStep, WalkReply, SendOpen, ClunkReply, MoveStep, MoveReply
<1> QED BY <1>1, <1>2, <1>3, <1>5, <1>6 DEF vars

\* Walking name by name, by "." or by the fallback of fs_create, a handle that
\* was opened ends up on the file its path names, open there: for any paths,
\* with any number of names and slashes.
THEOREM HandleNamesItsFileHolds == Spec => []HandleNamesItsFile
<1>1. Init => NamesInv
  <2> SUFFICES ASSUME Init PROVE NamesInv
    OBVIOUS
  <2> QED BY DEF Init, NoCall, Nothing, NamesInv, Rooted, Own, WalkLeads, OpenLeads,
             HandleNamesItsFile
<1>2. IInv /\ NamesInv /\ [Next]_vars => NamesInv'
  BY LeadsStep, RootedStep, OwnStep, HandleStep DEF NamesInv
<1>3. NamesInv => HandleNamesItsFile
  BY DEF NamesInv
<1> QED BY <1>1, <1>2, <1>3, Invariant, PTL DEF Spec
=============================================================================
