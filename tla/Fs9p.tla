-------------------------------- MODULE Fs9p --------------------------------
(***************************************************************************)
(* The 9P client of samples/fileserver/fs9p.cc, by which a program on the  *)
(* board reads and writes files of the host, with the serial exchange of   *)
(* test9p.c.  A call of the library is a sequence of exchanges: the client *)
(* puts a request into txbuf, the server replaces it by its reply there,   *)
(* and the client goes on from the reply.  The server is external: it may  *)
(* refuse any request, and move fewer bytes than it was asked to.          *)
(*                                                                         *)
(* Names are single symbols: a path is a sequence of names and slashes.    *)
(* Uninitialised fs_file records are not modelled: those of test9p.c and   *)
(* writer.bas are static, and zero.                                        *)
(***************************************************************************)
EXTENDS Integers, Sequences, FiniteSets, SequencesExt

CONSTANTS
  Handle,      \* the program's fs_file records; their addresses are the fids
  Root,        \* the fid of rootdir
  Paths,       \* the paths it may name
  Data,        \* what it may write in one call
  Contents,    \* what the host's files may hold at the start
  Word,        \* the values of a uint32_t
  MAXLEN,      \* the longest message this client can take
  MinLen,      \* the shortest it accepts as the server's longest
  MSizes,      \* what the server may answer to that
  MaxSize      \* bound: how far a file may grow, and a read may ask

NameLen == 1   \* the bytes of a name
MoveHead == 23 \* the bytes of a t_read or t_write request before the data

Dir  == {<<>>, <<"d">>}              \* the host's directories, and its files
File == {<<"x">>, <<"d", "x">>}
NoFile == <<"none">>

ASSUME Fs9pAssumption ==
  /\ Root \notin Handle
  /\ MinLen \in Nat /\ MAXLEN \in Nat /\ MinLen > MoveHead /\ MAXLEN >= MinLen
  /\ Word \in Nat /\ Word > MAXLEN - MoveHead
  /\ MaxSize \in Nat /\ MSizes \subseteq Nat
  /\ Paths \subseteq Seq(STRING) /\ Contents \subseteq Seq(Nat)
  /\ \A d \in Data : d \in Seq(Nat) /\ d # <<>> /\ Len(d) \in 1..MaxSize

Fid  == Handle \cup {Root}
Free == [node |-> NoFile, mode |-> "free"]

VARIABLES
  maxlen,      \* the longest message the two agreed on; 0 before fs_init
  off,         \* offlo and offhi of each handle
  call,        \* the library call that is running, with its local variables
  txbuf,       \* the request or the reply in the buffer
  fids,        \* the server's: the node each fid stands for, and its open mode
  host,        \* the server's: the bytes of each file, or Missing
  opened       \* the program's: the path each handle was opened by, or NoPath

vars == <<maxlen, off, call, txbuf, fids, host, opened>>

NoPath  == <<"closed">>
Missing == <<-1>>
NoCall  == [op |-> "none", at |-> "none"]
Nothing == [t |-> "none"]

Init ==
  /\ maxlen = 0
  /\ off = [f \in Handle |-> [lo |-> 0, hi |-> 0]]
  /\ call = NoCall /\ txbuf = Nothing
  /\ fids = [f \in Fid |-> Free]
  /\ host \in [File -> Contents \cup {Missing}]
  /\ opened = [f \in Handle |-> NoPath]

Idle == call.op = "none"
-----------------------------------------------------------------------------
(* Paths.                                                                  *)

\* What is left of path p without its leading slashes.
Skip(p) ==
  LET first == {i \in 1..Len(p) : p[i] # "/" /\ \A j \in 1..i-1 : p[j] = "/"}
  IN  IF first = {} THEN <<>> ELSE SubSeq(p, CHOOSE i \in first : TRUE, Len(p))

\* strrchr(path, '/') + 1
LastName(p) == IF p # <<>> /\ p[Len(p)] # "/" THEN <<p[Len(p)]>> ELSE <<>>

\* The node that path p names on the host: its names, in order, but for "."
Names(c)  == IF c \in {"/", "."} THEN <<>> ELSE <<c>>
NodeOf(p) == FoldLeft(LAMBDA n, c : n \o Names(c), <<>>, p)
-----------------------------------------------------------------------------
(* Sending and returning.                                                  *)

Send(req) == txbuf' = req

\* The exchange is over: the reply has been read, and the call goes on as c.
Continue(c) == call' = c /\ txbuf' = Nothing

\* The call returns.
Return == Continue(NoCall)

\* The client's turn, at point p of its code, with reply t.
At(p)       == call.at = p /\ txbuf = Nothing
Replied(t)  == txbuf.t = t /\ "reply" \in DOMAIN txbuf
Answered(p) == call.at = p /\ "reply" \in DOMAIN txbuf

\* The bytes of a request.
SizeOf(q) ==
  CASE q.t = "version" -> 19
    [] q.t = "attach"  -> 23
    [] q.t = "walk"    -> 17 + IF q.name = <<>> THEN 0 ELSE 2 + NameLen
    [] q.t = "open"    -> 12
    [] q.t = "create"  -> 18 + NameLen * Len(q.name)
    [] q.t = "clunk"   -> 11
    [] q.t = "read"    -> MoveHead
    [] q.t = "write"   -> MoveHead + Len(q.data)
-----------------------------------------------------------------------------
(* fs_init.                                                                *)

FsInit ==
  /\ Idle /\ maxlen = 0
  /\ call' = [op |-> "init", at |-> "version"]
  /\ Send([t |-> "version", msize |-> MAXLEN])
  /\ UNCHANGED <<maxlen, off, fids, host, opened>>

InRange(m) == m >= MinLen /\ m <= MAXLEN

VersionReply ==
  /\ Answered("version")
  /\ IF Replied("version") /\ InRange(txbuf.msize)
     THEN /\ maxlen' = txbuf.msize
          /\ call' = [call EXCEPT !.at = "attach"]
          /\ Send([t |-> "attach", fid |-> Root])
     ELSE Return /\ UNCHANGED maxlen
  /\ UNCHANGED <<off, fids, host, opened>>

\* A client that is not attached goes no further.
AttachReply ==
  /\ Answered("attach")
  /\ Return
  /\ maxlen' = IF Replied("attach") THEN maxlen ELSE 0
  /\ UNCHANGED <<off, fids, host, opened>>
-----------------------------------------------------------------------------
(* do_fs_walk, and fs_open and fs_create, which begin with it.             *)

\* fs_open: mode is "read", or "write" with truncation or without.
FsOpen(f, p, m) ==
  /\ Idle /\ maxlen > 0 /\ opened[f] = NoPath
  /\ call' = [op |-> "open", at |-> "walk", f |-> f, path |-> p, mode |-> m,
              from |-> Root, rest |-> p, skip |-> FALSE, sent |-> FALSE]
  /\ UNCHANGED <<maxlen, off, txbuf, fids, host, opened>>

\* fs_create: first to the directory of the file.
FsCreate(f, p) ==
  /\ Idle /\ maxlen > 0 /\ opened[f] = NoPath
  /\ call' = [op |-> "create", at |-> "walk", f |-> f, path |-> p, mode |-> "trunc",
              from |-> Root, rest |-> p, skip |-> TRUE, sent |-> FALSE]
  /\ UNCHANGED <<maxlen, off, txbuf, fids, host, opened>>

\* Mutant of Walked: every name is walked from where the first was.
WalkedAgain(rest) == [call EXCEPT !.rest = rest, !.sent = TRUE]

\* The call after the request for a name was sent: the next walk is from f.
Walked(rest) == [call EXCEPT !.rest = rest, !.sent = TRUE, !.from = call.f]

\* One turn of the loop: the next name, or "." for a last name to be skipped.
WalkStep ==
  /\ At("walk")
  /\ LET p    == Skip(call.rest)
         last == call.skip /\ Len(p) = 1
     IN  IF last /\ call.sent
         THEN call' = [call EXCEPT !.at = "walked"] /\ UNCHANGED txbuf
         ELSE /\ Send([t |-> "walk", fid |-> call.from, newfid |-> call.f,
                       name |-> IF p = <<>> THEN <<>>
                                ELSE IF last THEN <<".">> ELSE <<Head(p)>>])
              /\ call' = Walked(IF p = <<>> THEN <<>> ELSE Tail(p))
  /\ UNCHANGED <<maxlen, off, fids, host, opened>>

WalkReply ==
  /\ Answered("walk")
  /\ IF Replied("walk")
     THEN Continue([call EXCEPT !.at = IF call.rest = <<>> THEN "walked" ELSE "walk"])
     ELSE Return
  /\ UNCHANGED <<maxlen, off, fids, host, opened>>

\* The request that follows the walk.
SendOpen ==
  /\ At("walked")
  /\ IF call.skip
     THEN /\ Send([t |-> "create", fid |-> call.f, name |-> LastName(call.path)])
          /\ call' = [call EXCEPT !.at = "create"]
     ELSE /\ Send([t |-> "open", fid |-> call.f, mode |-> call.mode])
          /\ call' = [call EXCEPT !.at = "open"]
  /\ UNCHANGED <<maxlen, off, fids, host, opened>>

\* The file cannot be created: open it, from the directory f stands for.
Fallback == [call EXCEPT !.at = "walk", !.rest = LastName(call.path),
               !.from = call.f, !.skip = FALSE, !.sent = FALSE]

\* fs_create returns without a look at the offset; see README.
CreateReply ==
  /\ Answered("create")
  /\ IF Replied("create")
     THEN Return /\ opened' = [opened EXCEPT ![call.f] = call.path]
     ELSE Continue(Fallback) /\ UNCHANGED opened
  /\ UNCHANGED <<maxlen, off, fids, host>>

OpenReply ==
  /\ Answered("open")
  /\ Return
  /\ IF Replied("open")
     THEN /\ off' = [off EXCEPT ![call.f] = [lo |-> 0, hi |-> 0]]
          /\ opened' = [opened EXCEPT ![call.f] = call.path]
     ELSE UNCHANGED <<off, opened>>
  /\ UNCHANGED <<maxlen, fids, host>>

\* fs_close: the program is done with f whatever the answer.
FsClose(f) ==
  /\ Idle /\ opened[f] # NoPath
  /\ opened' = [opened EXCEPT ![f] = NoPath]
  /\ call' = [op |-> "close", at |-> "clunk"]
  /\ Send([t |-> "clunk", fid |-> f])
  /\ UNCHANGED <<maxlen, off, fids, host>>

ClunkReply ==
  /\ Answered("clunk")
  /\ Return
  /\ UNCHANGED <<maxlen, off, fids, host, opened>>
-----------------------------------------------------------------------------
(* fs_read and fs_write: a loop of chunks.                                 *)

Position(f) == off[f].hi * Word + off[f].lo

\* count > 0 bytes; start and asked are history.
FsRead(f, n) ==
  /\ Idle /\ opened[f] # NoPath
  /\ call' = [op |-> "read", at |-> "move", f |-> f, buf |-> <<>>,
              count |-> n, total |-> 0, start |-> Position(f), asked |-> n]
  /\ UNCHANGED <<maxlen, off, txbuf, fids, host, opened>>

FsWrite(f, d) ==
  /\ Idle /\ opened[f] # NoPath
  /\ Position(f) + Len(d) <= MaxSize
  /\ call' = [op |-> "write", at |-> "move", f |-> f, buf |-> d,
              count |-> Len(d), total |-> 0, start |-> Position(f), asked |-> Len(d)]
  /\ UNCHANGED <<maxlen, off, txbuf, fids, host, opened>>

\* Mutant of Left: the count field is forgotten.
LeftNoCount == maxlen - (MoveHead - 4)

\* The data that fits in one message.
Left == maxlen - MoveHead

CurCount == IF call.count < Left THEN call.count ELSE Left

MoveStep ==
  /\ At("move")
  /\ IF call.op = "read"
     THEN Send([t |-> "read", fid |-> call.f, lo |-> off[call.f].lo,
                hi |-> off[call.f].hi, count |-> CurCount])
     ELSE Send([t |-> "write", fid |-> call.f, lo |-> off[call.f].lo,
                hi |-> off[call.f].hi, data |-> SubSeq(call.buf, 1, CurCount)])
  /\ call' = [call EXCEPT !.at = "moving"]
  /\ UNCHANGED <<maxlen, off, fids, host, opened>>

\* Mutant of Advanced: the high word never counts.
AdvancedLow(o, r) == [o EXCEPT !.lo = (o.lo + r) % Word]

\* The offset r bytes on: the low word wraps, and the high word counts that.
Advanced(o, r) ==
  LET lo == (o.lo + r) % Word
  IN  [lo |-> lo, hi |-> IF lo < o.lo THEN o.hi + 1 ELSE o.hi]

\* Mutants of Over: a short count is taken for the end of the file; an empty
\* one is not.
OverShort(r) == r < CurCount \/ r = call.count
OverNever(r) == r = call.count

\* The loop ends with a chunk of r bytes: nothing came, or nothing is left.
Over(r) == r = 0 \/ r = call.count

\* Mutant of Moved: fs_write does not step on in the caller's buffer.
MovedSameBytes(r) ==
  [call EXCEPT !.at = "move", !.total = @ + r, !.count = @ - r,
     !.buf = IF call.op = "read" THEN @ \o txbuf.data ELSE SubSeq(@, 1, Len(@) - r)]

\* r bytes were moved, and are counted.
Moved(r) ==
  [call EXCEPT !.at = "move", !.total = @ + r, !.count = @ - r,
     !.buf = IF call.op = "read" THEN @ \o txbuf.data ELSE SubSeq(@, r + 1, Len(@))]

\* An error, or a count that was not asked for, ends the call with -1; the
\* offset keeps what was moved before.
MoveReply ==
  /\ Answered("moving")
  /\ IF Replied(call.op) /\ txbuf.count <= CurCount
     THEN /\ off' = [off EXCEPT ![call.f] = Advanced(@, txbuf.count)]
          /\ IF Over(txbuf.count) THEN Return ELSE Continue(Moved(txbuf.count))
     ELSE Return /\ UNCHANGED off
  /\ UNCHANGED <<maxlen, fids, host, opened>>
-----------------------------------------------------------------------------
(* What the program sees of it: HostFile.                                  *)

\* The bytes a reply that waits to be read has moved.
InFlight(f) ==
  IF call.at = "moving" /\ call.f = f /\ Replied(call.op) /\ txbuf.count <= CurCount
  THEN txbuf.count ELSE 0

Cursor(f) == [file |-> IF fids[f].mode = "free" THEN NoFile ELSE fids[f].node,
              pos  |-> Position(f) + InFlight(f)]

Buffer ==
  CASE call.op = "read"  -> IF InFlight(call.f) = 0 THEN call.buf ELSE call.buf \o txbuf.data
    [] call.op = "write" -> SubSeq(call.buf, InFlight(call.f) + 1, Len(call.buf))
    [] OTHER             -> <<>>

Content == [n \in File |-> IF host[n] = Missing THEN <<>> ELSE host[n]]
Cursors == [f \in Handle |-> Cursor(f)]

Abstract == INSTANCE HostFile WITH
  Data    <- Data \cup {<<>>},
  content <- Content,
  cursor  <- Cursors,
  buffer  <- Buffer
-----------------------------------------------------------------------------
(* The server, external.                                                   *)

Request(t) == txbuf.t = t /\ "reply" \notin DOMAIN txbuf
Pending    == txbuf # Nothing /\ "reply" \notin DOMAIN txbuf
Reply(t)   == txbuf' = [t |-> t, reply |-> TRUE]

Refuse ==
  /\ Pending
  /\ Reply("error")
  /\ UNCHANGED <<fids, host>>

Greet ==
  \/ /\ Request("version")
     /\ \E m \in MSizes : txbuf' = [t |-> "version", reply |-> TRUE, msize |-> m]
     /\ UNCHANGED <<fids, host>>
  \/ /\ Request("attach")
     /\ Reply("attach")
     /\ fids' = [fids EXCEPT ![Root] = [node |-> <<>>, mode |-> "free"]]
     /\ UNCHANGED host

Exists(n) == n \in Dir \/ (n \in File /\ host[n] # Missing)

\* A new fid stands for the node one name further on; one in use is replaced.
Walk ==
  /\ Request("walk")
  /\ LET n == fids[txbuf.fid].node
         m == IF txbuf.name \in {<<>>, <<".">>} THEN n ELSE n \o txbuf.name
     IN  /\ Exists(m) /\ Exists(n)
         /\ fids' = [fids EXCEPT ![txbuf.newfid] = [node |-> m, mode |-> "free"]]
  /\ Reply("walk")
  /\ UNCHANGED host

\* Opening a file, or creating one in a directory, which may be there already.
OpenFid ==
  \/ /\ Request("open")
     /\ fids[txbuf.fid].node \in File /\ Exists(fids[txbuf.fid].node)
     /\ fids' = [fids EXCEPT ![txbuf.fid].mode = IF txbuf.mode = "read" THEN "read" ELSE "write"]
     /\ host' = [host EXCEPT ![fids[txbuf.fid].node] = IF txbuf.mode = "trunc" THEN <<>> ELSE @]
     /\ Reply("open")
  \/ /\ Request("create")
     /\ fids[txbuf.fid].node \o txbuf.name \in File /\ txbuf.name # <<>>
     /\ fids' = [fids EXCEPT ![txbuf.fid] =
                   [node |-> fids[txbuf.fid].node \o txbuf.name, mode |-> "write"]]
     /\ host' = [host EXCEPT ![fids[txbuf.fid].node \o txbuf.name] = <<>>]
     /\ Reply("create")

Clunk ==
  /\ Request("clunk")
  /\ fids' = [fids EXCEPT ![txbuf.fid] = Free]
  /\ Reply("clunk")
  /\ UNCHANGED host

\* The place a request speaks of.
Place(q) == q.hi * Word + q.lo

\* What is there, or less of it; nothing only at the end of the file.
ServeRead ==
  /\ Request("read") /\ fids[txbuf.fid].mode = "read"
  /\ LET c == host[fids[txbuf.fid].node]
         p == Place(txbuf)
         n == IF Len(c) - p < txbuf.count THEN Len(c) - p ELSE txbuf.count
     IN  \E r \in IF n <= 0 THEN {0} ELSE 1..n :
           txbuf' = [t |-> "read", reply |-> TRUE, count |-> r, data |-> SubSeq(c, p+1, p+r)]
  /\ UNCHANGED <<fids, host>>

\* The data, or the first bytes of it, or none.
ServeWrite ==
  /\ Request("write") /\ fids[txbuf.fid].mode = "write"
  /\ \E r \in 0..Len(txbuf.data) :
       /\ txbuf' = [t |-> "write", reply |-> TRUE, count |-> r]
       /\ host' = IF r = 0 THEN host ELSE
            [host EXCEPT ![fids[txbuf.fid].node] =
                Abstract!Patched(@, Place(txbuf), SubSeq(txbuf.data, 1, r))]
  /\ UNCHANGED fids

\* A count that was not asked for; nothing was moved.
BadCount ==
  /\ Request("read") \/ Request("write")
  /\ txbuf' = [t |-> txbuf.t, reply |-> TRUE, count |-> CurCount + 1]
  /\ UNCHANGED <<fids, host>>

Server ==
  /\ Refuse \/ Greet \/ Walk \/ OpenFid \/ Clunk \/ ServeRead \/ ServeWrite \/ BadCount
  /\ UNCHANGED <<maxlen, off, call, opened>>

\* What the library does of its own while a call runs.
Client ==
  \/ VersionReply \/ AttachReply \/ WalkStep \/ WalkReply \/ SendOpen
  \/ CreateReply \/ OpenReply \/ ClunkReply \/ MoveStep \/ MoveReply

Program ==
  \/ FsInit
  \/ \E f \in Handle :
       \/ \E p \in Paths : FsCreate(f, p) \/ \E m \in {"read", "write", "trunc"} : FsOpen(f, p, m)
       \/ FsClose(f)
       \/ \E n \in 1..MaxSize : FsRead(f, n)
       \/ \E d \in Data : FsWrite(f, d)

Next == Program \/ Client \/ Server

\* The library runs on, and the server answers: serSendRecv waits without a
\* limit for the reply.
Spec == Init /\ [][Next]_vars /\ WF_vars(Client) /\ WF_vars(Server)
-----------------------------------------------------------------------------
(* Properties.                                                             *)

\* However a transfer is cut into messages, across a wrap of the low word
\* too, the handle stands where the call began plus what has been moved, and
\* the caller's buffer and the two counts agree with that.
Progress ==
  call.op \in {"read", "write"} =>
    /\ Position(call.f) = call.start + call.total
    /\ call.total + call.count = call.asked
    /\ Len(call.buf) = IF call.op = "read" THEN call.total ELSE call.count

\* No request is longer than the two agreed on ("maximum length we're willing
\* to send/receive", fs9p.h:34), for names as short as these.
FitsMessage == Pending => SizeOf(txbuf) <= IF maxlen = 0 THEN MAXLEN ELSE maxlen

\* Walking name by name, by "." or by the fallback of fs_create, a handle that
\* was opened ends up on the file its path names, open there.
HandleNamesItsFile ==
  \A f \in Handle : opened[f] # NoPath =>
    /\ fids[f].node = NodeOf(opened[f])
    /\ fids[f].mode # "free"

\* A read that returns fewer bytes than it was asked for, and no error, has
\* come to the end of the file: servers that answer with less are asked again.
ShortMeansEnd ==
  [][MoveReply /\ Idle' /\ Replied("read") /\ txbuf.count <= CurCount =>
       \/ call.total + txbuf.count = call.asked
       \/ Position(call.f) >= Len(host[fids[call.f].node])]_vars

\* The client implements a cursor in a file.
IsHostFile == Abstract!Spec

\* Every call returns.
CallsEnd == ~Idle ~> Idle
=============================================================================
