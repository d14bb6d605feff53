------------------------------ MODULE WsSocket ------------------------------
(***************************************************************************)
(* One WebSocket socket (src/transports/ws/socket.go): the read loop that  *)
(* relays data messages into a pipe and answers control frames, the        *)
(* goroutines that call the socket, the peer and time.  As in TcpSocket a  *)
(* step is what the code does between two points of interference.          *)
(*                                                                         *)
(* The peer's bytes arrive as items: a frame header, one payload byte, a   *)
(* whole control frame, or the end of the stream.  A data frame carries at *)
(* most one byte; longer payloads are fragmented messages.  Time is Tick:  *)
(* it passes only while the read loop waits for someone, that is, the loop *)
(* is fast compared with a timeout.                                        *)
(***************************************************************************)
EXTENDS Integers, Sequences

CONSTANTS
  Senders, Setters, Closers,  \* goroutines that call Send, SetTimeOut, Close
  Reader, Loop,               \* the goroutine that calls Recv; the read loop
  Packets,                    \* payloads handed to Send, one frame each
  Durations,                  \* timeouts, 0 disables
  PeerItems,                  \* what kinds of items the peer sends
  EmptyMessages,              \* may the peer send messages without any byte
  MaxIn,                      \* bound: items on their way
  MaxQuiet,                   \* bound: ticks without a data byte
  None

Threads == Senders \cup Setters \cup Closers \cup {Reader, Loop}
Frames  == Packets \cup {"pong", "bye"}
Size    == [f \in Frames |-> 2]       \* ws.WriteFrame: header, then payload
NoDl    == -1                         \* no read deadline

ASSUME ConstantsType ==
  /\ Reader # Loop /\ Loop \notin Senders \cup Setters \cup Closers
  /\ Durations \subseteq Nat /\ EmptyMessages \in BOOLEAN
  /\ MaxIn \in Nat /\ MaxQuiet \in Nat
  /\ {"pong", "bye"} \cap Packets = {}
  /\ None \notin Threads \cup {"EOF", "read", "timeout", "write", "closed",
                               "self"}

VARIABLES
  closed, once, timeout, wmu,  \* fields of socket, as in TcpSocket
  pend,      \* a byte the loop has written to the pipe and nobody has read
  cause,     \* the error the pipe was closed with, or None
  open,      \* conn.Close has not been called
  rdl,       \* ticks until the read deadline, or NoDl
  tail,      \* the last unit written to the connection
  inq,       \* items on their way to the loop
  peer,      \* the peer: in a message, has sent a byte of it, owes one, gone
  undelivered,    \* bytes the peer has sent and Recv has not returned
  quiet,     \* ticks since the last data byte or SetTimeOut, the time the
             \* application takes to read not counted
  unsent,    \* packets nobody has handed to Send yet
  torn,      \* a frame was cut short
  msg,       \* the loop: in a message, bytes seen, fragment final, next label
  pc, d, n, frm, why  \* per goroutine: control, duration, units, frame, cause

shut  == <<closed, once, cause, open>>
peers == <<inq, peer>>
write == <<wmu, tail, unsent, torn, n, frm>>
read  == <<pend, undelivered, quiet, msg>>
vars  == <<shut, timeout, rdl, peers, write, read, pc, d, why>>

PW == INSTANCE PacketWire WITH Packets <- Frames

Goto(g, l) == pc' = [pc EXCEPT ![g] = l]

(* closeWithCause(c) by g.                                                 *)
CloseFor(g, c) == Goto(g, "close") /\ why' = [why EXCEPT ![g] = c]

(* An operation of the connection failed: with its own error, or because   *)
(* this socket has closed the connection under it.                         *)
ConnError(c) == IF open THEN c ELSE "self"

-----------------------------------------------------------------------------
(* The read loop *)

(* armReadDeadline: load, then set.                                        *)
ArmLoad ==
  /\ pc[Loop] = "arm"
  /\ d' = [d EXCEPT ![Loop] = timeout]
  /\ Goto(Loop, "armset")
  /\ UNCHANGED <<shut, timeout, rdl, peers, write, read, why>>

ArmSet ==
  /\ pc[Loop] = "armset"
  /\ rdl' = IF ~open THEN rdl ELSE IF d[Loop] > 0 THEN d[Loop] ELSE NoDl
  /\ Goto(Loop, msg.next)
  /\ UNCHANGED <<shut, timeout, peers, write, read, d, why>>

(* A read returns an item only on an open connection, before the deadline. *)
Take(item) == /\ open /\ rdl # 0
              /\ inq # <<>> /\ Head(inq) = item
              /\ inq' = Tail(inq)

(* A data frame's header.  The first of a message makes a progressReader   *)
(* that counts as progressed, so its first Read arms the deadline; a later *)
(* fragment's header arms nothing.                                         *)
DataHeader(len, fin) ==
  /\ pc[Loop] = "frame"
  /\ Take(<<"data", len, fin>>)
  /\ msg' = [in |-> TRUE, got |-> msg.in /\ msg.got, left |-> len, fin |-> fin,
             next |-> "body"]
  /\ Goto(Loop, IF msg.in THEN "body" ELSE "arm")
  /\ UNCHANGED <<shut, timeout, rdl, peer, write, pend, undelivered, quiet, d,
                 why>>

DataByte ==               \* read a byte and write it to the pipe
  /\ pc[Loop] = "body" /\ msg.left = 1
  /\ Take(<<"byte">>)
  /\ pend' = TRUE /\ quiet' = 0
  /\ msg' = [msg EXCEPT !.left = 0, !.got = TRUE]
  /\ Goto(Loop, "pipe")
  /\ UNCHANGED <<shut, timeout, rdl, peer, write, undelivered, d, why>>

(* Mutant: the byte is queued; the loop does not wait for Recv.            *)
PipeNoWait ==
  /\ pc[Loop] = "pipe"
  /\ msg' = [msg EXCEPT !.in = ~msg.fin, !.next = "frame"]
  /\ Goto(Loop, "arm")
  /\ UNCHANGED <<shut, timeout, rdl, peers, write, pend, undelivered, quiet,
                 d, why>>

(* Mutant: no fresh deadline after the application has read the byte.      *)
PipeTakenNoArm ==
  /\ pc[Loop] = "pipe" /\ ~pend
  /\ msg' = [msg EXCEPT !.in = ~msg.fin, !.next = "frame"]
  /\ Goto(Loop, "frame")
  /\ UNCHANGED <<shut, timeout, rdl, peers, write, pend, undelivered, quiet,
                 d, why>>

(* The pipe's Write returns when Recv has read the byte.  Then either the  *)
(* next Read of the message arms, or the message has ended and the loop    *)
(* does.                                                                   *)
PipeTaken ==
  /\ pc[Loop] = "pipe" /\ ~pend
  /\ msg' = [msg EXCEPT !.in = ~msg.fin, !.next = "frame"]
  /\ Goto(Loop, "arm")
  /\ UNCHANGED <<shut, timeout, rdl, peers, write, pend, undelivered, quiet,
                 d, why>>

(* Mutant: a close does not end the loop's write, only a Recv does.        *)
PipeClosedByReader ==
  /\ pc[Loop] = "pipe" /\ pend /\ cause # None /\ pc[Reader] = "recv"
  /\ CloseFor(Loop, cause)
  /\ UNCHANGED <<shut, timeout, rdl, peers, write, read, d>>

PipeClosed ==
  /\ pc[Loop] = "pipe" /\ pend /\ cause # None
  /\ CloseFor(Loop, cause)
  /\ UNCHANGED <<shut, timeout, rdl, peers, write, read, d>>

(* An empty fragment reads (0, nil); an empty last one ends the message.   *)
FragmentEmpty ==
  /\ pc[Loop] = "body" /\ msg.left = 0
  /\ msg' = [msg EXCEPT !.in = ~msg.fin, !.next = "frame"]
  /\ Goto(Loop, IF msg.fin /\ msg.got THEN "arm" ELSE "frame")
  /\ UNCHANGED <<shut, timeout, rdl, peers, write, pend, undelivered, quiet,
                 d, why>>

ControlFrame(kind, reply) ==
  /\ pc[Loop] = "frame"
  /\ Take(<<kind>>)
  /\ frm' = [frm EXCEPT ![Loop] = reply]
  /\ n' = [n EXCEPT ![Loop] = 0]
  /\ d' = [d EXCEPT ![Loop] = timeout]
  /\ Goto(Loop, "try")
  /\ UNCHANGED <<shut, timeout, rdl, peer, wmu, tail, unsent, torn, read,
                 why>>

(* Mutant: control frames count as activity.                               *)
AfterReplyArm == IF frm[Loop] = "pong" THEN Goto(Loop, "arm") /\ UNCHANGED why
                                       ELSE CloseFor(Loop, "EOF")

(* After the reply, or without one: a ping goes on, a close ends the loop. *)
AfterReply == IF frm[Loop] = "pong" THEN Goto(Loop, "frame") /\ UNCHANGED why
                                    ELSE CloseFor(Loop, "EOF")

(* Mutant: the reply is written without the lock.                          *)
NoLock ==
  /\ pc[Loop] = "try"
  /\ UNCHANGED wmu /\ Goto(Loop, "write") /\ UNCHANGED why
  /\ UNCHANGED <<shut, timeout, rdl, peers, tail, unsent, torn, n, frm, read,
                 d>>

(* Mutant: the reply waits for the lock.                                   *)
LockBlocking ==
  /\ pc[Loop] = "try" /\ wmu = None
  /\ IF open THEN wmu' = Loop /\ Goto(Loop, "write") /\ UNCHANGED why
             ELSE UNCHANGED wmu /\ CloseFor(Loop, "EOF")
  /\ UNCHANGED <<shut, timeout, rdl, peers, tail, unsent, torn, n, frm, read,
                 d>>

TryLock ==                \* tryWriteFrame; SetWriteDeadline fails when closed
  /\ pc[Loop] = "try"
  /\ \/ /\ wmu = None /\ open
        /\ wmu' = Loop /\ Goto(Loop, "write") /\ UNCHANGED why
     \/ /\ wmu = None /\ ~open /\ UNCHANGED wmu
        /\ CloseFor(Loop, IF frm[Loop] = "pong" THEN ConnError("write") ELSE "EOF")
     \/ wmu # None /\ UNCHANGED wmu /\ AfterReply
  /\ UNCHANGED <<shut, timeout, rdl, peers, tail, unsent, torn, n, frm, read,
                 d>>

(* The stream ends: cleanly only between two messages.  A protocol error   *)
(* ends the loop too.                                                      *)
StreamEnd(kind) ==
  /\ pc[Loop] = "frame" \/ (pc[Loop] = "body" /\ msg.left = 1)
  /\ Take(<<kind>>)
  /\ CloseFor(Loop, IF kind = "eof" /\ ~msg.in THEN "EOF" ELSE "read")
  /\ UNCHANGED <<shut, timeout, rdl, peer, write, read, d>>

ReadFail ==               \* the deadline has passed or the socket was closed
  /\ pc[Loop] = "frame" \/ (pc[Loop] = "body" /\ msg.left = 1)
  /\ rdl = 0 \/ ~open
  /\ CloseFor(Loop, ConnError("timeout"))
  /\ UNCHANGED <<shut, timeout, rdl, peers, write, read, d>>

-----------------------------------------------------------------------------
(* Recv reads the pipe *)

RecvCall ==
  /\ pc[Reader] = "idle"
  /\ Goto(Reader, "recv")
  /\ UNCHANGED <<shut, timeout, rdl, peers, write, read, d, why>>

(* Mutant: the byte stays in the pipe and is read twice.                   *)
RecvByteTwice ==
  /\ pc[Reader] = "recv" /\ pend /\ cause = None
  /\ undelivered' = undelivered - 1
  /\ Goto(Reader, "idle")
  /\ UNCHANGED <<shut, timeout, rdl, peers, write, pend, quiet, msg, d, why>>

RecvByte ==
  /\ pc[Reader] = "recv" /\ pend /\ cause = None
  /\ pend' = FALSE /\ undelivered' = undelivered - 1
  /\ Goto(Reader, "idle")
  /\ UNCHANGED <<shut, timeout, rdl, peers, write, quiet, msg, d, why>>

RecvErr ==
  /\ pc[Reader] = "recv" /\ cause # None
  /\ Goto(Reader, "idle")
  /\ UNCHANGED <<shut, timeout, rdl, peers, write, read, d, why>>

-----------------------------------------------------------------------------
(* Send, and the writes of the loop's replies *)

SendCall(g, p) ==         \* marshals into a buffer, loads the timeout
  /\ g \in Senders /\ pc[g] = "idle" /\ p \in unsent
  /\ unsent' = unsent \ {p}
  /\ d' = [d EXCEPT ![g] = timeout]
  /\ frm' = [frm EXCEPT ![g] = p]
  /\ n' = [n EXCEPT ![g] = 0]
  /\ IF closed THEN UNCHANGED pc ELSE Goto(g, "lock")
  /\ UNCHANGED <<shut, timeout, rdl, peers, wmu, tail, torn, read, why>>

SendLock(g) ==            \* wmu.Lock; SetWriteDeadline fails when closed
  /\ pc[g] = "lock" /\ wmu = None
  /\ IF open THEN wmu' = g /\ Goto(g, "write") /\ UNCHANGED why
             ELSE UNCHANGED wmu /\ CloseFor(g, ConnError("write"))
  /\ UNCHANGED <<shut, timeout, rdl, peers, tail, unsent, torn, n, frm, read,
                 d>>

WriteSome(g) ==
  /\ pc[g] = "write" /\ n[g] < Size[frm[g]] /\ open
  /\ n' = [n EXCEPT ![g] = @ + 1]
  /\ tail' = <<frm[g], n[g] + 1>>
  /\ UNCHANGED <<shut, timeout, rdl, peers, wmu, unsent, torn, frm, read, pc,
                 d, why>>

WriteDone(g) ==
  /\ pc[g] = "write" /\ n[g] = Size[frm[g]]
  /\ wmu' = None
  /\ IF g = Loop THEN AfterReply ELSE Goto(g, "idle") /\ UNCHANGED why
  /\ UNCHANGED <<shut, timeout, rdl, peers, tail, unsent, torn, n, frm, read,
                 d>>

(* The write fails.  The deferred wmu.Unlock runs before closeWithCause;   *)
(* the error of a close reply is ignored.                                  *)
WriteFail(g) ==
  /\ pc[g] = "write" /\ n[g] < Size[frm[g]]
  /\ wmu' = None
  /\ torn' = (torn \/ n[g] > 0)
  /\ CloseFor(g, IF frm[g] = "bye" THEN "EOF" ELSE ConnError("write"))
  /\ UNCHANGED <<shut, timeout, rdl, peers, tail, unsent, n, frm, read, d>>

-----------------------------------------------------------------------------
(* SetTimeOut: the store, then the read deadline *)

SetTimeOut(g, v) ==
  /\ g \in Setters /\ pc[g] = "idle"
  /\ timeout' = v
  /\ d' = [d EXCEPT ![g] = v]
  /\ Goto(g, "setread")
  /\ UNCHANGED <<shut, rdl, peers, write, read, why>>

SetRead(g) ==
  /\ pc[g] = "setread"
  /\ rdl' = IF ~open THEN rdl ELSE IF d[g] > 0 THEN d[g] ELSE NoDl
  /\ quiet' = 0
  /\ Goto(g, "idle")
  /\ UNCHANGED <<shut, timeout, peers, write, pend, undelivered, msg, d, why>>

-----------------------------------------------------------------------------
(* Close and closeWithCause *)

(* Mutant: Close closes the connection before it enters the once.          *)
CloseCallConn(g) ==
  /\ g \in Closers /\ pc[g] = "idle"
  /\ open' = FALSE
  /\ CloseFor(g, "closed")
  /\ UNCHANGED <<closed, once, cause, timeout, rdl, peers, write, read, d>>

CloseCall(g) ==
  /\ g \in Closers /\ pc[g] = "idle"
  /\ CloseFor(g, "closed")
  /\ UNCHANGED <<shut, timeout, rdl, peers, write, read, d>>

(* closeWithCause returns to its caller; the loop's caller is the end of   *)
(* the loop.                                                               *)
Closed(g) == Goto(g, IF g = Loop THEN "done" ELSE "idle")

CloseOnce(g) ==
  /\ pc[g] = "close" /\ once = "unused"
  /\ once' = "running"
  /\ Goto(g, "flag")
  /\ UNCHANGED <<closed, cause, open, timeout, rdl, peers, write, read, d,
                 why>>

CloseAgain(g) ==
  /\ pc[g] = "close" /\ once = "done"
  /\ Closed(g)
  /\ UNCHANGED <<shut, timeout, rdl, peers, write, read, d, why>>

CloseFlag(g) ==
  /\ pc[g] = "flag"
  /\ closed' = TRUE
  /\ Goto(g, "pipeclose")
  /\ UNCHANGED <<once, cause, open, timeout, rdl, peers, write, read, d, why>>

ClosePipe(g) ==           \* unblocks Recv and a loop blocked on the pipe
  /\ pc[g] = "pipeclose"
  /\ cause' = why[g]
  /\ Goto(g, "shut")
  /\ UNCHANGED <<closed, once, open, timeout, rdl, peers, write, read, d,
                 why>>

CloseConn(g) ==
  /\ pc[g] = "shut"
  /\ open' = FALSE /\ once' = "done"
  /\ Closed(g)
  /\ UNCHANGED <<closed, cause, timeout, rdl, peers, write, read, d, why>>

-----------------------------------------------------------------------------
(* The peer and time (external) *)

PeerPut(kind, item) ==
  /\ kind \in PeerItems /\ ~peer.gone /\ Len(inq) < MaxIn
  /\ inq' = Append(inq, item)

PeerHeader(len, fin) ==
  /\ ~peer.owes
  /\ IF fin THEN EmptyMessages \/ len = 1 \/ (peer.in /\ peer.got)
            ELSE "fragment" \in PeerItems
  /\ PeerPut("data", <<"data", len, fin>>)
  /\ peer' = [in |-> ~fin, got |-> ~fin /\ (len = 1 \/ (peer.in /\ peer.got)),
              owes |-> len = 1, gone |-> FALSE]
  /\ UNCHANGED <<shut, timeout, rdl, write, read, pc, d, why>>

PeerByte ==
  /\ peer.owes
  /\ PeerPut("data", <<"byte">>)
  /\ peer' = [peer EXCEPT !.owes = FALSE]
  /\ undelivered' = undelivered + 1
  /\ UNCHANGED <<shut, timeout, rdl, write, pend, quiet, msg, pc, d, why>>

PeerControl(kind) ==
  /\ ~peer.owes \/ kind = "eof"
  /\ PeerPut(kind, <<kind>>)
  /\ peer' = [peer EXCEPT !.gone = kind # "ping"]
  /\ UNCHANGED <<shut, timeout, rdl, write, read, pc, d, why>>

(* A tick passes while the loop waits: for the peer to send, for the peer  *)
(* to take a reply, whose own deadline runs, or for the application.       *)
Tick ==
  /\ rdl # NoDl /\ quiet < MaxQuiet
  /\ \/ /\ pc[Loop] = "frame" \/ (pc[Loop] = "body" /\ msg.left = 1)
        /\ inq = <<>> /\ open /\ rdl > 0
        /\ quiet' = quiet + 1 /\ UNCHANGED d
     \/ /\ pc[Loop] = "write" /\ d[Loop] > 0
        /\ quiet' = quiet + 1 /\ d' = [d EXCEPT ![Loop] = @ - 1]
     \/ /\ pc[Loop] = "pipe" /\ pend /\ cause = None /\ rdl > 0
        /\ UNCHANGED <<quiet, d>>
  /\ rdl' = IF rdl > 0 THEN rdl - 1 ELSE 0
  /\ UNCHANGED <<shut, timeout, peers, write, pend, undelivered, msg, pc,
                 why>>

-----------------------------------------------------------------------------
Init ==                   \* newSocket starts the loop
  /\ closed = FALSE /\ once = "unused" /\ timeout \in Durations
  /\ wmu = None /\ pend = FALSE /\ cause = None /\ open = TRUE
  /\ rdl = NoDl /\ tail = <<>> /\ inq = <<>>
  /\ peer = [in |-> FALSE, got |-> FALSE, owes |-> FALSE, gone |-> FALSE]
  /\ undelivered = 0 /\ quiet = 0 /\ unsent = Packets /\ torn = FALSE
  /\ msg = [in |-> FALSE, got |-> FALSE, left |-> 0, fin |-> FALSE,
            next |-> "frame"]
  /\ pc = [g \in Threads |-> IF g = Loop THEN "arm" ELSE "idle"]
  /\ d = [g \in Threads |-> 0] /\ n = [g \in Threads |-> 0]
  /\ frm = [g \in Threads |-> "pong"] /\ why = [g \in Threads |-> None]

(* What the loop does when something is there to be read.                  *)
LoopRead ==
  \/ \E len \in {0, 1}, fin \in BOOLEAN : DataHeader(len, fin)
  \/ DataByte
  \/ ControlFrame("ping", "pong") \/ ControlFrame("close", "bye")
  \/ \E kind \in {"eof", "bad"} : StreamEnd(kind)

(* What a goroutine does without the peer's help.                          *)
LoopStep == \/ ArmLoad \/ ArmSet \/ LoopRead \/ PipeTaken \/ PipeClosed
            \/ FragmentEmpty \/ TryLock \/ ReadFail

Step(g) == \/ SendLock(g) \/ WriteDone(g) \/ SetRead(g)
           \/ CloseOnce(g) \/ CloseAgain(g) \/ CloseFlag(g) \/ ClosePipe(g)
           \/ CloseConn(g)

PeerStep == \/ \E len \in {0, 1}, fin \in BOOLEAN : PeerHeader(len, fin)
            \/ PeerByte
            \/ \E kind \in {"ping", "close", "eof", "bad"} : PeerControl(kind)

Next ==
  \/ LoopStep
  \/ RecvCall \/ RecvByte \/ RecvErr
  \/ \E g \in Threads :
       \/ \E p \in Packets : SendCall(g, p)
       \/ WriteSome(g) \/ WriteFail(g)
       \/ \E v \in Durations : SetTimeOut(g, v)
       \/ CloseCall(g)
       \/ Step(g)
  \/ PeerStep
  \/ Tick

Spec == Init /\ [][Next]_vars

(* Goroutines that can run do; a write on a closed connection fails, and   *)
(* so does one whose deadline passes (a reply always has one); a Recv in   *)
(* progress goes on.  The peer owes nothing, and the application need not  *)
(* call Recv again.                                                        *)
FairSpec ==
  /\ Spec
  /\ WF_vars(LoopStep)
  /\ WF_vars(RecvByte \/ RecvErr)
  /\ \A g \in Threads :
       WF_vars(Step(g) \/ ((~open \/ d[g] > 0 \/ g = Loop) /\ WriteFail(g)))

-----------------------------------------------------------------------------
Labels == {"idle", "recv", "lock", "write", "setread", "arm", "armset",
           "frame", "body", "pipe", "try", "close", "flag", "pipeclose",
           "shut", "done"}
Ticks  == UNION {0..v : v \in Durations \cup {0}}
Items  == {"data"} \X {0, 1} \X BOOLEAN
          \cup {<<k>> : k \in {"byte", "ping", "close", "eof", "bad"}}
Causes == {None, "EOF", "read", "timeout", "write", "closed", "self"}

SocketTypeOK ==
  /\ closed \in BOOLEAN /\ once \in {"unused", "running", "done"}
  /\ timeout \in Durations /\ wmu \in Threads \cup {None}
  /\ cause \in Causes /\ open \in BOOLEAN /\ rdl \in Ticks \cup {NoDl}
  /\ tail = <<>> \/ tail \in Frames \X (1..2)
  /\ unsent \subseteq Packets /\ torn \in BOOLEAN

ReadTypeOK ==
  /\ pend \in BOOLEAN /\ quiet \in 0..MaxQuiet
  /\ inq \in Seq(Items) /\ Len(inq) <= MaxIn
  /\ undelivered \in 0..(MaxIn + 1)
  /\ peer \in [in : BOOLEAN, got : BOOLEAN, owes : BOOLEAN, gone : BOOLEAN]
  /\ msg \in [in : BOOLEAN, got : BOOLEAN, left : {0, 1}, fin : BOOLEAN,
              next : {"frame", "body"}]

ThreadTypeOK ==
  /\ pc \in [Threads -> Labels] /\ d \in [Threads -> Ticks]
  /\ n \in [Threads -> 0..2] /\ frm \in [Threads -> Frames]
  /\ why \in [Threads -> Causes]

TypeOK == SocketTypeOK /\ ReadTypeOK /\ ThreadTypeOK

(* Frames of concurrent Sends and of the loop's replies never interleave,  *)
(* and nothing follows a frame that was cut short: Send's promise          *)
(* (src/socket.go:16-18; src/transports/ws/socket.go:31-32 and 285-287).   *)
Framing == PW!Spec

(* As long as no write has failed halfway, frames never interleave.        *)
FramingUntilTorn == [][~torn => PW!Next \/ UNCHANGED tail]_vars

(* Recv reports io.EOF only after every byte the peer sent before it ended *)
(* the stream was read: closing the pipe never throws data away.           *)
EofAfterAllData == cause = "EOF" => undelivered = 0

(* Recv reports why the session ended, the peer's close, an error of the   *)
(* connection or a local Close, and never an error that the socket's own   *)
(* closing of the connection caused in a Send or in the read loop, however *)
(* these race (src/transports/ws/socket.go:259-261 and 319-321).           *)
CauseIsOriginal == cause # "self"

(* The idle deadline ends a connection on which no data byte arrives.  It  *)
(* is renewed once by the header of a message and once by the empty last   *)
(* fragment of one, never by pings and other empty fragments, and a reply  *)
(* the peer does not take can outlast it by one timeout                    *)
(* (src/transports/ws/socket.go:72-79).                                    *)
IdleBounded == timeout > 0 => quiet < 4 * timeout

(* A connection is ended for idleness only when the peer was silent for a  *)
(* whole timeout: time the application takes to read is not charged to the *)
(* peer (src/transports/ws/socket.go:77-79 and 116-120).                   *)
BackpressureNotCharged ==
  [][why[Loop] = None /\ why'[Loop] = "timeout" => quiet >= timeout]_vars

(* Closing the socket, for whatever cause, ends the read loop and makes    *)
(* every call in progress return: a blocked Send without deadline, and a   *)
(* loop that waits for an application that has stopped reading             *)
(* (src/transports/ws/socket.go:315-327).                                  *)
CloseReleasesAll ==
  /\ closed ~> (pc[Loop] = "done")
  /\ \A g \in Threads \ {Loop} :
       (pc[g] # "idle" /\ (closed \/ pc[g] = "close")) ~> (pc[g] = "idle")

(* A peer that ends the stream gets the socket closed even while a Send is *)
(* blocked on it without a deadline, holding wmu: the loop never waits for *)
(* wmu (src/transports/ws/socket.go:176-180), and for nobody else but an   *)
(* application that leaves a byte in the pipe and does not call Recv.      *)
PeerEndClosesSocket ==
  peer.gone ~> (closed \/ (pc[Loop] = "pipe" /\ pend /\ pc[Reader] # "recv"))
=============================================================================
