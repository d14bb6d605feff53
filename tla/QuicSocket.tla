----------------------------- MODULE QuicSocket -----------------------------
(***************************************************************************)
(* One quicSocket (src/transports/quic/socket.go) and the goroutines that  *)
(* call it.  As in TcpSocket a step is what the code does between two      *)
(* points of interference.                                                 *)
(*                                                                         *)
(* The stream and its connection (quic-go, external) keep what was         *)
(* accepted from Write apart from what has reached the peer.  Close is not *)
(* under wmu: it finishes the write side, which lets a Write in progress   *)
(* go on but refuses the next one, cancels the read side, and leaves the   *)
(* connection to a goroutine that ends it after a grace period.  Setting a *)
(* deadline on a stream never fails.                                       *)
(***************************************************************************)
EXTENDS Naturals, Sequences

CONSTANTS
  Senders, Setters, Closers,  \* goroutines that call Send, SetTimeOut, Close
  Reader,                     \* the one goroutine that may call Recv
  Packets, Size,              \* what is sent; Size[p] = 0: nil or no bytes
  Durations,                  \* arguments of SetTimeOut, 0 disables
  None

Threads == Senders \cup Setters \cup Closers \cup {Reader}

ASSUME ConstantsType ==
  /\ Packets # {} /\ Size \in [Packets -> Nat]
  /\ Durations \subseteq Nat
  /\ None \notin Threads \cup Packets \cup {"EOF", "own", "other"}

VARIABLES
  closed, once, timeout, wmu,  \* fields of quicSocket, as in TcpSocket
  rdl, wdl,    \* the stream's read and write deadline
  fin,         \* stream.Close was called
  cancelled,   \* CancelRead was called
  conn,        \* "up", "reset": the peer no longer reads, "lost" to the
               \* peer or to idleness, "ended" by CloseWithError
  wire,        \* what the stream accepted
  delivered,   \* how much of wire has reached the peer
  grace,       \* Close's goroutine: "none", "waiting", "fired", "done"
  atClose,     \* history: how much was accepted when Close was called
  late,        \* history: the timer fired before the peer had all of that
  unsent,      \* packets nobody has handed to Send yet
  panicked,    \* history: a marshaler panicked between two writes
  err,         \* the error the callback of a Recv has returned, or None
  pc, d, n, pkt   \* per goroutine: control, loaded duration, bytes, packet

shut  == <<closed, once, fin, cancelled, grace, atClose, late>>
lines == <<rdl, wdl>>
net   == <<conn, wire, delivered>>
sends == <<unsent, panicked, n, pkt>>
vars  == <<shut, timeout, wmu, lines, net, sends, err, pc, d>>

(* The last byte the stream accepted.                                      *)
LastByte == IF wire = <<>> THEN <<>> ELSE wire[Len(wire)]

PW == INSTANCE PacketWire WITH tail <- LastByte

Goto(g, l) == pc' = [pc EXCEPT ![g] = l]

(* Return from whatever g is in, with the deferred wmu.Unlock of a Send;   *)
(* the call's locals are gone.                                             *)
Return(g) == /\ Goto(g, "idle")
             /\ wmu' = IF wmu = g THEN None ELSE wmu
             /\ n' = [n EXCEPT ![g] = 0] /\ pkt' = [pkt EXCEPT ![g] = None]

-----------------------------------------------------------------------------
(* Recv *)

RecvCall(g) ==            \* once closed, Recv returns at once; timeout.Load
  /\ g = Reader /\ pc[g] = "idle"
  /\ ~closed
  /\ d' = [d EXCEPT ![g] = timeout]
  /\ Goto(g, "rarm")
  /\ UNCHANGED <<shut, timeout, wmu, lines, net, sends, err>>

RecvArm(g) ==
  /\ pc[g] = "rarm"
  /\ rdl' = d[g] /\ d' = [d EXCEPT ![g] = 0]
  /\ Goto(g, "read")
  /\ UNCHANGED <<shut, timeout, wmu, wdl, net, sends, err>>

Alive    == conn \in {"up", "reset"}
Readable == Alive /\ ~cancelled
Writable == conn = "up"

RecvData(g) ==            \* the callback decodes a packet, or panics on it
  /\ pc[g] = "read" /\ Readable
  /\ Goto(g, "idle")
  /\ UNCHANGED <<shut, timeout, wmu, lines, net, sends, err, d>>

(* How the callback fails: the peer's FIN, an error that our own Close     *)
(* provoked, or another: bytes it refuses, the deadline, the loss of the   *)
(* connection.                                                             *)
ReadFails(e) ==
  \/ e = "EOF" /\ Readable
  \/ e = "own" /\ (cancelled \/ conn = "ended")
  \/ e = "other" /\ (Readable \/ rdl > 0 \/ conn = "lost")

RecvFail(g, e) ==
  /\ pc[g] = "read" /\ ReadFails(e)
  /\ err' = e
  /\ Goto(g, "map")
  /\ UNCHANGED <<shut, timeout, wmu, lines, net, sends, d>>

(* What Recv returns for it.                                               *)
RecvError == IF err # "EOF" /\ closed THEN "closed" ELSE err

RecvReturn(g) ==
  /\ pc[g] = "map"
  /\ err' = None
  /\ Goto(g, "idle")
  /\ UNCHANGED <<shut, timeout, wmu, lines, net, sends, d>>

-----------------------------------------------------------------------------
(* Send: xtransport.Write makes one or more calls of stream.Write *)

SendCall(g, p) ==
  /\ g \in Senders /\ pc[g] = "idle" /\ p \in unsent
  /\ unsent' = unsent \ {p}
  /\ IF closed THEN UNCHANGED <<pc, pkt>>
               ELSE Goto(g, "lock") /\ pkt' = [pkt EXCEPT ![g] = p]
  /\ UNCHANGED <<shut, timeout, wmu, lines, net, panicked, n, err, d>>

SendLock(g) ==
  /\ pc[g] = "lock" /\ wmu = None
  /\ wmu' = g
  /\ d' = [d EXCEPT ![g] = timeout]
  /\ Goto(g, "arm")
  /\ UNCHANGED <<shut, timeout, lines, net, sends, err>>

SendArm(g) ==
  /\ pc[g] = "arm"
  /\ wdl' = d[g] /\ d' = [d EXCEPT ![g] = 0]
  /\ Goto(g, "write")
  /\ UNCHANGED <<shut, timeout, wmu, rdl, net, sends, err>>

WriteBegin(g) ==          \* the marshaler calls Write on an unfinished stream
  /\ pc[g] = "write" /\ n[g] < Size[pkt[g]]
  /\ Writable /\ ~fin
  /\ Goto(g, "writing")
  /\ UNCHANGED <<shut, timeout, wmu, lines, net, sends, err, d>>

(* The stream accepts a byte, whether or not Close has been called since   *)
(* the Write began; the byte may be the last of this Write.                *)
WriteSome(g) ==
  /\ pc[g] = "writing" /\ Writable
  /\ n' = [n EXCEPT ![g] = @ + 1]
  /\ wire' = Append(wire, <<pkt[g], n[g] + 1>>)
  /\ \/ Goto(g, "write")
     \/ n[g] + 1 < Size[pkt[g]] /\ UNCHANGED pc
  /\ UNCHANGED <<shut, timeout, wmu, lines, conn, delivered, unsent,
                 panicked, pkt, err, d>>

WriteDone(g) ==
  /\ pc[g] = "write" /\ n[g] = Size[pkt[g]]
  /\ Return(g)
  /\ UNCHANGED <<shut, timeout, lines, net, unsent, panicked, err, d>>

(* A Write in progress fails at its deadline, when the peer stops reading  *)
(* or the connection ends; between Writes the marshaler may fail as well.  *)
WriteFails(g) == \/ pc[g] = "writing" /\ (~Writable \/ wdl > 0)
                 \/ pc[g] = "write" /\ (n[g] < Size[pkt[g]] \/ n[g] = 0)

(* Mutant: a Send that failed halfway just returns its error.              *)
WriteFailNoClose(g) ==
  /\ WriteFails(g)
  /\ Return(g)
  /\ UNCHANGED <<shut, timeout, lines, net, unsent, panicked, err, d>>

(* After the first byte Send calls Close, still holding wmu.               *)
WriteFail(g) ==
  /\ WriteFails(g)
  /\ IF n[g] > 0 THEN Goto(g, "close") /\ UNCHANGED <<wmu, n, pkt>>
                 ELSE Return(g)
  /\ UNCHANGED <<shut, timeout, lines, net, unsent, panicked, err, d>>

WritePanic(g) ==          \* Send recovers and returns
  /\ pc[g] = "write" /\ n[g] < Size[pkt[g]]
  /\ panicked' = (panicked \/ n[g] > 0)
  /\ Return(g)
  /\ UNCHANGED <<shut, timeout, lines, net, unsent, err, d>>

-----------------------------------------------------------------------------
(* SetTimeOut: the store, then the two deadlines *)

(* Mutant: the duration is stored in another unit than it is read in.      *)
SetTimeOutUnits(g, v) ==
  /\ g \in Setters /\ pc[g] = "idle"
  /\ timeout' = 1000 * v
  /\ d' = [d EXCEPT ![g] = v]
  /\ Goto(g, "setread")
  /\ UNCHANGED <<shut, wmu, lines, net, sends, err>>

SetTimeOut(g, v) ==
  /\ g \in Setters /\ pc[g] = "idle"
  /\ timeout' = v
  /\ d' = [d EXCEPT ![g] = v]
  /\ Goto(g, "setread")
  /\ UNCHANGED <<shut, wmu, lines, net, sends, err>>

SetRead(g) ==
  /\ pc[g] = "setread"
  /\ rdl' = d[g]
  /\ Goto(g, "setwrite")
  /\ UNCHANGED <<shut, timeout, wmu, wdl, net, sends, err, d>>

SetWrite(g) ==
  /\ pc[g] = "setwrite"
  /\ wdl' = d[g] /\ d' = [d EXCEPT ![g] = 0]
  /\ Goto(g, "idle")
  /\ UNCHANGED <<shut, timeout, wmu, rdl, net, sends, err>>

-----------------------------------------------------------------------------
(* Close *)

CloseCall(g) ==
  /\ g \in Closers /\ pc[g] = "idle"
  /\ Goto(g, "close")
  /\ UNCHANGED <<shut, timeout, wmu, lines, net, sends, err, d>>

(* Mutant: the flag is stored after the stream is closed and cancelled.    *)
FlagLast == [close |-> "fin", fin |-> "cancel", cancel |-> "flag",
             flag |-> "spawn"]

(* The order of the steps inside closeOnce.                                *)
CloseOrder == [close |-> "flag", flag |-> "fin", fin |-> "cancel",
               cancel |-> "spawn"]

CloseOnce(g) ==
  /\ pc[g] = "close" /\ once = "unused"
  /\ once' = "running"
  /\ Goto(g, CloseOrder["close"])
  /\ UNCHANGED <<closed, fin, cancelled, grace, atClose, late, timeout, wmu,
                 lines, net, sends, err, d>>

CloseAgain(g) ==          \* sync.Once makes every caller wait for the first
  /\ pc[g] = "close" /\ once = "done"
  /\ Return(g)
  /\ UNCHANGED <<shut, timeout, lines, net, unsent, panicked, err, d>>

CloseFlag(g) ==
  /\ pc[g] = "flag"
  /\ closed' = TRUE
  /\ Goto(g, CloseOrder["flag"])
  /\ UNCHANGED <<once, fin, cancelled, grace, atClose, late, timeout, wmu,
                 lines, net, sends, err, d>>

CloseStream(g) ==         \* the FIN is queued behind what was accepted
  /\ pc[g] = "fin"
  /\ fin' = TRUE /\ atClose' = Len(wire)
  /\ Goto(g, CloseOrder["fin"])
  /\ UNCHANGED <<closed, once, cancelled, grace, late, timeout, wmu, lines,
                 net, sends, err, d>>

(* Mutant: a blocked Recv is left to the end of the connection.            *)
CloseNoCancel(g) ==
  /\ pc[g] = "cancel"
  /\ Goto(g, CloseOrder["cancel"])
  /\ UNCHANGED <<shut, timeout, wmu, lines, net, sends, err, d>>

CloseCancel(g) ==
  /\ pc[g] = "cancel"
  /\ cancelled' = TRUE
  /\ Goto(g, CloseOrder["cancel"])
  /\ UNCHANGED <<closed, once, fin, grace, atClose, late, timeout, wmu, lines,
                 net, sends, err, d>>

(* Mutant: the connection is left to quic-go's idle timeout.               *)
CloseNoSpawn(g) ==
  /\ pc[g] = "spawn"
  /\ once' = "done"
  /\ Return(g)
  /\ UNCHANGED <<closed, fin, cancelled, grace, atClose, late, timeout, lines,
                 net, unsent, panicked, err, d>>

CloseSpawn(g) ==
  /\ pc[g] = "spawn"
  /\ grace' = "waiting" /\ once' = "done"
  /\ Return(g)
  /\ UNCHANGED <<closed, fin, cancelled, atClose, late, timeout, lines, net,
                 unsent, panicked, err, d>>

GraceFire ==              \* closeGracePeriod is over
  /\ grace = "waiting"
  /\ grace' = "fired"
  /\ late' = (delivered < atClose)
  /\ UNCHANGED <<closed, once, fin, cancelled, atClose, timeout, wmu, lines,
                 net, sends, err, pc, d>>

(* Mutant: CloseWithError at once.                                         *)
TearDownNow ==
  /\ grace \in {"waiting", "fired"}
  /\ grace' = "done"
  /\ conn' = IF Alive THEN "ended" ELSE conn
  /\ UNCHANGED <<closed, once, fin, cancelled, atClose, late, timeout, wmu,
                 lines, wire, delivered, sends, err, pc, d>>

(* CloseWithError, after the timer or the end of the connection: whatever  *)
(* has not reached the peer is discarded.                                  *)
TearDown ==
  /\ grace = "fired" \/ (grace = "waiting" /\ ~Alive)
  /\ grace' = "done"
  /\ conn' = IF Alive THEN "ended" ELSE conn
  /\ UNCHANGED <<closed, once, fin, cancelled, atClose, late, timeout, wmu,
                 lines, wire, delivered, sends, err, pc, d>>

-----------------------------------------------------------------------------
(* The network and the peer (external) *)

Deliver ==
  /\ Writable /\ delivered < Len(wire)
  /\ delivered' = delivered + 1
  /\ UNCHANGED <<shut, timeout, wmu, lines, conn, wire, sends, err, pc, d>>

PeerReset ==              \* the peer's CancelRead resets the stream
  /\ Writable
  /\ conn' = "reset"
  /\ UNCHANGED <<shut, timeout, wmu, lines, wire, delivered, sends, err, pc, d>>

ConnLost ==               \* the peer closes it, or it has been idle too long
  /\ Alive
  /\ conn' = "lost"
  /\ UNCHANGED <<shut, timeout, wmu, lines, wire, delivered, sends, err, pc, d>>

-----------------------------------------------------------------------------
Init ==                   \* newSocket
  /\ closed = FALSE /\ once = "unused" /\ timeout \in Durations
  /\ wmu = None /\ rdl = 0 /\ wdl = 0
  /\ fin = FALSE /\ cancelled = FALSE /\ conn = "up"
  /\ wire = <<>> /\ delivered = 0
  /\ grace = "none" /\ atClose = 0 /\ late = FALSE
  /\ unsent = Packets /\ panicked = FALSE /\ err = None
  /\ pc = [g \in Threads |-> "idle"]
  /\ d = [g \in Threads |-> 0]
  /\ n = [g \in Threads |-> 0]
  /\ pkt = [g \in Threads |-> None]

(* What a goroutine does without the peer's help: its own steps, and the   *)
(* failures quic-go delivers on a cancelled, expired or ended stream.      *)
Step(g) ==
  \/ RecvArm(g) \/ RecvReturn(g)
  \/ RecvFail(g, "own")
  \/ (rdl > 0 \/ conn = "lost") /\ RecvFail(g, "other")
  \/ SendLock(g) \/ SendArm(g) \/ WriteBegin(g) \/ WriteDone(g)
  \/ WriteFail(g)
  \/ SetRead(g) \/ SetWrite(g)
  \/ CloseOnce(g) \/ CloseAgain(g) \/ CloseFlag(g) \/ CloseStream(g)
  \/ CloseCancel(g) \/ CloseSpawn(g)

Next ==
  \/ \E g \in Threads :
       \/ RecvCall(g) \/ RecvData(g)
       \/ \E e \in {"EOF", "other"} : RecvFail(g, e)
       \/ \E p \in Packets : SendCall(g, p)
       \/ WriteSome(g) \/ WritePanic(g)
       \/ \E v \in Durations : SetTimeOut(g, v)
       \/ CloseCall(g)
       \/ Step(g)
  \/ GraceFire \/ TearDown
  \/ Deliver \/ PeerReset \/ ConnLost

Spec == Init /\ [][Next]_vars

(* The Go scheduler runs every goroutine that can run and deadlines fire.  *)
(* Neither the peer nor the network owes anything, nor need the grace      *)
(* timer fire.                                                             *)
FairSpec == Spec /\ WF_vars(TearDown) /\ \A g \in Threads : WF_vars(Step(g))

-----------------------------------------------------------------------------
Labels == {"idle", "rarm", "read", "map", "lock", "arm", "write", "writing",
           "setread", "setwrite", "close", "flag", "fin", "cancel", "spawn"}

TypeOK ==
  /\ closed \in BOOLEAN /\ once \in {"unused", "running", "done"}
  /\ timeout \in Durations /\ wmu \in Threads \cup {None}
  /\ rdl \in Durations \cup {0} /\ wdl \in Durations \cup {0}
  /\ fin \in BOOLEAN /\ cancelled \in BOOLEAN
  /\ conn \in {"up", "reset", "lost", "ended"}
  /\ wire \in Seq(Packets \X Nat) /\ delivered \in 0..Len(wire)
  /\ grace \in {"none", "waiting", "fired", "done"}
  /\ atClose \in 0..Len(wire) /\ late \in BOOLEAN
  /\ unsent \subseteq Packets /\ panicked \in BOOLEAN /\ err \in {None, "EOF", "own", "other"}
  /\ pc \in [Threads -> Labels]
  /\ d \in [Threads -> Durations \cup {0}]
  /\ n \in [Threads -> Nat] /\ pkt \in [Threads -> Packets \cup {None}]

(* Send's promise (src/socket.go:16-18), although Close runs concurrently  *)
(* with Write: bytes of concurrent Sends never interleave, a packet that a *)
(* failure or the Close cuts short is the last thing on the stream.  Only  *)
(* a marshaler that panics between two writes escapes.                     *)
Framing == [][~panicked => PW!Next \/ UNCHANGED LastByte]_vars

(* "data already accepted by Send can still reach the peer"                *)
(* (src/transports/quic/socket.go:129-130): ending the connection discards *)
(* nothing that was accepted before Close, unless the network has not got  *)
(* it through, or the peer taken it, within the whole grace period.        *)
GraceDrains == conn = "ended" /\ ~late => delivered >= atClose

(* Recv never shows the StreamError of the socket's own CancelRead, nor    *)
(* that of its own CloseWithError, however Close and Recv interleave: they *)
(* are net.ErrClosed (src/transports/quic/socket.go:77-81).                *)
OwnErrorHidden == RecvError # "own"

(* Close releases a blocked Recv by itself, also when the grace timer does *)
(* not fire: "promptly (not after the grace period or idle timeout)"       *)
(* (src/transports/quic/close_test.go:76-77).                              *)
CloseUnblocksRecv ==
  (closed /\ pc[Reader] \in {"rarm", "read"}) ~> (pc[Reader] = "idle")

(* A closed socket starts its grace timer, and once the timer fires        *)
(* nothing of it is left: its connection is down, and a Send that was      *)
(* blocked in a Write without a deadline has returned, with all the Sends  *)
(* behind it.                                                              *)
CloseReleasesAll ==
  /\ closed ~> grace # "none"
  /\ (grace \in {"fired", "done"}) ~>
       (~Alive /\ \A g \in Senders : pc[g] = "idle")
=============================================================================
