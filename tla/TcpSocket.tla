----------------------------- MODULE TcpSocket ------------------------------
(***************************************************************************)
(* One tcpSocket (src/transports/tcp/socket.go) and the goroutines that    *)
(* call it.  A goroutine is a thread with a program counter; it is "idle"  *)
(* between calls.  Each step is what the code does between two points      *)
(* where another goroutine can interfere: an atomic, a lock, a sync.Once   *)
(* or a call on the connection.                                            *)
(*                                                                         *)
(* The connection (net.Conn or tls.Conn, external) is its wire, whether it *)
(* is open, its two deadlines and the state of its TLS handshake.  A       *)
(* deadline is the interval it was armed with, 0 for none: when it expires *)
(* is left to chance.                                                      *)
(***************************************************************************)
EXTENDS Naturals, Sequences

CONSTANTS
  Senders, Setters, Closers,  \* goroutines that call Send, SetTimeOut, Close
  Reader,                     \* the one goroutine that may call Recv
  Packets, Size,              \* what is sent; Size[p] = 0: nil or no bytes
  Durations,                  \* arguments of SetTimeOut, 0 disables
  Tls,                        \* is the connection a *tls.Conn
  MarshalerPanics,            \* may an io.WriterTo panic between two writes
  None

Threads == Senders \cup Setters \cup Closers \cup {Reader}

ASSUME ConstantsType ==
  /\ Packets # {} /\ Size \in [Packets -> Nat]
  /\ Durations \subseteq Nat
  /\ Tls \in BOOLEAN /\ MarshalerPanics \in BOOLEAN
  /\ None \notin Threads

VARIABLES
  closed,    \* tcpSocket.closed
  once,      \* closeOnce: "unused", "running", "done"
  timeout,   \* tcpSocket.timeout
  wmu,       \* the goroutine that holds tcpSocket.wmu, or None
  open,      \* conn.Close has not been called
  rdl, wdl,  \* the connection's read and write deadline
  hs,        \* TLS handshake: "pending", "done", "failed"
  broken,    \* a failed TLS write makes every later write fail
  wire,      \* what was written to the connection
  unsent,    \* packets nobody has handed to Send yet
  acked,     \* packets whose Send returned nil
  pc, d, n, pkt   \* per goroutine: control, loaded duration, bytes, packet

conn  == <<open, rdl, wdl, hs, broken, wire>>
sends == <<unsent, acked, n, pkt>>
vars  == <<closed, once, timeout, wmu, conn, sends, pc, d>>

(* The last byte on the wire.                                              *)
LastByte == IF wire = <<>> THEN <<>> ELSE wire[Len(wire)]

PW == INSTANCE PacketWire WITH tail <- LastByte

Goto(g, l) == pc' = [pc EXCEPT ![g] = l]

(* Return from whatever g is in; the deferred wmu.Unlock of a Send.        *)
Return(g) == /\ Goto(g, "idle")
             /\ wmu' = IF wmu = g THEN None ELSE wmu

-----------------------------------------------------------------------------
(* Recv *)

RecvCall(g) ==            \* once closed, Recv returns at once; timeout.Load
  /\ g = Reader /\ pc[g] = "idle"
  /\ ~closed
  /\ Goto(g, "rarm")
  /\ d' = [d EXCEPT ![g] = timeout]
  /\ UNCHANGED <<closed, once, timeout, wmu, conn, sends>>

RecvArm(g) ==             \* SetReadDeadline fails on a closed connection
  /\ pc[g] = "rarm"
  /\ IF open THEN rdl' = d[g] /\ Goto(g, "read")
             ELSE rdl' = rdl  /\ Goto(g, "idle")
  /\ UNCHANGED <<closed, once, timeout, wmu, open, wdl, hs, broken, wire,
                 sends, d>>

(* The callback decodes a packet, or refuses or panics on what it read.    *)
RecvData(g) ==
  /\ pc[g] = "read" /\ hs = "done"
  /\ Goto(g, "idle")
  /\ UNCHANGED <<closed, once, timeout, wmu, conn, sends, d>>

(* The read fails: closed, expired, or the handshake it drives failed.     *)
RecvFail(g) ==
  /\ pc[g] = "read"
  /\ ~open \/ rdl > 0 \/ hs = "failed"
  /\ Goto(g, "idle")
  /\ hs' = IF hs = "pending" THEN "failed" ELSE hs
  /\ UNCHANGED <<closed, once, timeout, wmu, open, rdl, wdl, broken, wire,
                 sends, d>>

-----------------------------------------------------------------------------
(* Send *)

SendCall(g, p) ==
  /\ g \in Senders /\ pc[g] = "idle" /\ p \in unsent
  /\ unsent' = unsent \ {p}
  /\ pkt' = [pkt EXCEPT ![g] = p]
  /\ n' = [n EXCEPT ![g] = 0]
  /\ IF closed THEN UNCHANGED pc ELSE Goto(g, "lock")
  /\ UNCHANGED <<closed, once, timeout, wmu, conn, acked, d>>

SendLock(g) ==            \* wmu.Lock, timeout.Load, is a handshake due
  /\ pc[g] = "lock" /\ wmu = None
  /\ wmu' = g
  /\ d' = [d EXCEPT ![g] = timeout]
  /\ Goto(g, IF hs = "done" THEN "arm" ELSE "shake")
  /\ UNCHANGED <<closed, once, timeout, conn, sends>>

ShakeDone(g) ==
  /\ pc[g] = "shake" /\ hs = "done"
  /\ Goto(g, "arm")
  /\ UNCHANGED <<closed, once, timeout, wmu, conn, sends, d>>

(* Mutant: the handshake runs under context.Background whatever d is.      *)
ShakeFailUnbounded(g) ==
  /\ pc[g] = "shake"
  /\ hs = "failed" \/ (hs = "pending" /\ ~open)
  /\ hs' = "failed"
  /\ Return(g)
  /\ UNCHANGED <<closed, once, timeout, open, rdl, wdl, broken, wire, sends,
                 d>>

(* HandshakeContext fails.  When its context expires it closes the         *)
(* connection under the tls.Conn, and the socket is not told.              *)
ShakeFail(g) ==
  /\ pc[g] = "shake"
  /\ \/ hs = "failed" /\ UNCHANGED open
     \/ hs = "pending" /\ ~open /\ UNCHANGED open
     \/ hs = "pending" /\ d[g] > 0 /\ open' = FALSE
  /\ hs' = "failed"
  /\ Return(g)
  /\ UNCHANGED <<closed, once, timeout, rdl, wdl, broken, wire, sends, d>>

(* The peer completes, or ruins, the handshake a Send or the Recv drives.  *)
PeerShake ==
  /\ hs = "pending" /\ open
  /\ \E g \in Threads : pc[g] \in {"shake", "read"}
  /\ hs' \in {"done", "failed"}
  /\ UNCHANGED <<closed, once, timeout, wmu, open, rdl, wdl, broken, wire,
                 sends, pc, d>>

SendArm(g) ==             \* SetWriteDeadline fails on a closed connection
  /\ pc[g] = "arm"
  /\ IF open THEN wdl' = d[g] /\ Goto(g, "write") /\ UNCHANGED wmu
             ELSE wdl' = wdl  /\ Return(g)
  /\ UNCHANGED <<closed, once, timeout, open, rdl, hs, broken, wire, sends,
                 d>>

WriteSome(g) ==           \* the connection takes the next byte
  /\ pc[g] = "write" /\ n[g] < Size[pkt[g]]
  /\ open /\ ~broken
  /\ n' = [n EXCEPT ![g] = @ + 1]
  /\ wire' = Append(wire, <<pkt[g], n[g] + 1>>)
  /\ UNCHANGED <<closed, once, timeout, wmu, open, rdl, wdl, hs, broken,
                 unsent, acked, pkt, pc, d>>

(* Mutant: a short write without an error counts as success.               *)
WriteDoneShort(g) ==
  /\ pc[g] = "write" /\ n[g] > 0
  /\ acked' = acked \cup {pkt[g]}
  /\ Return(g)
  /\ UNCHANGED <<closed, once, timeout, conn, unsent, n, pkt, d>>

WriteDone(g) ==
  /\ pc[g] = "write" /\ n[g] = Size[pkt[g]]
  /\ acked' = acked \cup {pkt[g]}
  /\ Return(g)
  /\ UNCHANGED <<closed, once, timeout, conn, unsent, n, pkt, d>>

(* Mutant: a Send that failed halfway just returns its error.              *)
WriteFailNoClose(g) ==
  /\ pc[g] = "write"
  /\ n[g] < Size[pkt[g]] \/ Size[pkt[g]] = 0
  /\ broken' = Tls
  /\ Return(g)
  /\ UNCHANGED <<closed, once, timeout, open, rdl, wdl, hs, wire, sends, d>>

(* The write fails with n[g] bytes written: after the first byte the       *)
(* framing is lost and Send calls Close, still holding wmu.                *)
WriteFail(g) ==
  /\ pc[g] = "write"
  /\ n[g] < Size[pkt[g]] \/ Size[pkt[g]] = 0
  /\ broken' = Tls
  /\ IF n[g] > 0 THEN Goto(g, "close") /\ UNCHANGED wmu ELSE Return(g)
  /\ UNCHANGED <<closed, once, timeout, open, rdl, wdl, hs, wire, sends, d>>

(* The marshaler panics between two writes; Send recovers and returns.     *)
WritePanic(g) ==
  /\ MarshalerPanics
  /\ pc[g] = "write" /\ n[g] < Size[pkt[g]]
  /\ Return(g)
  /\ UNCHANGED <<closed, once, timeout, conn, sends, d>>

-----------------------------------------------------------------------------
(* SetTimeOut: the store, then the two deadlines *)

(* Mutant: the duration is stored in another unit than it is read in.      *)
SetTimeOutUnits(g, v) ==
  /\ g \in Setters /\ pc[g] = "idle"
  /\ timeout' = 1000 * v
  /\ d' = [d EXCEPT ![g] = v]
  /\ Goto(g, "setread")
  /\ UNCHANGED <<closed, once, wmu, conn, sends>>

SetTimeOut(g, v) ==
  /\ g \in Setters /\ pc[g] = "idle"
  /\ timeout' = v
  /\ d' = [d EXCEPT ![g] = v]
  /\ Goto(g, "setread")
  /\ UNCHANGED <<closed, once, wmu, conn, sends>>

SetRead(g) ==
  /\ pc[g] = "setread"
  /\ rdl' = IF open THEN d[g] ELSE rdl
  /\ Goto(g, "setwrite")
  /\ UNCHANGED <<closed, once, timeout, wmu, open, wdl, hs, broken, wire,
                 sends, d>>

SetWrite(g) ==
  /\ pc[g] = "setwrite"
  /\ wdl' = IF open THEN d[g] ELSE wdl
  /\ Goto(g, "idle")
  /\ UNCHANGED <<closed, once, timeout, wmu, open, rdl, hs, broken, wire,
                 sends, d>>

-----------------------------------------------------------------------------
(* Close: sync.Once makes every caller wait for the first *)

CloseCall(g) ==
  /\ g \in Closers /\ pc[g] = "idle"
  /\ Goto(g, "close")
  /\ UNCHANGED <<closed, once, timeout, wmu, conn, sends, d>>

(* Mutant: Close takes wmu, so it waits for the Send it should unblock.    *)
CloseOnceLocked(g) ==
  /\ pc[g] = "close" /\ once = "unused" /\ wmu \in {None, g}
  /\ once' = "running"
  /\ Goto(g, "flag")
  /\ UNCHANGED <<closed, timeout, wmu, conn, sends, d>>

CloseOnce(g) ==
  /\ pc[g] = "close" /\ once = "unused"
  /\ once' = "running"
  /\ Goto(g, "flag")
  /\ UNCHANGED <<closed, timeout, wmu, conn, sends, d>>

(* Mutant: a flag instead of sync.Once; a second Close does not wait.      *)
CloseAgainNoWait(g) ==
  /\ pc[g] = "close" /\ once # "unused"
  /\ Return(g)
  /\ UNCHANGED <<closed, once, timeout, conn, sends, d>>

CloseAgain(g) ==
  /\ pc[g] = "close" /\ once = "done"
  /\ Return(g)
  /\ UNCHANGED <<closed, once, timeout, conn, sends, d>>

CloseFlag(g) ==
  /\ pc[g] = "flag"
  /\ closed' = TRUE
  /\ Goto(g, "shut")
  /\ UNCHANGED <<once, timeout, wmu, conn, sends, d>>

CloseConn(g) ==
  /\ pc[g] = "shut"
  /\ open' = FALSE /\ once' = "done"
  /\ Return(g)
  /\ UNCHANGED <<closed, timeout, rdl, wdl, hs, broken, wire, sends, d>>

-----------------------------------------------------------------------------
Init ==                   \* newSocket
  /\ closed = FALSE /\ once = "unused" /\ timeout \in Durations
  /\ wmu = None /\ open = TRUE /\ rdl = 0 /\ wdl = 0
  /\ hs = (IF Tls THEN "pending" ELSE "done") /\ broken = FALSE
  /\ wire = <<>> /\ unsent = Packets /\ acked = {}
  /\ pc = [g \in Threads |-> "idle"]
  /\ d = [g \in Threads |-> 0]
  /\ n = [g \in Threads |-> 0]
  /\ pkt = [g \in Threads |-> CHOOSE p \in Packets : TRUE]

(* What a goroutine does without the peer's help: its own steps, and the   *)
(* failures the runtime delivers on a closed or expired connection.        *)
Step(g) ==
  \/ RecvArm(g) \/ RecvFail(g)
  \/ SendLock(g) \/ ShakeDone(g) \/ ShakeFail(g) \/ SendArm(g) \/ WriteDone(g)
  \/ (~open \/ wdl > 0 \/ broken) /\ WriteFail(g)
  \/ SetRead(g) \/ SetWrite(g)
  \/ CloseOnce(g) \/ CloseAgain(g) \/ CloseFlag(g) \/ CloseConn(g)

Next ==
  \/ \E g \in Threads :
       \/ RecvCall(g) \/ RecvArm(g) \/ RecvData(g) \/ RecvFail(g)
       \/ \E p \in Packets : SendCall(g, p)
       \/ SendLock(g) \/ ShakeDone(g) \/ ShakeFail(g) \/ SendArm(g)
       \/ WriteSome(g) \/ WriteDone(g) \/ WriteFail(g) \/ WritePanic(g)
       \/ \E v \in Durations : SetTimeOut(g, v)
       \/ SetRead(g) \/ SetWrite(g)
       \/ CloseCall(g) \/ CloseOnce(g) \/ CloseAgain(g)
       \/ CloseFlag(g) \/ CloseConn(g)
  \/ PeerShake

Spec == Init /\ [][Next]_vars

(* The Go scheduler runs every goroutine that can run, sync.Mutex does not *)
(* starve a waiter and the runtime's timers fire.  The peer owes nothing.  *)
FairSpec == Spec /\ \A g \in Threads : WF_vars(Step(g))

-----------------------------------------------------------------------------
Labels == {"idle", "rarm", "read", "lock", "shake", "arm", "write",
           "setread", "setwrite", "close", "flag", "shut"}

TypeOK ==
  /\ closed \in BOOLEAN /\ once \in {"unused", "running", "done"}
  /\ timeout \in Durations /\ wmu \in Threads \cup {None}
  /\ open \in BOOLEAN
  /\ rdl \in Durations \cup {0} /\ wdl \in Durations \cup {0}
  /\ hs \in {"pending", "done", "failed"} /\ broken \in BOOLEAN
  /\ wire \in Seq(Packets \X Nat)
  /\ unsent \subseteq Packets /\ acked \subseteq Packets
  /\ pc \in [Threads -> Labels]
  /\ d \in [Threads -> Durations \cup {0}]
  /\ n \in [Threads -> Nat]
  /\ pkt \in [Threads -> Packets]

(* Send's promise (src/socket.go:16-18): the bytes of concurrent Sends     *)
(* never interleave, and after a packet that was cut short nothing more is *)
(* written, however Sends, failures, Close and SetTimeOut interleave.      *)
Framing == PW!Spec

(* A Send that returned nil wrote all of its packet, in one piece.         *)
AckedWhole ==
  \A p \in acked : \E k \in 0..Len(wire) :
     /\ k + Size[p] <= Len(wire)
     /\ \A i \in 1..Size[p] : wire[k + i] = <<p, i>>

(* What wmu and the program counters guarantee: who may write holds the    *)
(* lock, and the bytes it has written are the last ones on the wire.       *)
Writer(g) ==
  /\ pc[g] \in {"shake", "arm", "write"} => wmu = g
  /\ wmu = g => pc[g] \in {"shake", "arm", "write", "close", "flag", "shut"}
  /\ pc[g] \in {"lock", "shake", "arm"} => n[g] = 0
  /\ pc[g] = "write" =>
       /\ n[g] <= Size[pkt[g]] /\ n[g] <= Len(wire)
       /\ \A i \in 1..n[g] : wire[Len(wire) - n[g] + i] = <<pkt[g], i>>

Writers == \A g \in Threads : Writer(g)

Cut(g) == /\ pc[g] \in {"write", "close", "flag", "shut"}
          /\ 0 < n[g]
          /\ LastByte = <<pkt[g], n[g]>>

(* The strengthening that makes Framing inductive.  Unless the connection  *)
(* is closed, a wire that stops inside a packet belongs to the goroutine   *)
(* that holds wmu: it is still writing that packet, or has failed and is   *)
(* inside Close, which it leaves only when the connection is closed        *)
(* (src/transports/tcp/socket.go:130-135).                                 *)
CutIsOwned ==
  /\ open => PW!AtBoundary(LastByte) \/ (wmu # None /\ Cut(wmu))
  /\ once = "done" => ~open

WriteOwnership == Writers /\ CutIsOwned

(* Between SetTimeOut calls a blocked Recv runs against the interval last  *)
(* set: "It also applies the new value to any Recv or Send already in      *)
(* flight" (src/transports/tcp/socket.go:139-142).                         *)
RecvUsesLastTimeout ==
  (pc[Reader] = "read" /\ open
     /\ \A g \in Threads : pc[g] \notin {"setread", "setwrite"})
  => rdl = timeout

(* Close unblocks everyone: once a Close has begun every call in progress, *)
(* the Close included, returns, also a Send blocked without a deadline and *)
(* the Sends queued behind it on wmu.                                      *)
CloseReleasesAll ==
  \A g \in Threads :
    (pc[g] # "idle" /\ (closed \/ pc[g] = "close")) ~> (pc[g] = "idle")

(* With a timeout in force no silent peer parks a goroutine forever, not   *)
(* even inside the lazy TLS handshake of a Send, nor behind its wmu        *)
(* (src/transports/tcp/socket.go:104-108).                                 *)
TimeoutBoundsCalls ==
  [](timeout > 0) =>
    \A g \in Threads : (pc[g] # "idle") ~> (pc[g] = "idle")
=============================================================================
