----------------------------- MODULE PacketWire -----------------------------
(***************************************************************************)
(* What a transport promises of Socket.Send (src/socket.go:15-19): "each   *)
(* packet is written atomically, so packets from concurrent Sends never    *)
(* interleave on the wire".  The wire is a sequence of units, each the     *)
(* i-th unit of one packet; its last unit decides what may come next.  A   *)
(* packet may be cut short, but then nothing ever follows it.              *)
(***************************************************************************)
EXTENDS Naturals

CONSTANTS Packets,   \* the packets, or frames, that are written
          Size       \* Size[p]: how many units packet p has

VARIABLE tail        \* the last unit on the wire: <<packet, index>>, or <<>>

AtBoundary(t) == t = <<>> \/ t[2] = Size[t[1]]

(* A unit continues the packet the wire stops in, or starts a packet when  *)
(* the wire stops at the end of one.                                       *)
MayFollow(t, p, i) == IF AtBoundary(t) THEN i = 1 ELSE t = <<p, i - 1>>

Init == tail = <<>>

Put(p, i) == /\ MayFollow(tail, p, i)
             /\ tail' = <<p, i>>

Next == \E p \in Packets : \E i \in 1..Size[p] : Put(p, i)

Spec == Init /\ [][Next]_tail
=============================================================================
