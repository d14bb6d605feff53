---------------------------- MODULE MCTcpSocket -----------------------------
(* Small instances of TcpSocket for TLC.                                   *)
EXTENDS TcpSocket, TLC

CONSTANTS s1, s2, r, c, p0, p1, p2, p3

\* p0 stands for a nil value, p1 for a packet no write can cut.
MCSizes == (p0 :> 0) @@ (p1 :> 1) @@ (p2 :> 2) @@ (p3 :> 3)
MCSize  == [p \in Packets |-> MCSizes[p]]
=============================================================================
