----------------------------- MODULE MCWsSocket -----------------------------
(* Small instances of WsSocket for TLC.                                    *)
EXTENDS WsSocket

CONSTANTS s1, s2, r, l, c, p1, p2, p3
=============================================================================
