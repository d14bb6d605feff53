---------------------------- MODULE MCEstablish -----------------------------
(* Small instances of Establish for TLC.                                   *)
EXTENDS Establish, TLC

CONSTANTS a, b

\* a talks around the handshake; b never sends a byte.
MCMaxBytes == (a :> [up |-> 2, down |-> 1]) @@ (b :> [up |-> 0, down |-> 0])
=============================================================================
