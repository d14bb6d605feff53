------------------------------ MODULE MCBroker ------------------------------
(* Small instances of Broker for TLC.                                      *)
EXTENDS Broker, TLC

CONSTANTS a, b, f, g, m0, m1, m2

QosOf == [m \in Msgs |-> CASE m = m0 -> 0 [] m = m1 -> 1 [] m = m2 -> 2]
Perms == Permutations(Conns)
=============================================================================
