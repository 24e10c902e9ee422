------------------------- MODULE MCHostConnections --------------------------
(* HostConnections for TLC: a peer with up to three connections, one after *)
(* the other or together, and a second peer with one.                      *)
EXTENDS HostConnections

CONSTANTS p1, p2, a1, a2, a3, b1

MCOwner == [c \in Conn |-> IF c = b1 THEN p2 ELSE p1]
=============================================================================
