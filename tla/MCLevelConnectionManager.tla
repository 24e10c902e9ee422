---------------------- MODULE MCLevelConnectionManager ----------------------
(* LevelConnectionManager for TLC: three peers, with up to three          *)
(* connections each, and room for two peers.                               *)
EXTENDS LevelConnectionManager

CONSTANTS p1, p2, p3, a1, a2, a3, b1, b2, c1

MCOwner == [c \in Conn |-> IF c \in {a1, a2, a3} THEN p1 ELSE IF c \in {b1, b2} THEN p2 ELSE p3]
=============================================================================
