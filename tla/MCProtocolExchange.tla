------------------------- MODULE MCProtocolExchange -------------------------
(* ProtocolExchange for TLC: h1 dials c1, h2 dials c2. *)
EXTENDS ProtocolExchange

CONSTANTS h1, h2, c1, c2, c3, p1, p2

MCDialer == [c \in Conn |-> IF c = c2 THEN h2 ELSE h1]
=============================================================================
