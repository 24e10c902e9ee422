----------------------- MODULE MCReceiveStreamManager -----------------------
(* ReceiveStreamManager for TLC: a peer with two connections, of two and   *)
(* one streams, and a second peer with one.                                *)
EXTENDS ReceiveStreamManager

CONSTANTS p1, p2, c1, c2, c3, s1, s2, s3, s4

MCOwner == [c \in Conn |-> IF c = c3 THEN p2 ELSE p1]
MCConnOf == [s \in Stream |-> IF s \in {s1, s2} THEN c1 ELSE IF s = s3 THEN c2 ELSE c3]
\* no limit, and a limit that is reached
MCMaxCounts == {-1, 2}
=============================================================================
