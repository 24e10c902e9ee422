-------------------------- MODULE MCGroupMulticast --------------------------
(* GroupMulticast for TLC: c1 has two streams, one of them not yet open. *)
EXTENDS GroupMulticast

CONSTANTS q1, q2, c1, c2, s1, s2, s3

MCOwner == [c \in Conn |-> IF c = c2 /\ q2 \in Peer THEN q2 ELSE q1]
MCOn == [s \in Stream |-> IF s = s3 THEN c2 ELSE c1]
=============================================================================
