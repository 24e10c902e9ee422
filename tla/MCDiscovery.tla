----------------------------- MODULE MCDiscovery ----------------------------
(* Discovery for TLC: q2 knows the others, they know nobody but this host. *)
EXTENDS Discovery

CONSTANTS x, s1, s2, q1, q2, q3, e1

MCOf == [s \in Search |-> x]
MCKnows == [q \in Peer |-> IF q = q2 THEN Peer \ {q2} ELSE {Self}]
=============================================================================
