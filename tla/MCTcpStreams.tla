---------------------------- MODULE MCTcpStreams ----------------------------
(* TcpStreams for TLC: both ends open and close streams. *)
EXTENDS TcpStreams

CONSTANTS A, B, s1, s2
=============================================================================
