---------------------------- MODULE MCTcpNetwork ----------------------------
(* TcpNetwork for TLC. *)
EXTENDS TcpNetwork

CONSTANTS d1, d2, w1
=============================================================================
