--------------------------- MODULE MCProtocolPush ---------------------------
(* ProtocolPush for TLC. *)
EXTENDS ProtocolPush

CONSTANTS A, B, x, y, Again
=============================================================================
