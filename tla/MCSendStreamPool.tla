------------------------- MODULE MCSendStreamPool ---------------------------
(* SendStreamPool for TLC: two callers, a pool that may grow from 2 to 3. *)
EXTENDS SendStreamPool
=============================================================================
