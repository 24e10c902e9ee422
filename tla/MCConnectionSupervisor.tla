---------------------- MODULE MCConnectionSupervisor ------------------------
(* ConnectionSupervisor for TLC: p1 answers at d1, somebody else at d2.    *)
EXTENDS ConnectionSupervisor

CONSTANTS p1, p2, d1, d2

MCAnswers == [d \in Addr |-> IF d = d1 THEN p1 ELSE Stranger]
=============================================================================
