--------------------------- MODULE MCIdempotency ----------------------------
(* A request of a client whose clock is ahead, by no more than is tolerated.  *)
EXTENDS Idempotency

CONSTANTS c1, k1

MCKeyOf == [c \in Command |-> k1]
MCLead == [c \in Command |-> Tolerance]
=============================================================================
