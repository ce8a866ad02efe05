--------------------------- MODULE MCRequestFront ---------------------------
(* RequestFront on small sets of clients and requests, for TLC. *)
EXTENDS RequestFront, TLC

OnePoint == [l \in Limiter |-> 1]
=============================================================================
