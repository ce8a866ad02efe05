------------------------- MODULE MCVerificationUIDs -------------------------
(* VerificationUIDs on small sets of users and requests, for TLC. *)
EXTENDS VerificationUIDs, TLC

\* Requests are interchangeable; users are not, as only some of them are calm.
Symmetry == Permutations(Request)
=============================================================================
