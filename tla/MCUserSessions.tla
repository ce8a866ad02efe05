--------------------------- MODULE MCUserSessions ---------------------------
(* UserSessions on small sets of users and requests, for TLC. *)
EXTENDS UserSessions, TLC

\* Requests are interchangeable.
Symmetry == Permutations(Request)
=============================================================================
