--------------------------- MODULE MCOAuthIdentity ---------------------------
(* OAuthIdentity on small sets of addresses and requests, for TLC. *)
EXTENDS OAuthIdentity, TLC

\* Requests are interchangeable.
Symmetry == Permutations(Request)
=============================================================================
