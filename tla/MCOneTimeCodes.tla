--------------------------- MODULE MCOneTimeCodes ---------------------------
(* OneTimeCodes on small sets of users, requests and codes, for TLC. *)
EXTENDS OneTimeCodes, TLC

\* Requests, codes and phone numbers are interchangeable; users are not, as
\* only some of them are patient.
Symmetry == Permutations(Request) \cup Permutations(Code) \cup Permutations(Phone)
=============================================================================
