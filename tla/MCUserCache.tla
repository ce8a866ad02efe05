---------------------------- MODULE MCUserCache ----------------------------
(* UserCache for TLC.  The configuration gives every constant a small set; *)
(* there is no symmetry, since the run checks a liveness property.         *)
EXTENDS UserCache
=============================================================================
