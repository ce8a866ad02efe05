--------------------------- MODULE MCProjectMedia ---------------------------
(* ProjectMedia for TLC: requests and uuids are interchangeable.           *)
EXTENDS ProjectMedia, TLC

Symmetry == Permutations(Request) \cup Permutations(File)
=============================================================================
