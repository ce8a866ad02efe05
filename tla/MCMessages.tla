----------------------------- MODULE MCMessages -----------------------------
(* Messages on small sets of users and requests, for TLC. *)
EXTENDS Messages, TLC

\* Requests to come are interchangeable, and so are users.
Symmetry == Permutations(Request \ Earlier) \cup Permutations(User)

\* The inbox, its first and its second page, and what is unread in it; a page
\* there is not.
Listings == {[unread |-> FALSE, page |-> Absent, perPage |-> Absent],
             [unread |-> FALSE, page |-> 2, perPage |-> 1],
             [unread |-> TRUE, page |-> 1, perPage |-> 2],
             [unread |-> FALSE, page |-> 0, perPage |-> 1]}
=============================================================================
