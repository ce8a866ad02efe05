----------------------------- MODULE Pagination -----------------------------
(***************************************************************************)
(* common/pagination: what page a listing asks the database for, and what  *)
(* it tells of the whole.                                                  *)
(***************************************************************************)
EXTENDS Integers

CONSTANTS
    DEFAULT_PAGE, DEFAULT_PER_PAGE, MAX_PER_PAGE,
    Absent        \* a parameter that was not sent

ASSUME PaginationAssumption ==
    /\ DEFAULT_PAGE \in Nat /\ DEFAULT_PAGE >= 1
    /\ MAX_PER_PAGE \in Nat /\ MAX_PER_PAGE >= 1
    /\ DEFAULT_PER_PAGE \in 1..MAX_PER_PAGE

Larger(a, b) == IF a >= b THEN a ELSE b
Smaller(a, b) == IF a <= b THEN a ELSE b

normalizePagination(page, perPage) ==
    [page |-> Larger(IF page = Absent THEN DEFAULT_PAGE ELSE page, 1),
     perPage |-> Smaller(Larger(IF perPage = Absent THEN DEFAULT_PER_PAGE
                                ELSE perPage, 1),
                         MAX_PER_PAGE)]

\* What it makes of them: a page from the first on, and a size in the limits.
Params == [page : Nat \ {0}, perPage : 1..MAX_PER_PAGE]

\* The rows that come before the page, and are skipped.
Offset(params) == (params.page - 1) * params.perPage

\* Math.ceil(total / perPage)
TotalPages(total, perPage) == (total + perPage - 1) \div perPage

\* How many of the rows are on the page.
OnPage(total, params) ==
    Smaller(params.perPage, Larger(total - Offset(params), 0))
=============================================================================
