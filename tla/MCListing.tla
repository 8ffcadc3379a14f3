------------------------------ MODULE MCListing ------------------------------
(***************************************************************************)
(* A small instance of Listing: three rows, two creation times so that     *)
(* some are created at once, pages of one to three rows, integers of six   *)
(* bits of which a statement keeps four.                                   *)
(***************************************************************************)
EXTENDS ListingInvariant

CONSTANTS u1, backlog, done, lower, garbage

MCParse == [s \in {lower, garbage} |-> IF s = lower THEN done ELSE Bad]

Plain(page, limit) == [page |-> page, limit |-> limit, status |-> Nil, user |-> Nil]

(* Reading all pages, the filtered list, the defaults; pages far behind    *)
(* the end, whose offset fits (7, 1), is an int but kept as a negative     *)
(* number (7, 2) or as a small one (7, 3), or is no int (23, 3); and every *)
(* refusal.                                                                *)
MCQueries == {Plain(1, 1), Plain(1, 2), Plain(Nil, Nil),
              [Plain(1, 1) EXCEPT !.status = lower], [Plain(1, 1) EXCEPT !.user = u1],
              Plain(7, 1), Plain(7, 2), Plain(7, 3), Plain(23, 3),
              Plain(0, 1), Plain(1, 0), Plain(1, 4), [Plain(1, 1) EXCEPT !.status = garbage]}
=============================================================================
