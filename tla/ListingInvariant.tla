--------------------------- MODULE ListingInvariant ---------------------------
(***************************************************************************)
(* The inductive invariant of Listing: how far a reading of the list has   *)
(* come in the list as it is now, and what that cost or may still cost.    *)
(***************************************************************************)
EXTENDS Listing

(* The rows of the list in its order.                                      *)
Order == {pair \in Matching(asked) \X Matching(asked) : Before(pair[1], pair[2])}

(* The first n rows of S, or all of them if there are fewer.               *)
Prefix(order, S, n, top) ==
  /\ top \subseteq S
  /\ \A a \in top, b \in S : <<b, a>> \in order => b \in top
  /\ Cardinality(top) <= n
  /\ Cardinality(top) = n \/ top = S

(* A reading w that has come to position n.  Below it only rows are shown   *)
(* again that have moved down since, one for each that entered; above it   *)
(* only rows are missed that have moved up, one for each that left.        *)
Accounted(order, S, n, w) ==
  \E top \in SUBSET S :
    /\ Prefix(order, S, n, top)
    /\ w.shown - Cardinality(w.seen) + Cardinality(w.seen \cap (S \ top)) <= w.entered
    /\ Cardinality((w.kept \ w.seen) \cap top) <= w.left

Reading == walk.open /\ ~walk.complete

(* The rows before the next page the client is to see.                     *)
Position ==
  IF pc = "idle" /\ reply.err = "none" THEN asked.page * asked.limit
                                       ELSE (asked.page - 1) * asked.limit

(* The reading as it will be when the fetched page is shown.               *)
Ahead == [walk EXCEPT !.seen = @ \cup ToSet(items), !.shown = @ + Len(items)]

(* No page is asked for that begins behind every row there can be.         *)
PositionSmall == Reading => Position = 0 \/ Position < Cardinality(Ids)

(* A page that is fetched and not yet shown may still be lost, so that a   *)
(* reading is accounted for without it and with it; and for as long as the *)
(* statements can tell where its pages begin.                              *)
ReadingAccounted ==
  Reading =>
    /\ walk.kept \subseteq Matching(asked)
    /\ Fits(asked) =>
         /\ Accounted(Order, Matching(asked), Position, walk)
         /\ pc = "count" =>
              Accounted(Order, Matching(asked), asked.page * asked.limit, Ahead)

(* Nothing is counted of a list that is not read.                          *)
NoneOpen == ~walk.open => walk = NoWalk

(* A reading that has come to its end is not changed any more.             *)
CompleteSettled ==
  walk.complete =>
    /\ pc = "idle"
    /\ Fits(asked) => /\ Cardinality(walk.kept \ walk.seen) <= walk.left
                      /\ walk.shown - Cardinality(walk.seen) <= walk.entered

(* What every reachable state satisfies, and every step preserves: the     *)
(* page a client is shown continues where its reading has come to.         *)
IInv ==
  /\ TypeOK
  /\ PositionSmall
  /\ ReadingAccounted
  /\ NoneOpen
  /\ CompleteSettled
  /\ NothingPastTheEnd
=============================================================================
