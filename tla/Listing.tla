------------------------------ MODULE Listing ------------------------------
(***************************************************************************)
(* What Python's sorted() returns, and what a loop appends: the elements of *)
(* a set from first to last in an order, which is a set of pairs.           *)
(***************************************************************************)
EXTENDS Naturals, FiniteSets

\* The place of an element: one more than there are elements before it.
PlaceIn(R, D, i) == Cardinality({j \in D : <<j, i>> \in R}) + 1

Listed(R, D) == [n \in 1..Cardinality(D) |-> CHOOSE i \in D : PlaceIn(R, D, i) = n]
=============================================================================
