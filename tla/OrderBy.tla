-------------------------------- MODULE OrderBy --------------------------------
(***************************************************************************)
(* ORDER BY of the queries that list something.  It is defined here by the *)
(* rank of each thing: SetToSortSeq rests on TLC's SortSeq, of which TLAPS *)
(* knows no definition.                                                    *)
(***************************************************************************)
EXTENDS Naturals, FiniteSets

(* S as a sequence; <<x, y>> \in before: x is listed before y.             *)
InOrder(S, before) ==
  [i \in 1..Cardinality(S) |->
     CHOOSE x \in S : Cardinality({y \in S : <<y, x>> \in before}) = i - 1]

=============================================================================
