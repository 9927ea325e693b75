-------------------------- MODULE MCDocumentQueries --------------------------
(***************************************************************************)
(* Instances of DocumentQueries for TLC: a page list that is accepted,     *)
(* one with more pages than a summary can count, an empty one and one out  *)
(* of order.                                                               *)
(***************************************************************************)
EXTENDS DocumentQueries, TLC

CONSTANTS home, away

Page(index, geometry) == [index |-> index, geometry |-> geometry]

FewPageLists ==
  {<<Page(0, "a4"), Page(1, "a5")>>,
   <<Page(0, "a4"), Page(1, "a4"), Page(2, "a4")>>, <<>>,
   <<Page(1, "a4"), Page(0, "a5")>>}

SessionSymmetry == Permutations({home, away})
=============================================================================
