------------------------------ MODULE MCEventBus ------------------------------
(***************************************************************************)
(* Instances of EventBus for TLC.                                          *)
(***************************************************************************)
EXTENDS EventBus

CONSTANTS p1, p2, s1

Drawn == [session |-> "home", type |-> "drawn", actor |-> "alice"]
Erased == [session |-> "away", type |-> "erased", actor |-> "bob"]

Everything == [session |-> Unset, types |-> {}, actor |-> Unset]
HomeDrawing == [session |-> "home", types |-> {"drawn"}, actor |-> "alice"]
BlankType == [session |-> Unset, types |-> {" "}, actor |-> Unset]

OneEvent == {Drawn}
TwoEvents == {Drawn, Erased}
OneFilter == {Everything}
AllFilters == {Everything, HomeDrawing, BlankType}

TwoPublishers == {p1, p2}
=============================================================================
