----------------------------- MODULE MCEventStore -----------------------------
(***************************************************************************)
(* Instances of EventStore for TLC: four events, two of them with the same *)
(* identifier, and queries with pages of one and of two records.           *)
(***************************************************************************)
EXTENDS EventStore, TLC

Event(id, session, type, time) ==
  [id |-> id, session |-> session, actor |-> "alice", type |-> type,
   time |-> time]

FewEvents ==
  {Event("e1", "home", "drawn", 1), Event("e1", "away", "drawn", 1),
   Event("e2", "home", "drawn", 2), Event("e3", "home", "erased", 3),
   Event("e4", "home", "drawn", 4)}

Query(session, types, from, until, limit) ==
  [session |-> session, actor |-> Unset, types |-> types, from |-> from,
   until |-> until, limit |-> limit]

FewQueries ==
  {Query(Unset, {}, Unset, Unset, 1), Query("home", {"drawn"}, Unset, Unset, 2),
   Query(Unset, {"erased", "drawn"}, 2, 4, 1),
   Query(Unset, {}, Unset, Unset, 0), Query(Unset, {}, 3, 3, 2),
   Query("home", {" "}, Unset, Unset, 1)}
=============================================================================
