------------------------------ MODULE EventStore ------------------------------
(***************************************************************************)
(* MemoryEventStore of crates/orbitrelay-storage, with its cursors,        *)
(* checkpoints and pages.  Every operation runs under one lock of the      *)
(* store, so it is one step; a replay is many of them, between which       *)
(* others append.  A store that is created again has a new store_id and    *)
(* is another member of Stores: clients may come back to it with tokens of *)
(* the old one.                                                            *)
(***************************************************************************)
EXTENDS Integers, Sequences, FiniteSets, Selection

CONSTANTS
  Stores,      (* store_ids                                                *)
  Events,      (* records with id, session, actor, type and time           *)
  Readers,     (* clients replaying a store page by page                   *)
  Queries,     (* the EventQueries they start from                         *)
  BlankTypes,  (* event types that are empty once trimmed                  *)
  Unset        (* an Option that is None                                   *)

EventIds == {e.id : e \in Events}

Tokens == [kind : {"cursor", "checkpoint"}, store : Stores, position : Nat]
StoredEvents == [cursor : Tokens, event : Events]

ASSUME StoreAssumption == Unset \notin Nat /\ Unset \notin Tokens

VARIABLES
  records,    (* State::records of each store                              *)
  indices,    (* State::event_indices                                      *)
  phase,      (* where each reader is                                      *)
  query,      (* the conditions of its query                               *)
  bound,      (* the checkpoint it replays up to, if any                   *)
  after,      (* the cursor of the last page                               *)
  collected   (* the records of the pages so far                           *)

readerVars == <<phase, query, bound, after, collected>>
vars == <<records, indices, readerVars>>

TypeOK ==
  /\ records \in [Stores -> Seq(StoredEvents)]
  /\ DOMAIN indices = Stores
  /\ \A st \in Stores : /\ DOMAIN indices[st] \subseteq EventIds
                        /\ \A id \in DOMAIN indices[st] :
                             indices[st][id] \in DOMAIN records[st]
  /\ phase \in [Readers -> {"idle", "reading", "done"}]
  /\ query \in [Readers -> Queries \cup {Unset}]
  /\ \A r \in Readers : phase[r] # "idle" => query[r] \in Queries
  /\ bound \in [Readers -> Tokens \cup {Unset}]
  /\ after \in [Readers -> Tokens \cup {Unset}]
  /\ collected \in [Readers -> Seq(StoredEvents)]

Init ==
  /\ records = [st \in Stores |-> <<>>]
  /\ indices = [st \in Stores |-> <<>>]
  /\ phase = [r \in Readers |-> "idle"]
  /\ query = [r \in Readers |-> Unset]
  /\ bound = [r \in Readers |-> Unset]
  /\ after = [r \in Readers |-> Unset]
  /\ collected = [r \in Readers |-> <<>>]

---------------------------------------------------------------------------
(* EventQuery.                                                              *)

MAX_LIMIT == 1000

Valid(q) ==
  /\ q.limit \in 1..MAX_LIMIT
  /\ q.types \cap BlankTypes = {}
  /\ q.from # Unset /\ q.until # Unset => q.from < q.until

Matches(q, e) ==
  /\ q.session \in {Unset, e.session}
  /\ q.actor \in {Unset, e.actor}
  /\ q.types = {} \/ e.type \in q.types
  /\ q.from # Unset => e.time >= q.from
  /\ q.until # Unset => e.time < q.until

---------------------------------------------------------------------------
(* Tokens: opaque strings that carry their kind, their store and a          *)
(* position.                                                                *)

Token(kind, st, position) ==
  [kind |-> kind, store |-> st, position |-> position]

(* Mutated form: the store of a token is not compared.                      *)
DecodesAnywhere(token, kind, st) == token.kind = kind

Decodes(token, kind, st) == token.kind = kind /\ token.store = st

ValidCursor(token, st) ==
  /\ Decodes(token, "cursor", st)
  /\ token.position \in 1..Len(records[st])

ValidCheckpoint(token, st) ==
  /\ Decodes(token, "checkpoint", st)
  /\ token.position \in 0..Len(records[st])

---------------------------------------------------------------------------
(* MemoryEventStore.                                                        *)

(* Mutated form: the event is not looked up in event_indices.               *)
AppendAlways(st, e) ==
  LET position == Len(records[st]) + 1
  IN  /\ records' = [records EXCEPT
                       ![st] = Append(@, [cursor |-> Token("cursor", st, position),
                                          event |-> e])]
      /\ indices' = [indices EXCEPT
                       ![st] = [id \in DOMAIN @ \cup {e.id} |->
                                  IF id = e.id THEN position ELSE @[id]]]
      /\ UNCHANGED readerVars

(* Mutated form: an event with a known id replaces the record.              *)
AppendReplacing(st, e) ==
  LET position == IF e.id \in DOMAIN indices[st] THEN indices[st][e.id]
                                                 ELSE Len(records[st]) + 1
      record == [cursor |-> Token("cursor", st, position), event |-> e]
  IN  /\ records' = [records EXCEPT
                       ![st] = [i \in 1..(IF position > Len(@) THEN position
                                                               ELSE Len(@)) |->
                                  IF i = position THEN record ELSE @[i]]]
      /\ indices' = [indices EXCEPT
                       ![st] = [id \in DOMAIN @ \cup {e.id} |->
                                  IF id = e.id THEN position ELSE @[id]]]
      /\ UNCHANGED readerVars

(* Mutated form: the index is read after the record was pushed.             *)
AppendIndexingLate(st, e) ==
  LET position == Len(records[st]) + 1
  IN  /\ e.id \notin DOMAIN indices[st]
      /\ records' = [records EXCEPT
                       ![st] = Append(@, [cursor |-> Token("cursor", st, position),
                                          event |-> e])]
      /\ indices' = [indices EXCEPT
                       ![st] = [id \in DOMAIN @ \cup {e.id} |->
                                  IF id = e.id THEN position + 1 ELSE @[id]]]
      /\ UNCHANGED readerVars

(* append of a new event.  A known id changes nothing: the event is         *)
(* answered with its record, and a different event with EventConflict.      *)
AppendEvent(st, e) ==
  LET position == Len(records[st]) + 1
  IN  /\ e.id \notin DOMAIN indices[st]
      /\ records' = [records EXCEPT
                       ![st] = Append(@, [cursor |-> Token("cursor", st, position),
                                          event |-> e])]
      /\ indices' = [indices EXCEPT
                       ![st] = [id \in DOMAIN @ \cup {e.id} |->
                                  IF id = e.id THEN position ELSE @[id]]]
      /\ UNCHANGED readerVars

(* What get(id) answers.                                                    *)
Get(st, id) ==
  IF id \in DOMAIN indices[st] THEN records[st][indices[st][id]] ELSE Unset

(* The bounds of a query: where it stops, and after which position it       *)
(* starts.                                                                  *)
UpperBound(st, checkpoint) ==
  IF checkpoint = Unset THEN Len(records[st]) ELSE checkpoint.position

Start(cursor) == IF cursor = Unset THEN 0 ELSE cursor.position

Accepts(st, q, cursor, checkpoint) ==
  /\ Valid(q)
  /\ checkpoint # Unset => ValidCheckpoint(checkpoint, st)
  /\ cursor # Unset => ValidCursor(cursor, st)
  /\ Start(cursor) <= UpperBound(st, checkpoint)

(* The positions after start, up to upperBound, of what the query matches.  *)
Hits(st, q, start, upperBound) ==
  {i \in (start + 1)..upperBound : Matches(q, records[st][i].event)}

(* Mutated form: the page reaches up to the records of now.                 *)
FoundUpToNow(st, q, start, upperBound) ==
  Selected(records[st], Hits(st, q, start, Len(records[st])), Len(records[st]))

(* The records between the bounds that the query matches.                   *)
Found(st, q, start, upperBound) ==
  Selected(records[st], Hits(st, q, start, upperBound), upperBound)

NextCursor(found, limit) ==
  IF Len(found) > limit THEN found[limit].cursor ELSE Unset

Page(found, limit) == IF Len(found) > limit THEN SubSeq(found, 1, limit) ELSE found

---------------------------------------------------------------------------
(* Readers.                                                                 *)

(* A reader starts a replay, with a checkpoint captured now or without one. *)
StartReplay(r, q) ==
  /\ phase[r] = "idle"
  /\ phase' = [phase EXCEPT ![r] = "reading"]
  /\ query' = [query EXCEPT ![r] = q]
  /\ UNCHANGED <<records, indices, bound, after, collected>>

CaptureCheckpoint(r, q, st) ==
  /\ phase[r] = "idle"
  /\ phase' = [phase EXCEPT ![r] = "reading"]
  /\ query' = [query EXCEPT ![r] = q]
  /\ bound' = [bound EXCEPT ![r] = Token("checkpoint", st, Len(records[st]))]
  /\ UNCHANGED <<records, indices, after, collected>>

(* It asks some store, its own or another, for the next page.  An error     *)
(* leaves it where it was.                                                  *)
QueryPage(r, st) ==
  /\ phase[r] = "reading"
  /\ Accepts(st, query[r], after[r], bound[r])
  /\ LET limit == query[r].limit
         found == Found(st, query[r], Start(after[r]), UpperBound(st, bound[r]))
     IN  /\ collected' = [collected EXCEPT ![r] = @ \o Page(found, limit)]
         /\ after' = [after EXCEPT ![r] = NextCursor(found, limit)]
         /\ phase' = [phase EXCEPT
                        ![r] = IF Len(found) > limit THEN "reading" ELSE "done"]
  /\ UNCHANGED <<records, indices, query, bound>>

(* A query that the store does not accept ends the replay with the error.   *)
QueryRefused(r) ==
  /\ phase[r] = "reading"
  /\ ~Valid(query[r])
  /\ phase' = [phase EXCEPT ![r] = "idle"]
  /\ bound' = [bound EXCEPT ![r] = Unset]
  /\ UNCHANGED <<records, indices, query, after, collected>>

Next ==
  \/ \E st \in Stores, e \in Events : AppendEvent(st, e)
  \/ \E r \in Readers : \/ \E q \in Queries : StartReplay(r, q)
                        \/ \E q \in Queries, st \in Stores :
                             CaptureCheckpoint(r, q, st)
                        \/ \E st \in Stores : QueryPage(r, st)
                        \/ QueryRefused(r)

Spec == Init /\ [][Next]_vars

---------------------------------------------------------------------------
(* Properties.                                                              *)

(* The index of a store and its records agree: get(id) finds the one record *)
(* with that id, no id is stored twice, and cursors count the records.      *)
IndexMatchesRecords ==
  \A st \in Stores :
    /\ \A i \in DOMAIN records[st] :
         LET record == records[st][i]
         IN  /\ record.cursor = Token("cursor", st, i)
             /\ record.event.id \in DOMAIN indices[st]
             /\ Get(st, record.event.id) = record
    /\ Cardinality(DOMAIN indices[st]) = Len(records[st])

(* Records are never changed, removed or reordered.                         *)
AppendOnly ==
  [][\A st \in Stores :
       records[st] = SubSeq(records'[st], 1, Len(records[st]))]_vars

MatchingUpTo(st, q, position) ==
  Selected(records[st], {i \in 1..position : Matches(q, records[st][i].event)},
           position)

(* At every moment the pages a reader has collected are, in order, without  *)
(* a gap and without a repetition, what its query matches in one store, up  *)
(* to the cursor of the last page, whatever was appended between the pages  *)
(* and whichever store the pages were asked from.                           *)
PagesHaveNoGap ==
  \A r \in Readers : collected[r] # <<>> =>
    LET last == collected[r][Len(collected[r])].cursor
    IN  /\ collected[r] = MatchingUpTo(last.store, query[r], last.position)
        /\ phase[r] = "reading" => after[r] = last

(* A finished replay up to a checkpoint shows exactly what the store held   *)
(* when the checkpoint was captured: later appends are not in it.           *)
ReplayIsSnapshot ==
  \A r \in Readers :
    phase[r] = "done" /\ bound[r] # Unset =>
      collected[r] = MatchingUpTo(bound[r].store, query[r], bound[r].position)
=============================================================================
