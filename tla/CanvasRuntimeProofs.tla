-------------------------- MODULE CanvasRuntimeProofs --------------------------
(***************************************************************************)
(* Proofs about CanvasRuntime for any number of tasks, Strokes, canvases,  *)
(* actions and any largest chunk index.                                    *)
(*                                                                         *)
(* The argument: a task past "acquire" owns the scope of its Stroke; so    *)
(* nobody else persists an event of that Stroke, and what the task read is *)
(* still current when its own event is persisted; so the event is one the  *)
(* projector accepts, and it brings about the effect the task will be      *)
(* acknowledged for.                                                       *)
(***************************************************************************)
EXTENDS CanvasRuntime, TLAPS

---------------------------------------------------------------------------
(* The Stroke projector and the command rules, for every action and every   *)
(* well-formed Stroke.                                                      *)

(* A projection as the projector builds it: at least the begin chunk, and   *)
(* chunk i at position i.                                                   *)
WellFormed(p) ==
  /\ p \in Projections
  /\ Len(p.chunks) >= 1
  /\ \A i \in 1..Len(p.chunks) : p.chunks[i].index = i - 1

(* A value the state reader may give for the Stroke named by k.             *)
GoodState(k, p) ==
  \/ p = NoStroke
  \/ /\ WellFormed(p)
     /\ <<p.session, p.canvas, p.stroke>> = <<k.session, k.canvas, k.stroke>>

(* The index of the last chunk of a well-formed Stroke counts its chunks,   *)
(* and chunk(i) answers for exactly the indices up to it.                   *)
LEMMA ChunkIndexing ==
  ASSUME NEW p, WellFormed(p)
  PROVE  /\ Len(p.chunks) \in Nat
         /\ LastChunkIndex(p) = Len(p.chunks) - 1
         /\ LastChunkIndex(p) \in ChunkIndices
         /\ \A i \in ChunkIndices : HasChunk(p, i) <=> i <= LastChunkIndex(p)
<1>1. p.chunks \in Seq(Chunks) /\ Len(p.chunks) \in Nat
  BY DEF WellFormed, Projections
<1>2. LastChunkIndex(p) = Len(p.chunks) - 1
  BY <1>1 DEF WellFormed, LastChunkIndex
<1>3. p.chunks[Len(p.chunks)] \in Chunks
  BY <1>1 DEF WellFormed
<1>4. LastChunkIndex(p) \in ChunkIndices
  BY <1>3 DEF LastChunkIndex, Chunks
<1>5. ASSUME NEW i \in ChunkIndices
      PROVE  HasChunk(p, i) <=> i <= LastChunkIndex(p)
  <2>1. i \in Nat /\ DOMAIN p.chunks = 1..Len(p.chunks)
    BY <1>1, ProjectionAssumption DEF ChunkIndices
  <2>2. QED
    BY <1>1, <1>2, <2>1 DEF HasChunk, WellFormed
<1>6. QED
  BY <1>1, <1>2, <1>4, <1>5

(* The event of a decoded action is an event of the protocol whose payload  *)
(* decodes again.                                                           *)
LEMMA EventIsValid ==
  ASSUME NEW a \in Actions, Decodes(a)
  PROVE  /\ EventOf(a) \in Events
         /\ ValidPayload(PayloadStruct[EventOf(a).type], EventOf(a).payload)
<1>1. a.command \in Commands /\ a.payload \in Payloads
      /\ a.session \in Sessions /\ a.actor \in Actors
  BY DEF Actions
<1>2. EventOf(a).type \in EventTypes /\ EventOf(a).payload = a.payload
  BY <1>1 DEF EventOf, EventTypeOf, EventTypes, Commands
<1>3. PayloadStruct[EventOf(a).type] = a.command
  BY <1>1 DEF EventOf, EventTypeOf, EventTypes, Commands, PayloadStruct
<1>4. EventOf(a) \in Events
  BY <1>1, <1>2 DEF EventOf, Events
<1>5. QED
  BY <1>2, <1>3, <1>4 DEF Decodes

(* What applying an event does, one fact per event type.                    *)
LEMMA AppliedByType ==
  ASSUME NEW p, NEW e
  PROVE  /\ e.type = "began" => Applied(p, e) = BegunStroke(e)
         /\ e.type = "points_appended" =>
              Applied(p, e) = [p EXCEPT !.chunks = Append(p.chunks, ChunkOf(e.payload))]
         /\ e.type = "completed" =>
              Applied(p, e) = [p EXCEPT !.lifecycle = "Completed"]
         /\ e.type = "cancelled" =>
              Applied(p, e) = [p EXCEPT !.lifecycle = "Cancelled"]
         /\ e.type = "removed" =>
              Applied(p, e) = [p EXCEPT !.lifecycle = "Removed"]
BY DEF Applied

(* Every event a command drafts on the state it saw is accepted by the      *)
(* projector in that state.                                                 *)
LEMMA DraftApplies ==
  ASSUME NEW a \in Actions, NEW p, Decodes(a), Drafts(a, p),
         GoodState(StrokeKey(a), p)
  PROVE  Applicable(p, EventOf(a))
<1> DEFINE e == EventOf(a)
<1>1. a.command \in Commands /\ a.payload \in Payloads
      /\ a.payload.index \in ChunkIndices
  BY DEF Actions, Payloads
<1>2. /\ e.payload = a.payload
      /\ e.session = a.session
      /\ a.command = "begin" => e.type = "began"
      /\ a.command = "append" => e.type = "points_appended"
      /\ a.command = "end" => e.type = "completed"
      /\ a.command = "cancel" => e.type = "cancelled"
      /\ a.command = "remove" => e.type = "removed"
  BY DEF EventOf, EventTypeOf, Commands
<1>3. ValidPayload(PayloadStruct[e.type], e.payload)
  BY EventIsValid
<1>4. p # Corrupted
  BY ProjectionAssumption DEF GoodState, WellFormed
<1>5. CASE a.command = "begin"
  BY <1>2, <1>3, <1>4, <1>5 DEF Drafts, BeginDrafts, Applicable
<1>6. CASE a.command = "append"
  <2>1. AppendDrafts(a, p)
    BY <1>6 DEF Drafts
  <2>2. WellFormed(p) /\ LastChunkIndex(p) \in Nat /\ a.payload.index \in Nat
    BY <1>1, <2>1, ChunkIndexing, ProjectionAssumption
       DEF AppendDrafts, StrokeFound, GoodState, ChunkIndices
  <2>3. a.payload.index = NextChunkIndex(p)
    BY <2>1, <2>2 DEF AppendDrafts, NextChunkIndex
  <2>4. InLifecycle(p, e, "Active") /\ HasNextChunkIndex(p)
    BY <1>2, <2>1 DEF AppendDrafts, StrokeFound, InLifecycle
  <2>5. QED
    BY <1>2, <1>3, <1>4, <1>6, <2>3, <2>4 DEF Applicable
<1>7. CASE a.command \in {"end", "cancel"}
  <2>1. Terminates(a, p, {"Active"})
    BY <1>7 DEF Drafts
  <2>2. InLifecycle(p, e, "Active") /\ e.payload.index = LastChunkIndex(p)
    BY <1>2, <2>1 DEF Terminates, ValidFinalIndex, StrokeFound, InLifecycle
  <2>3. QED
    BY <1>2, <1>3, <1>4, <1>7, <2>2 DEF Applicable
<1>8. CASE a.command = "remove"
  <2>1. InLifecycle(p, e, "Completed")
    BY <1>2, <1>8 DEF Drafts, RemoveIn, StrokeFound, InLifecycle
  <2>2. QED
    BY <1>2, <1>3, <1>4, <1>8, <2>1 DEF Applicable
<1>9. QED
  BY <1>1, <1>5, <1>6, <1>7, <1>8 DEF Commands

(* A Stroke an event was applied to keeps its identity and is well formed.  *)
LEMMA AppliedIsGood ==
  ASSUME NEW k, NEW p, NEW e \in Events, GoodState(k, p), Applicable(p, e),
         <<e.session, e.payload.canvas, e.payload.stroke>>
           = <<k.session, k.canvas, k.stroke>>
  PROVE  GoodState(k, Applied(p, e)) /\ Applied(p, e) # NoStroke
<1> DEFINE q == Applied(p, e)
<1>1. e.type \in EventTypes /\ e.payload \in Payloads
      /\ e.session \in Sessions /\ e.actor \in Actors
  BY DEF Events
<1>2. ChunkOf(e.payload) \in Chunks
  BY <1>1 DEF ChunkOf, Chunks, Payloads
<1> SUFFICES WellFormed(q) /\ <<q.session, q.canvas, q.stroke>>
                                = <<k.session, k.canvas, k.stroke>>
  BY ProjectionAssumption DEF GoodState, WellFormed
<1>3. CASE e.type = "began"
  <2>1. q = BegunStroke(e)
    BY <1>3, AppliedByType
  <2>2. q.chunks = <<ChunkOf(e.payload)>> /\ ChunkOf(e.payload).index = 0
    BY <1>3, <2>1 DEF BegunStroke, Applicable, ValidPayload, PayloadStruct,
                      EventTypes, ChunkOf
  <2>3. q \in Projections
    BY <1>1, <1>2, <2>1 DEF BegunStroke, Projections, Payloads, Lifecycles
  <2>4. QED
    BY <2>1, <2>2, <2>3 DEF WellFormed, BegunStroke
<1>4. CASE e.type = "points_appended"
  <2>1. /\ q = [p EXCEPT !.chunks = Append(p.chunks, ChunkOf(e.payload))]
        /\ WellFormed(p)
        /\ e.payload.index = LastChunkIndex(p) + 1
    BY <1>4, AppliedByType DEF Applicable, InLifecycle, GoodState, NextChunkIndex
  <2>2. p \in Projections /\ p.chunks \in Seq(Chunks)
    BY <2>1 DEF WellFormed, Projections
  <2>3. q \in Projections /\ q.chunks = Append(p.chunks, ChunkOf(e.payload))
    BY <1>2, <2>1, <2>2, SMTT(30) DEF Projections
  <2>4. ChunkOf(e.payload).index = Len(p.chunks)
    BY <2>1, <2>2, ChunkIndexing DEF ChunkOf
  <2>5. Len(q.chunks) >= 1 /\ \A i \in 1..Len(q.chunks) : q.chunks[i].index = i - 1
    BY <1>2, <2>1, <2>2, <2>3, <2>4 DEF WellFormed
  <2>6. QED
    BY <1>4, <2>1, <2>2, <2>3, <2>5 DEF WellFormed, GoodState, Applicable,
       InLifecycle, Projections
<1>5. CASE e.type \in {"completed", "cancelled", "removed"}
  <2>1. PICK l \in Lifecycles : q = [p EXCEPT !.lifecycle = l]
    BY <1>5, AppliedByType DEF Lifecycles
  <2>2. WellFormed(p) /\ <<p.session, p.canvas, p.stroke>>
                           = <<k.session, k.canvas, k.stroke>>
    BY <1>5 DEF Applicable, InLifecycle, GoodState
  <2>3. q \in Projections /\ q.chunks = p.chunks
        /\ <<q.session, q.canvas, q.stroke>> = <<p.session, p.canvas, p.stroke>>
    BY <2>1, <2>2 DEF WellFormed, Projections
  <2>4. QED
    BY <2>2, <2>3 DEF WellFormed
<1>6. QED
  BY <1>1, <1>3, <1>4, <1>5 DEF EventTypes

(* What applying an event keeps of a well-formed Stroke: everything but the *)
(* chunks and the lifecycle, every chunk it had, and no lifecycle but       *)
(* Active and Completed is left.                                            *)
LEMMA AppliedKeeps ==
  ASSUME NEW k, NEW p, NEW e \in Events, GoodState(k, p), p # NoStroke,
         Applicable(p, e)
  PROVE  LET q == Applied(p, e)
         IN  /\ <<q.session, q.canvas, q.stroke, q.layer, q.style, q.creator>>
                 = <<p.session, p.canvas, p.stroke, p.layer, p.style, p.creator>>
             /\ Len(q.chunks) >= Len(p.chunks)
             /\ \A i \in 1..Len(p.chunks) : q.chunks[i] = p.chunks[i]
             /\ p.lifecycle # "Active" => q.chunks = p.chunks
             /\ p.lifecycle \in {"Active", "Completed"}
             /\ p.lifecycle = "Completed" => q.lifecycle = "Removed"
<1> DEFINE q == Applied(p, e)
<1>1. WellFormed(p) /\ p \in Projections /\ p.chunks \in Seq(Chunks)
  BY DEF GoodState, WellFormed, Projections
<1>2. e.type \in EventTypes /\ e.payload \in Payloads
  BY DEF Events
<1>3. CASE e.type = "began"
  BY <1>3 DEF Applicable
<1>4. CASE e.type = "points_appended"
  <2>1. /\ q = [p EXCEPT !.chunks = Append(p.chunks, ChunkOf(e.payload))]
        /\ p.lifecycle = "Active"
    BY <1>4, AppliedByType DEF Applicable, InLifecycle
  <2>2. q.chunks = Append(p.chunks, ChunkOf(e.payload))
    BY <1>1, <2>1 DEF Projections
  <2>3. ChunkOf(e.payload) \in Chunks
    BY <1>2 DEF ChunkOf, Chunks, Payloads
  <2>4. Len(q.chunks) >= Len(p.chunks)
        /\ \A i \in 1..Len(p.chunks) : q.chunks[i] = p.chunks[i]
    BY <1>1, <2>2, <2>3
  <2>5. QED
    BY <1>1, <2>1, <2>4 DEF Projections
<1>5. CASE e.type \in {"completed", "cancelled"}
  <2>1. PICK l \in Lifecycles : q = [p EXCEPT !.lifecycle = l]
    BY <1>5, AppliedByType DEF Lifecycles
  <2>2. p.lifecycle = "Active"
    BY <1>5 DEF Applicable, InLifecycle
  <2>3. QED
    BY <1>1, <2>1, <2>2 DEF Projections
<1>6. CASE e.type = "removed"
  <2>1. q = [p EXCEPT !.lifecycle = "Removed"] /\ p.lifecycle = "Completed"
    BY <1>6, AppliedByType DEF Applicable, InLifecycle
  <2>2. QED
    BY <1>1, <2>1 DEF Projections
<1>7. QED
  BY <1>2, <1>3, <1>4, <1>5, <1>6 DEF EventTypes

(* A command that finds itself already done has its effect in the Stroke.   *)
LEMMA RepeatShowsEffect ==
  ASSUME NEW a \in Actions, NEW p, GoodState(StrokeKey(a), p), AlreadyDone(a, p)
  PROVE  EffectOf(a, p)
<1>1. StrokeFound(a, p)
  BY DEF AlreadyDone, BeginRepeats, AppendRepeats, Terminates, ValidFinalIndex, RemoveIn
<1>2. WellFormed(p) /\ SameIdentity(p, a.session, a.payload)
      /\ p \notin {NoStroke, Corrupted}
  BY <1>1 DEF StrokeFound, GoodState
<1>3. p.chunks \in Seq(Chunks) /\ Len(p.chunks) \in Nat
  BY <1>2, ChunkIndexing DEF WellFormed, Projections
<1>4. a.payload.index \in Nat
  BY ProjectionAssumption DEF Actions, Payloads, ChunkIndices
<1>5. a.command = "begin" =>
        /\ <<p.layer, p.style, p.creator>>
             = <<a.payload.layer, a.payload.style, a.actor>>
        /\ p.chunks[1] = [index |-> 0, points |-> a.payload.points]
  <2> SUFFICES ASSUME BeginRepeats(a, p)
               PROVE  p.chunks[1] = [index |-> 0, points |-> a.payload.points]
    BY DEF AlreadyDone, BeginRepeats
  <2>1. p.chunks[1].index = 0 /\ p.chunks[1].points = a.payload.points
    BY DEF BeginRepeats, HasChunk, ChunkPoints
  <2>2. p.chunks[1] \in Chunks
    BY <1>2, <1>3 DEF WellFormed
  <2>3. QED
    BY <2>1, <2>2 DEF Chunks
<1>6. a.command = "append" =>
        \E i \in DOMAIN p.chunks :
          p.chunks[i] = [index |-> a.payload.index, points |-> a.payload.points]
  <2> SUFFICES ASSUME AppendRepeats(a, p)
               PROVE  \E i \in DOMAIN p.chunks :
                        p.chunks[i] = [index |-> a.payload.index,
                                       points |-> a.payload.points]
    BY DEF AlreadyDone
  <2> DEFINE j == a.payload.index + 1
  <2>1. j \in DOMAIN p.chunks /\ p.chunks[j].index = a.payload.index
        /\ p.chunks[j].points = a.payload.points
    BY DEF AppendRepeats, HasChunk, ChunkPoints
  <2>2. p.chunks[j] \in Chunks
    BY <1>3, <2>1
  <2>3. QED
    BY <2>1, <2>2 DEF Chunks
<1>7. Len(p.chunks) = LastChunkIndex(p) + 1
  BY <1>2, <1>3, ChunkIndexing
<1>8. a.command \in {"end", "cancel"} => Len(p.chunks) = a.payload.index + 1
  BY <1>7 DEF AlreadyDone, Terminates, ValidFinalIndex
<1>9. /\ a.command = "end" => p.lifecycle \in {"Completed", "Removed"}
      /\ a.command = "cancel" => p.lifecycle = "Cancelled"
      /\ a.command = "remove" => p.lifecycle = "Removed"
  BY DEF AlreadyDone, Terminates, ValidFinalIndex, RemoveIn
<1>10. QED
  BY <1>2, <1>5, <1>6, <1>8, <1>9 DEF EffectOf, SameIdentity

(* A command whose effect the Stroke shows finds itself already done and    *)
(* drafts nothing.                                                          *)
LEMMA EffectIsRepeat ==
  ASSUME NEW a \in Actions, NEW p, GoodState(StrokeKey(a), p), EffectOf(a, p)
  PROVE  AlreadyDone(a, p) /\ ~Drafts(a, p)
<1>1. WellFormed(p) /\ StrokeFound(a, p) /\ p # NoStroke
  BY DEF EffectOf, StrokeFound, SameIdentity, GoodState
<1>2. p.chunks \in Seq(Chunks) /\ Len(p.chunks) \in Nat
      /\ LastChunkIndex(p) = Len(p.chunks) - 1 /\ Len(p.chunks) >= 1
  BY <1>1, ChunkIndexing DEF WellFormed, Projections
<1>3. a.payload.index \in ChunkIndices /\ a.payload.index \in Nat
      /\ a.command \in Commands
  BY ProjectionAssumption DEF Actions, Payloads, ChunkIndices
<1>4. CASE a.command = "begin"
  <2>1. p.chunks[1] = [index |-> 0, points |-> a.payload.points]
        /\ <<p.layer, p.style, p.creator>>
             = <<a.payload.layer, a.payload.style, a.actor>>
    BY <1>4 DEF EffectOf
  <2>2. HasChunk(p, 0) /\ ChunkPoints(p, 0) = a.payload.points
    BY <1>2, <2>1 DEF HasChunk, ChunkPoints
  <2>3. BeginRepeats(a, p)
    BY <1>1, <2>1, <2>2 DEF BeginRepeats
  <2>4. QED
    BY <1>1, <1>4, <2>3 DEF AlreadyDone, Drafts, BeginDrafts
<1>5. CASE a.command = "append"
  <2>1. PICK i \in DOMAIN p.chunks :
          p.chunks[i] = [index |-> a.payload.index, points |-> a.payload.points]
    BY <1>5 DEF EffectOf
  <2>2. i \in 1..Len(p.chunks) /\ a.payload.index = i - 1
    BY <1>1, <1>2, <2>1 DEF WellFormed
  <2>3. a.payload.index <= LastChunkIndex(p) /\ HasChunk(p, a.payload.index)
    BY <1>1, <1>2, <1>3, <2>2, ChunkIndexing
  <2>4. ChunkPoints(p, a.payload.index) = a.payload.points
    BY <2>1, <2>2 DEF ChunkPoints
  <2>5. AppendRepeats(a, p) /\ ~AppendDrafts(a, p)
    BY <1>1, <1>2, <1>3, <2>3, <2>4 DEF AppendRepeats, AppendDrafts
  <2>6. QED
    BY <1>5, <2>5 DEF AlreadyDone, Drafts
<1>6. CASE a.command \in {"end", "cancel"}
  <2>1. a.payload.index = LastChunkIndex(p)
    BY <1>2, <1>3, <1>6 DEF EffectOf
  <2>2. /\ a.command = "end" => p.lifecycle \in {"Completed", "Removed"}
        /\ a.command = "cancel" => p.lifecycle = "Cancelled"
    BY DEF EffectOf
  <2>3. QED
    BY <1>1, <1>6, <2>1, <2>2 DEF AlreadyDone, Drafts, Terminates, ValidFinalIndex
<1>7. CASE a.command = "remove"
  BY <1>1, <1>7 DEF EffectOf, AlreadyDone, Drafts, RemoveIn
<1>8. QED
  BY <1>3, <1>4, <1>5, <1>6, <1>7 DEF Commands

(* Applying the event of a command brings about its effect.                 *)
LEMMA DraftShowsEffect ==
  ASSUME NEW a \in Actions, NEW p, Decodes(a), Drafts(a, p),
         GoodState(StrokeKey(a), p)
  PROVE  EffectOf(a, Applied(p, EventOf(a)))
<1> DEFINE e == EventOf(a)
           q == Applied(p, e)
<1>1. /\ e.payload = a.payload /\ e.session = a.session /\ e.actor = a.actor
      /\ a.command = "begin" => e.type = "began"
      /\ a.command = "append" => e.type = "points_appended"
      /\ a.command = "end" => e.type = "completed"
      /\ a.command = "cancel" => e.type = "cancelled"
      /\ a.command = "remove" => e.type = "removed"
      /\ a.command \in Commands
  BY DEF EventOf, EventTypeOf, Commands, Actions
<1>2. Applicable(p, e) /\ e \in Events
  BY DraftApplies, EventIsValid
<1>3. GoodState(StrokeKey(a), q) /\ q # NoStroke
  BY <1>1, <1>2, AppliedIsGood DEF StrokeKey
<1>4. /\ WellFormed(q)
      /\ q \notin {NoStroke, Corrupted}
      /\ <<q.session, q.canvas, q.stroke>>
           = <<a.session, a.payload.canvas, a.payload.stroke>>
  BY <1>3, ProjectionAssumption DEF GoodState, StrokeKey, WellFormed
<1>5. CASE a.command = "begin"
  <2>1. q = BegunStroke(e) /\ a.payload.index = 0
    BY <1>1, <1>5, AppliedByType DEF Decodes, ValidPayload
  <2>2. QED
    BY <1>1, <1>4, <1>5, <2>1 DEF EffectOf, BegunStroke, ChunkOf
<1>6. CASE a.command # "begin"
  <2>1. WellFormed(p) /\ p \in Projections /\ p.chunks \in Seq(Chunks)
    BY <1>1, <1>6 DEF Drafts, AppendDrafts, Terminates, ValidFinalIndex, RemoveIn, StrokeFound,
       GoodState, WellFormed, Projections
  <2>2. CASE a.command = "append"
    <3>1. q.chunks = Append(p.chunks, ChunkOf(a.payload))
      BY <1>1, <2>1, <2>2, AppliedByType DEF Projections
    <3>2. ChunkOf(a.payload) \in Chunks
      BY DEF ChunkOf, Chunks, Actions, Payloads
    <3>3. Len(p.chunks) + 1 \in DOMAIN q.chunks
          /\ q.chunks[Len(p.chunks) + 1] = ChunkOf(a.payload)
      BY <2>1, <3>1, <3>2
    <3>4. QED
      BY <1>4, <2>2, <3>3 DEF EffectOf, ChunkOf
  <2>3. CASE a.command \in {"end", "cancel"}
    <3>1. a.payload.index = LastChunkIndex(p)
      BY <2>3 DEF Drafts, Terminates, ValidFinalIndex
    <3>2. Len(p.chunks) = a.payload.index + 1
      BY <2>1, <3>1, ChunkIndexing
    <3>3. /\ q.chunks = p.chunks
          /\ a.command = "end" => q.lifecycle = "Completed"
          /\ a.command = "cancel" => q.lifecycle = "Cancelled"
      BY <1>1, <2>1, <2>3, AppliedByType DEF Projections
    <3>4. QED
      BY <1>4, <2>3, <3>2, <3>3 DEF EffectOf
  <2>4. CASE a.command = "remove"
    <3>1. q.lifecycle = "Removed"
      BY <1>1, <2>1, <2>4, AppliedByType DEF Projections
    <3>2. QED
      BY <1>4, <2>4, <3>1 DEF EffectOf
  <2>5. QED
    BY <1>1, <1>6, <2>2, <2>3, <2>4 DEF Commands
<1>7. QED
  BY <1>5, <1>6

(* An effect once shown survives every later event of the Stroke.           *)
LEMMA EffectIsStable ==
  ASSUME NEW a \in Actions, NEW p, NEW e \in Events, Applicable(p, e),
         GoodState(StrokeKey(a), p), EffectOf(a, p),
         <<e.session, e.payload.canvas, e.payload.stroke>>
           = <<a.session, a.payload.canvas, a.payload.stroke>>
  PROVE  EffectOf(a, Applied(p, e))
<1> DEFINE q == Applied(p, e)
<1>1. p # NoStroke /\ WellFormed(p) /\ p.chunks \in Seq(Chunks)
  BY DEF EffectOf, GoodState, WellFormed, Projections
<1>2. GoodState(StrokeKey(a), q) /\ q # NoStroke
  BY AppliedIsGood DEF StrokeKey
<1>3. /\ q.chunks \in Seq(Chunks)
      /\ q \notin {NoStroke, Corrupted}
      /\ <<q.session, q.canvas, q.stroke>>
           = <<a.session, a.payload.canvas, a.payload.stroke>>
  BY <1>2, ProjectionAssumption DEF GoodState, StrokeKey, WellFormed, Projections
<1>4. /\ <<q.layer, q.style, q.creator>> = <<p.layer, p.style, p.creator>>
      /\ Len(q.chunks) >= Len(p.chunks)
      /\ \A i \in 1..Len(p.chunks) : q.chunks[i] = p.chunks[i]
      /\ p.lifecycle # "Active" => q.chunks = p.chunks
      /\ p.lifecycle \in {"Active", "Completed"}
      /\ p.lifecycle = "Completed" => q.lifecycle = "Removed"
  BY <1>1, AppliedKeeps
<1>5. /\ q.chunks[1] = p.chunks[1]
      /\ \A i \in DOMAIN p.chunks : i \in DOMAIN q.chunks /\ q.chunks[i] = p.chunks[i]
  BY <1>1, <1>3, <1>4 DEF WellFormed
<1>6. QED
  BY <1>3, <1>4, <1>5 DEF EffectOf

---------------------------------------------------------------------------
(* The inductive invariant.                                                 *)

LeaseHeld ==
  \A t \in Tasks : pc[t] \in Leased => lease[ExecutionScope(action[t])] = t

Screened ==
  \A t \in Tasks :
    /\ pc[t] \in Awaits \ {"validate"} => Decodes(action[t])
    /\ pc[t] \in {"load_stroke", "decide", "dispatch", "dispatched"}
         => CanvasAdmits(action[t])

GoodStrokes == \A k \in StrokeKeys : GoodState(k, strokes[k])

DispatchIsDecided ==
  \A t \in Tasks :
    pc[t] = "dispatch" =>
      \/ /\ events[t] = <<EventOf(action[t])>>
         /\ Drafts(action[t], loaded[t])
      \/ /\ events[t] = <<>>
         /\ AlreadyDone(action[t], loaded[t])

Shows(t) == pc[t] = "dispatched" \/ (pc[t] = "done" /\ outcome[t] = "Ok")

EffectsShown ==
  \A t \in Tasks : Shows(t) => EffectOf(action[t], strokes[Key(t)])

(* The inductive invariant.                                                 *)
IInv ==
  /\ TypeOK
  /\ LeaseHeld
  /\ Screened
  /\ GoodStrokes
  /\ SnapshotIsCurrent
  /\ DispatchIsDecided
  /\ EffectsShown

(* The key of an action is a key of the Stroke its execution scope names.   *)
LEMMA KeyOfAction ==
  ASSUME NEW a \in Actions
  PROVE  /\ StrokeKey(a) \in StrokeKeys
         /\ StrokeKey(a).stroke = ExecutionScope(a)
         /\ ExecutionScope(a) \in Strokes
BY DEF Actions, Payloads, StrokeKey, StrokeKeys, ExecutionScope

(* The invariant holds initially.                                           *)
LEMMA InitIInv == Init => IInv
<1> SUFFICES ASSUME Init PROVE IInv
  OBVIOUS
<1>1. TypeOK
  BY DEF Init, TypeOK, StrokeStates, Outcomes
<1>2. \A t \in Tasks : pc[t] = "idle"
  BY DEF Init
<1>3. GoodStrokes
  BY DEF Init, GoodStrokes, GoodState
<1>4. QED
  BY <1>1, <1>2, <1>3 DEF IInv, LeaseHeld, Leased, Screened, Awaits,
     SnapshotIsCurrent, DispatchIsDecided, EffectsShown, Shows

(* Ending an execution, Ok only after its batch was persisted, keeps it.    *)
LEMMA FinishKeepsIInv ==
  ASSUME IInv, NEW t \in Tasks, NEW result \in Outcomes, Finish(t, result),
         pc[t] # "idle", result = "Ok" => pc[t] = "dispatched"
  PROVE  IInv'
<1>1. TypeOK'
  BY DEF IInv, TypeOK, Finish, StrokeStates
<1>2. \A u \in Tasks : u # t => /\ pc'[u] = pc[u] /\ loaded'[u] = loaded[u]
                                /\ events'[u] = events[u]
                                /\ outcome'[u] = outcome[u]
  BY DEF IInv, TypeOK, Finish
<1>3. pc'[t] = "done" /\ outcome'[t] = result
  BY DEF IInv, TypeOK, Finish
<1>4. action' = action /\ strokes' = strokes
  BY DEF Finish
<1>5. LeaseHeld'
  <2> SUFFICES ASSUME NEW u \in Tasks, pc'[u] \in Leased
               PROVE  lease'[ExecutionScope(action[u])] = u
    BY <1>4 DEF LeaseHeld
  <2>1. u # t /\ pc[u] \in Leased
    BY <1>2, <1>3 DEF Leased
  <2>2. action[u] \in Actions /\ lease[ExecutionScope(action[u])] = u
    BY <2>1 DEF IInv, TypeOK, LeaseHeld, Leased
  <2>3. QED
    BY <2>1, <2>2, KeyOfAction DEF Finish
<1>6. Screened' /\ SnapshotIsCurrent' /\ DispatchIsDecided'
  BY <1>2, <1>3, <1>4 DEF IInv, Screened, SnapshotIsCurrent, DispatchIsDecided,
     Awaits, Key
<1>7. GoodStrokes'
  BY <1>4 DEF IInv, GoodStrokes
<1>8. EffectsShown'
  BY <1>2, <1>3, <1>4 DEF IInv, EffectsShown, Shows, Key
<1>9. QED
  BY <1>1, <1>5, <1>6, <1>7, <1>8 DEF IInv

(* A step of task t alone, with the persisted state and the leases of the   *)
(* other tasks untouched, keeps the invariant when it keeps t's part of it. *)
LEMMA LocalStepKeepsIInv ==
  ASSUME IInv, TypeOK', NEW t \in Tasks, strokes' = strokes,
         \A u \in Tasks : u # t => /\ pc'[u] = pc[u] /\ action'[u] = action[u]
                                  /\ loaded'[u] = loaded[u]
                                  /\ events'[u] = events[u]
                                  /\ outcome'[u] = outcome[u],
         \A s \in Strokes : lease[s] \in Tasks => lease'[s] = lease[s],
         pc'[t] \in Leased => lease'[ExecutionScope(action'[t])] = t,
         pc'[t] \in Awaits \ {"validate"} => Decodes(action'[t]),
         pc'[t] \in {"load_stroke", "decide", "dispatch", "dispatched"}
           => CanvasAdmits(action'[t]),
         pc'[t] \in {"decide", "dispatch"}
           => loaded'[t] = strokes[StrokeKey(action'[t])],
         pc'[t] = "dispatch" =>
           \/ events'[t] = <<EventOf(action'[t])>> /\ Drafts(action'[t], loaded'[t])
           \/ events'[t] = <<>> /\ AlreadyDone(action'[t], loaded'[t]),
         ~Shows(t)'
  PROVE  IInv'
<1>1. LeaseHeld'
  <2> SUFFICES ASSUME NEW u \in Tasks, u # t, pc[u] \in Leased
               PROVE  lease'[ExecutionScope(action[u])] = u
    BY DEF LeaseHeld
  <2>1. action[u] \in Actions /\ lease[ExecutionScope(action[u])] = u
    BY DEF IInv, TypeOK, LeaseHeld, Leased
  <2>2. QED
    BY <2>1, KeyOfAction
<1>2. Screened'
  BY DEF IInv, Screened
<1>3. GoodStrokes'
  BY DEF IInv, GoodStrokes
<1>4. SnapshotIsCurrent'
  BY DEF IInv, SnapshotIsCurrent, Key
<1>5. DispatchIsDecided'
  BY DEF IInv, DispatchIsDecided
<1>6. EffectsShown'
  BY DEF IInv, EffectsShown, Shows, Key
<1>7. QED
  BY <1>1, <1>2, <1>3, <1>4, <1>5, <1>6 DEF IInv

(* A client's call of execute keeps the invariant.                          *)
LEMMA ExecuteKeepsIInv ==
  ASSUME IInv, NEW t \in Tasks, NEW a \in Requests, Execute(t, a)
  PROVE  IInv'
<1>1. a \in Actions /\ a.command \in Commands
  BY RuntimeAssumption DEF Actions
<1>2. pc'[t] \in {"validate", "done"} /\ outcome'[t] \in {"None", "HandlerNotFound"}
      /\ action'[t] = a
  BY DEF Execute, IInv, TypeOK
<1>3. TypeOK'
  <2>1. pc' \in [Tasks -> Awaits \cup {"idle", "done"}]
    BY DEF Execute, IInv, TypeOK, Awaits
  <2>2. outcome' \in [Tasks -> Outcomes]
    BY DEF Execute, IInv, TypeOK, Outcomes, Errors
  <2>3. action' \in [Tasks -> Actions \cup {NoAction}]
        /\ \A u \in Tasks : pc'[u] # "idle" => action'[u] \in Actions
    BY <1>1, <1>2 DEF Execute, IInv, TypeOK
  <2>4. QED
    BY <2>1, <2>2, <2>3 DEF Execute, IInv, TypeOK
<1>4. QED
  BY <1>2, <1>3, LocalStepKeepsIInv DEF Execute, IInv, TypeOK, Leased, Awaits, Shows

(* Every step of execute that leaves the persisted state alone keeps the    *)
(* invariant.                                                               *)
LEMMA StepKeepsIInv ==
  ASSUME IInv, NEW t \in Tasks,
         \/ Validate(t) \/ Authorize(t) \/ Acquire(t) \/ LoadCanvas(t)
         \/ LoadStroke(t) \/ DecideCommand(t) \/ DispatchFails(t)
         \/ DispatchReturns(t) \/ DropFuture(t)
  PROVE  IInv'
<1> USE DEF Goto
<1>1. pc[t] # "idle" => action[t] \in Actions
  BY DEF IInv, TypeOK
<1>2. ASSUME NEW result \in Outcomes \ {"Ok"}, pc[t] # "idle", Finish(t, result)
      PROVE  IInv'
  BY <1>2, FinishKeepsIInv
<1>3. CASE Validate(t)
  <2>1. CASE pc[t] = "validate" /\ Finish(t, "ValidationFailed")
    BY <1>2, <2>1 DEF Outcomes, Errors
  <2>2. CASE pc[t] = "validate" /\ ~Finish(t, "ValidationFailed")
    <3>1. /\ pc' = [pc EXCEPT ![t] = "authorize"] /\ Decodes(action[t])
          /\ UNCHANGED <<registered, coordinated, action, lease, loaded, events,
                         outcome, strokes>>
      BY <1>3, <2>2 DEF Validate
    <3>2. TypeOK' /\ pc'[t] = "authorize"
      BY <1>1, <2>2, <3>1 DEF IInv, TypeOK, Awaits
    <3>3. QED
      BY <3>1, <3>2, LocalStepKeepsIInv DEF IInv, TypeOK, Leased, Shows
  <2>3. QED
    BY <1>3, <2>1, <2>2 DEF Validate
<1>4. CASE Authorize(t)
  <2>1. CASE \E result \in {"CoordinationUnavailable", "AuthorizationFailed"} :
               pc[t] = "authorize" /\ Finish(t, result)
    BY <1>2, <2>1 DEF Outcomes, Errors
  <2>2. CASE /\ pc[t] = "authorize" /\ pc' = [pc EXCEPT ![t] = "acquire"]
             /\ UNCHANGED <<registered, coordinated, action, lease, loaded,
                            events, outcome, strokes>>
    <3>1. TypeOK' /\ pc'[t] = "acquire" /\ Decodes(action[t])
      BY <1>1, <2>2 DEF IInv, TypeOK, Awaits, Screened
    <3>2. QED
      BY <2>2, <3>1, LocalStepKeepsIInv DEF IInv, TypeOK, Leased, Shows
  <2>3. QED
    BY <1>4, <2>1, <2>2 DEF Authorize
<1>5. CASE Acquire(t)
  <2>1. CASE pc[t] = "acquire" /\ Finish(t, "CoordinationFailed")
    BY <1>2, <2>1 DEF Outcomes, Errors
  <2>2. CASE /\ pc[t] = "acquire" /\ pc' = [pc EXCEPT ![t] = "load_canvas"]
             /\ lease[ExecutionScope(action[t])] = NoTask
             /\ lease' = [lease EXCEPT ![ExecutionScope(action[t])] = t]
             /\ UNCHANGED <<registered, coordinated, action, loaded, events,
                            outcome, strokes>>
    <3>1. TypeOK' /\ pc'[t] = "load_canvas" /\ Decodes(action[t])
      BY <1>1, <2>2 DEF IInv, TypeOK, Awaits, Screened
    <3>2. lease'[ExecutionScope(action[t])] = t
          /\ \A s \in Strokes : lease[s] \in Tasks => lease'[s] = lease[s]
      BY <1>1, <2>2, KeyOfAction, RuntimeAssumption DEF IInv, TypeOK
    <3>3. QED
      BY <2>2, <3>1, <3>2, LocalStepKeepsIInv DEF IInv, TypeOK, Shows
  <2>3. QED
    BY <1>5, <2>1, <2>2 DEF Acquire
<1>6. CASE LoadCanvas(t)
  <2>1. CASE pc[t] = "load_canvas" /\ Finish(t, "HandlerFailed")
    BY <1>2, <2>1 DEF Outcomes, Errors
  <2>2. CASE /\ pc[t] = "load_canvas" /\ pc' = [pc EXCEPT ![t] = "load_stroke"]
             /\ CanvasAdmits(action[t])
             /\ UNCHANGED <<registered, coordinated, action, lease, loaded,
                            events, outcome, strokes>>
    <3>1. TypeOK' /\ pc'[t] = "load_stroke" /\ Decodes(action[t])
          /\ lease[ExecutionScope(action[t])] = t
      BY <1>1, <2>2 DEF IInv, TypeOK, Awaits, Screened, LeaseHeld, Leased
    <3>2. QED
      BY <2>2, <3>1, LocalStepKeepsIInv DEF IInv, TypeOK, Shows
  <2>3. QED
    BY <1>6, <2>1, <2>2 DEF LoadCanvas
<1>7. CASE LoadStroke(t)
  <2>1. CASE pc[t] = "load_stroke" /\ Finish(t, "HandlerFailed")
    BY <1>2, <2>1 DEF Outcomes, Errors
  <2>2. CASE /\ pc[t] = "load_stroke" /\ pc' = [pc EXCEPT ![t] = "decide"]
             /\ loaded' = [loaded EXCEPT ![t] = strokes[Key(t)]]
             /\ UNCHANGED <<registered, coordinated, action, lease, events,
                            outcome, strokes>>
    <3>1. strokes[Key(t)] \in StrokeStates
      BY <1>1, <2>2, KeyOfAction DEF IInv, TypeOK, Key
    <3>2. TypeOK' /\ pc'[t] = "decide" /\ Decodes(action[t]) /\ CanvasAdmits(action[t])
          /\ lease[ExecutionScope(action[t])] = t /\ loaded'[t] = strokes[Key(t)]
      BY <1>1, <2>2, <3>1 DEF IInv, TypeOK, Awaits, Screened, LeaseHeld, Leased
    <3>3. QED
      BY <2>2, <3>2, LocalStepKeepsIInv DEF IInv, TypeOK, Shows, Key
  <2>3. QED
    BY <1>7, <2>1, <2>2 DEF LoadStroke
<1>8. CASE DecideCommand(t)
  <2>1. CASE pc[t] = "decide" /\ Finish(t, "HandlerFailed")
    BY <1>2, <2>1 DEF Outcomes, Errors
  <2>2. CASE /\ pc[t] = "decide" /\ pc' = [pc EXCEPT ![t] = "dispatch"]
             /\ Drafts(action[t], loaded[t]) \/ AlreadyDone(action[t], loaded[t])
             /\ events' = [events EXCEPT
                             ![t] = IF Drafts(action[t], loaded[t])
                                    THEN <<EventOf(action[t])>> ELSE <<>>]
             /\ UNCHANGED <<registered, coordinated, action, lease, loaded,
                            outcome, strokes>>
    <3>1. Decodes(action[t]) /\ CanvasAdmits(action[t]) /\ action[t] \in Actions
          /\ lease[ExecutionScope(action[t])] = t /\ loaded[t] = strokes[Key(t)]
      BY <1>1, <2>2 DEF IInv, Awaits, Screened, LeaseHeld, Leased, SnapshotIsCurrent
    <3>2. EventOf(action[t]) \in Events
      BY <3>1, EventIsValid
    <3>3. events' \in [Tasks -> Seq(Events)]
          /\ events'[t] = IF Drafts(action[t], loaded[t])
                          THEN <<EventOf(action[t])>> ELSE <<>>
      BY <2>2, <3>2 DEF IInv, TypeOK
    <3>4. TypeOK' /\ pc'[t] = "dispatch"
      BY <1>1, <2>2, <3>3 DEF IInv, TypeOK, Awaits
    <3>5. QED
      BY <2>2, <3>1, <3>3, <3>4, LocalStepKeepsIInv DEF IInv, TypeOK, Shows, Key
  <2>3. QED
    BY <1>8, <2>1, <2>2 DEF DecideCommand
<1>9. CASE DispatchFails(t)
  BY <1>2, <1>9 DEF DispatchFails, Outcomes, Errors
<1>10. CASE DispatchReturns(t)
  BY <1>10, FinishKeepsIInv DEF DispatchReturns, Outcomes, Errors
<1>11. CASE DropFuture(t)
  BY <1>2, <1>11 DEF DropFuture, Outcomes, Awaits
<1>12. QED
  BY <1>3, <1>4, <1>5, <1>6, <1>7, <1>8, <1>9, <1>10, <1>11

(* Persisting the batch of a task either changes nothing or performs the    *)
(* command of the task on the current state of its Stroke.                  *)
LEMMA PersistPerforms ==
  ASSUME IInv, NEW t \in Tasks, Persist(t)
  PROVE  LET a == action[t]
             p == strokes[Key(t)]
         IN  /\ a \in Actions /\ Key(t) \in StrokeKeys
             /\ \/ strokes' = strokes /\ EffectOf(a, p)
                \/ /\ Decodes(a) /\ CanvasAdmits(a) /\ Drafts(a, p)
                   /\ Applicable(p, EventOf(a))
                   /\ strokes' = [strokes EXCEPT ![Key(t)] = Applied(p, EventOf(a))]
<1> DEFINE a == action[t]
           p == strokes[Key(t)]
<1>1. pc[t] = "dispatch" /\ a \in Actions /\ Key(t) \in StrokeKeys
  BY KeyOfAction DEF IInv, TypeOK, Persist, Goto, Key
<1>2. Decodes(a) /\ CanvasAdmits(a) /\ loaded[t] = p /\ GoodState(StrokeKey(a), p)
  BY <1>1 DEF IInv, Screened, Awaits, SnapshotIsCurrent, GoodStrokes, Key
<1>3. CASE events[t] = <<>> /\ AlreadyDone(a, p)
  BY <1>1, <1>2, <1>3, RepeatShowsEffect DEF Persist
<1>4. CASE events[t] = <<EventOf(a)>> /\ Drafts(a, p)
  <2>1. Applicable(p, EventOf(a))
    BY <1>1, <1>2, <1>4, DraftApplies
  <2>2. strokes' = [strokes EXCEPT ![Key(t)] = Apply(p, EventOf(a))]
    BY <1>4 DEF Persist
  <2>3. Apply(p, EventOf(a)) = Applied(p, EventOf(a))
    BY <2>1 DEF Apply
  <2>4. QED
    BY <1>1, <1>2, <1>4, <2>1, <2>2, <2>3
<1>5. QED
  BY <1>1, <1>2, <1>3, <1>4 DEF IInv, DispatchIsDecided

(* Persisting a batch keeps the invariant.                                  *)
LEMMA PersistKeepsIInv ==
  ASSUME IInv, NEW t \in Tasks, Persist(t)
  PROVE  IInv'
<1> DEFINE a == action[t]
           k == Key(t)
           p == strokes[k]
           e == EventOf(a)
<1>1. /\ pc[t] = "dispatch" /\ pc' = [pc EXCEPT ![t] = "dispatched"]
      /\ UNCHANGED <<registered, coordinated, action, lease, loaded, events, outcome>>
  BY DEF Persist, Goto
<1>2. a \in Actions /\ k \in StrokeKeys /\ k = StrokeKey(a)
  BY PersistPerforms DEF Key
<1>3. /\ pc'[t] = "dispatched"
      /\ \A u \in Tasks : u # t => pc'[u] = pc[u]
  BY <1>1 DEF IInv, TypeOK
<1>4. Decodes(a) /\ CanvasAdmits(a) /\ lease[ExecutionScope(a)] = t
  BY <1>1 DEF IInv, Screened, LeaseHeld, Leased, Awaits
<1>5. LeaseHeld' /\ Screened' /\ DispatchIsDecided'
  BY <1>1, <1>3, <1>4 DEF IInv, LeaseHeld, Screened, DispatchIsDecided
<1>6. CASE strokes' = strokes /\ EffectOf(a, p)
  <2>1. TypeOK'
    BY <1>1, <1>6 DEF IInv, TypeOK, Awaits
  <2>2. GoodStrokes' /\ SnapshotIsCurrent'
    BY <1>1, <1>3, <1>6 DEF IInv, GoodStrokes, SnapshotIsCurrent, Key
  <2>3. EffectsShown'
    BY <1>1, <1>3, <1>6 DEF IInv, EffectsShown, Shows, Key
  <2>4. QED
    BY <1>5, <2>1, <2>2, <2>3 DEF IInv
<1>7. CASE /\ Drafts(a, p) /\ Applicable(p, e)
           /\ strokes' = [strokes EXCEPT ![k] = Applied(p, e)]
  <2>1. GoodState(k, p) /\ e \in Events
        /\ <<e.session, e.payload.canvas, e.payload.stroke>>
             = <<a.session, a.payload.canvas, a.payload.stroke>>
    BY <1>2, <1>4, EventIsValid DEF IInv, GoodStrokes, EventOf
  <2>2. GoodState(k, Applied(p, e)) /\ Applied(p, e) \in StrokeStates
    <3>1. GoodState(k, Applied(p, e))
      BY <1>2, <1>7, <2>1, AppliedIsGood DEF StrokeKey
    <3>2. QED
      BY <3>1 DEF GoodState, WellFormed, StrokeStates
  <2>3. /\ strokes'[k] = Applied(p, e)
        /\ \A j \in StrokeKeys : j # k => strokes'[j] = strokes[j]
    BY <1>2, <1>7 DEF IInv, TypeOK
  <2>4. TypeOK'
    BY <1>1, <1>7, <2>2 DEF IInv, TypeOK, Awaits
  <2>5. GoodStrokes'
    BY <2>2, <2>3 DEF IInv, GoodStrokes
  <2>6. SnapshotIsCurrent'
    <3> SUFFICES ASSUME NEW u \in Tasks, pc'[u] \in {"decide", "dispatch"}
                 PROVE  loaded[u] = strokes'[Key(u)]
      BY <1>1 DEF SnapshotIsCurrent, Key
    <3>1. u # t /\ pc[u] \in {"decide", "dispatch"}
      BY <1>3
    <3>2. action[u] \in Actions /\ lease[ExecutionScope(action[u])] = u
          /\ loaded[u] = strokes[Key(u)]
      BY <3>1 DEF IInv, TypeOK, LeaseHeld, Leased, SnapshotIsCurrent
    <3>3. Key(u) \in StrokeKeys /\ Key(u) # k
      BY <1>2, <1>4, <3>1, <3>2, KeyOfAction DEF Key
    <3>4. QED
      BY <2>3, <3>2, <3>3
  <2>7. EffectsShown'
    <3> SUFFICES ASSUME NEW u \in Tasks, Shows(u)'
                 PROVE  EffectOf(action[u], strokes'[Key(u)])
      BY <1>1 DEF EffectsShown, Key
    <3>1. CASE u = t
      <4>1. EffectOf(a, Applied(p, e))
        BY <1>2, <1>4, <1>7, <2>1, DraftShowsEffect
      <4>2. QED
        BY <2>3, <3>1, <4>1
    <3>2. CASE u # t
      <4>1. Shows(u) /\ action[u] \in Actions /\ Key(u) \in StrokeKeys
        BY <1>1, <1>3, <3>2, KeyOfAction DEF Shows, IInv, TypeOK, Key
      <4>2. EffectOf(action[u], strokes[Key(u)])
        BY <4>1 DEF IInv, EffectsShown
      <4>3. CASE Key(u) # k
        BY <2>3, <4>1, <4>2, <4>3
      <4>4. CASE Key(u) = k
        <5>1. /\ GoodState(StrokeKey(action[u]), p)
              /\ <<e.session, e.payload.canvas, e.payload.stroke>>
                   = <<action[u].session, action[u].payload.canvas,
                       action[u].payload.stroke>>
          BY <1>2, <2>1, <4>4 DEF Key, StrokeKey
        <5>2. EffectOf(action[u], Applied(p, e))
          BY <1>7, <2>1, <4>1, <4>2, <4>4, <5>1, EffectIsStable
        <5>3. QED
          BY <2>3, <4>4, <5>2
      <4>5. QED
        BY <4>3, <4>4
    <3>3. QED
      BY <3>1, <3>2
  <2>8. QED
    BY <1>5, <2>4, <2>5, <2>6, <2>7 DEF IInv
<1>8. QED
  BY <1>6, <1>7, PersistPerforms

(* Every step keeps the invariant.                                          *)
LEMMA NextIInv == IInv /\ [Next]_vars => IInv'
<1> SUFFICES ASSUME IInv, [Next]_vars PROVE IInv'
  OBVIOUS
<1>1. ASSUME registered' \subseteq registered \cup Churned,
             UNCHANGED <<coordinated, lease, strokes, taskVars>>
      PROVE  IInv'
  <2>1. TypeOK'
    BY <1>1, RuntimeAssumption DEF IInv, TypeOK, taskVars
  <2>2. QED
    BY <1>1, <2>1 DEF IInv, taskVars, LeaseHeld, Screened, GoodStrokes,
       SnapshotIsCurrent, DispatchIsDecided, EffectsShown, Shows, Key
<1>2. ASSUME NEW c \in Churned, Register(c) \/ Unregister(c)
      PROVE  IInv'
  BY <1>1, <1>2 DEF Register, Unregister
<1>3. ASSUME NEW t \in Tasks, NEW a \in Requests, Execute(t, a)
      PROVE  IInv'
  BY <1>3, ExecuteKeepsIInv
<1>4. ASSUME NEW t \in Tasks, Step(t) \/ Acquire(t) \/ DropFuture(t)
      PROVE  IInv'
  <2>1. CASE Persist(t)
    BY <2>1, PersistKeepsIInv
  <2>2. CASE ~Persist(t)
    BY <1>4, <2>2, StepKeepsIInv DEF Step
  <2>3. QED
    BY <2>1, <2>2
<1>5. CASE UNCHANGED vars
  BY <1>1, <1>5 DEF vars
<1>6. QED
  BY <1>2, <1>3, <1>4, <1>5 DEF Next

(* The invariant holds in every reachable state.                            *)
THEOREM Invariant == Spec => []IInv
BY InitIInv, NextIInv, PTL DEF Spec

(* Every variable of the command path keeps its type.                       *)
THEOREM TypeCorrect == Spec => []TypeOK
<1>1. IInv => TypeOK
  BY DEF IInv
<1>2. QED
  BY <1>1, Invariant, PTL

(* The persisted history of every Stroke replays without error.             *)
THEOREM HistoryAlwaysReplays == Spec => []HistoryReplays
<1>1. IInv => HistoryReplays
  <2> SUFFICES ASSUME IInv, NEW k \in StrokeKeys
               PROVE  /\ strokes[k] # Corrupted
                      /\ strokes[k] # NoStroke =>
                           \A i \in DOMAIN strokes[k].chunks :
                             strokes[k].chunks[i].index = i - 1
    BY DEF HistoryReplays
  <2>1. GoodState(k, strokes[k])
    BY DEF IInv, GoodStrokes
  <2>2. CASE strokes[k] = NoStroke
    BY <2>2, ProjectionAssumption
  <2>3. CASE WellFormed(strokes[k])
    BY <2>3, ProjectionAssumption DEF WellFormed, Projections
  <2>4. QED
    BY <2>1, <2>2, <2>3 DEF GoodState
<1>2. QED
  BY <1>1, Invariant, PTL

(* What a handler read is current until its events are persisted.           *)
THEOREM SnapshotStaysCurrent == Spec => []SnapshotIsCurrent
<1>1. IInv => SnapshotIsCurrent
  BY DEF IInv
<1>2. QED
  BY <1>1, Invariant, PTL

(* The effect of an acknowledged command is persisted and never lost.       *)
THEOREM AcknowledgementsHold == Spec => []AcknowledgedEffectStays
<1>1. IInv => AcknowledgedEffectStays
  BY DEF IInv, EffectsShown, Shows, AcknowledgedEffectStays
<1>2. QED
  BY <1>1, Invariant, PTL

(* A retry of a command already in effect is answered Ok and drafts         *)
(* nothing.                                                                 *)
THEOREM RetriesAreIdempotent == Spec => []RetryDraftsNothing
<1>1. IInv => RetryDraftsNothing
  <2> SUFFICES ASSUME IInv, NEW t \in Tasks, pc[t] = "decide",
                      EffectOf(action[t], strokes[Key(t)])
               PROVE  /\ AlreadyDone(action[t], loaded[t])
                      /\ ~Drafts(action[t], loaded[t])
    BY DEF RetryDraftsNothing
  <2>1. action[t] \in Actions /\ loaded[t] = strokes[Key(t)]
    BY DEF IInv, TypeOK, SnapshotIsCurrent
  <2>2. GoodState(StrokeKey(action[t]), strokes[Key(t)])
    BY <2>1, KeyOfAction DEF IInv, GoodStrokes, Key
  <2>3. QED
    BY <2>1, <2>2, EffectIsRepeat
<1>2. QED
  BY <1>1, Invariant, PTL

(* Only Persist changes the persisted state.                                *)
LEMMA OnlyPersistWrites ==
  ASSUME [Next]_vars, strokes' # strokes
  PROVE  \E t \in Tasks : Persist(t)
<1>1. CASE UNCHANGED vars
  BY <1>1 DEF vars
<1>2. ASSUME NEW c \in Churned, Register(c) \/ Unregister(c)
      PROVE  FALSE
  BY <1>2 DEF Register, Unregister
<1>3. ASSUME NEW t \in Tasks, NEW a \in Requests, Execute(t, a)
      PROVE  FALSE
  BY <1>3 DEF Execute
<1>4. ASSUME NEW t \in Tasks, Step(t) \/ Acquire(t) \/ DropFuture(t)
      PROVE  Persist(t)
  BY <1>4 DEF Step, Validate, Authorize, Acquire, LoadCanvas, LoadStroke,
     DecideCommand, DispatchFails, DispatchReturns, DropFuture, Finish
<1>5. QED
  BY <1>1, <1>2, <1>3, <1>4 DEF Next

(* A well-formed Stroke that an event is applied to grows by one chunk or   *)
(* moves along its lifecycle.                                               *)
LEMMA AppliedAdvances ==
  ASSUME NEW k, NEW p, NEW e \in Events, GoodState(k, p), p # NoStroke,
         Applicable(p, e)
  PROVE  Grown(p, Applied(p, e)) \/ Moved(p, Applied(p, e))
<1> DEFINE q == Applied(p, e)
<1>1. p \in Projections /\ p.chunks \in Seq(Chunks) /\ e.type \in EventTypes
  BY DEF GoodState, WellFormed, Projections, Events
<1>2. CASE e.type = "began"
  BY <1>2 DEF Applicable
<1>3. CASE e.type = "points_appended"
  <2> DEFINE c == ChunkOf(e.payload)
  <2>1. p.lifecycle = "Active" /\ q = [p EXCEPT !.chunks = Append(p.chunks, c)]
    BY <1>3, AppliedByType DEF Applicable, InLifecycle
  <2>2. q.chunks = Append(p.chunks, c)
    BY <1>1, <2>1 DEF Projections
  <2>3. c \in Chunks
    BY DEF ChunkOf, Chunks, Payloads, Events
  <2> HIDE DEF c, q
  <2>4. c \in {q.chunks[i] : i \in DOMAIN q.chunks}
    <3> DEFINE n == Len(p.chunks) + 1
    <3>1. n \in DOMAIN q.chunks /\ q.chunks[n] = c
      BY <1>1, <2>2, <2>3
    <3>2. QED
      BY <3>1
  <2>5. Grown(p, q)
    BY <2>1, <2>4 DEF Grown
  <2>6. QED
    BY <2>5 DEF q
<1>4. CASE e.type \in {"completed", "cancelled", "removed"}
  <2>1. PICK l : /\ q = [p EXCEPT !.lifecycle = l]
                 /\ CanTransitionTo(p.lifecycle, l)
    BY <1>4, AppliedByType DEF Applicable, InLifecycle, CanTransitionTo
  <2>2. q.lifecycle = l
    BY <1>1, <2>1 DEF Projections
  <2>3. QED
    BY <2>1, <2>2 DEF Moved
<1>5. QED
  BY <1>1, <1>2, <1>3, <1>4 DEF EventTypes

(* A persisted Stroke only ever grows by one chunk while it is Active, or   *)
(* moves along StrokeLifecycle::can_transition_to with everything else      *)
(* unchanged; none is lost or becomes unreadable.                           *)
THEOREM StrokesAdvance == Spec => StrokesOnlyAdvance
<1> DEFINE Advances ==
      \A k \in StrokeKeys :
        strokes'[k] # strokes[k] =>
          /\ strokes'[k] \notin {NoStroke, Corrupted}
          /\ \/ strokes[k] = NoStroke
             \/ Grown(strokes[k], strokes'[k])
             \/ Moved(strokes[k], strokes'[k])
<1>1. ASSUME IInv, [Next]_vars PROVE Advances
  <2> SUFFICES ASSUME NEW k \in StrokeKeys, strokes'[k] # strokes[k]
               PROVE  /\ strokes'[k] \notin {NoStroke, Corrupted}
                      /\ \/ strokes[k] = NoStroke
                         \/ Grown(strokes[k], strokes'[k])
                         \/ Moved(strokes[k], strokes'[k])
    OBVIOUS
  <2>1. PICK t \in Tasks : Persist(t)
    BY <1>1, OnlyPersistWrites
  <2> DEFINE p == strokes[k]
             e == EventOf(action[t])
  <2>2. /\ action[t] \in Actions /\ Key(t) \in StrokeKeys
        /\ Decodes(action[t]) /\ Applicable(strokes[Key(t)], e)
        /\ strokes' = [strokes EXCEPT ![Key(t)] = Applied(strokes[Key(t)], e)]
    BY <1>1, <2>1, PersistPerforms
  <2>3. Key(t) = k /\ strokes'[k] = Applied(p, e) /\ Applicable(p, e)
    BY <1>1, <2>2 DEF IInv, TypeOK
  <2>4. e \in Events
    BY <2>2, EventIsValid
  <2>5. GoodState(k, p)
    BY <1>1 DEF IInv, GoodStrokes
  <2>6. /\ e.session = k.session /\ e.payload.canvas = k.canvas
        /\ e.payload.stroke = k.stroke
    BY <2>3 DEF EventOf, StrokeKey, Key
  <2> HIDE DEF p, e
  <2>7. strokes'[k] \notin {NoStroke, Corrupted}
    <3>1. GoodState(k, Applied(p, e)) /\ Applied(p, e) # NoStroke
      BY <2>3, <2>4, <2>5, <2>6, AppliedIsGood
    <3>2. Applied(p, e) \in Projections
      BY <3>1 DEF GoodState, WellFormed
    <3>3. QED
      BY <2>3, <3>1, <3>2, ProjectionAssumption
  <2>8. p = NoStroke \/ Grown(p, Applied(p, e)) \/ Moved(p, Applied(p, e))
    BY <2>3, <2>4, <2>5, AppliedAdvances
  <2>9. QED
    BY <2>3, <2>7, <2>8 DEF p
<1>2. QED
  BY <1>1, Invariant, PTL DEF Spec, StrokesOnlyAdvance

(* The command path implements StrokeAggregate, in which a command is       *)
(* decided and applied in one step.                                         *)
THEOREM Refinement == Spec => ImplementsAggregate
<1>1. Init => Aggregate!Init
  BY DEF Init, Aggregate!Init, Aggregate!StrokeKeys, StrokeKeys
<1>2. ASSUME NEW a, NEW p
      PROVE  /\ Aggregate!StrokeKey(a) = StrokeKey(a)
             /\ Aggregate!Decodes(a) = Decodes(a)
             /\ Aggregate!CanvasAdmits(a) = CanvasAdmits(a)
             /\ Aggregate!EventOf(a) = EventOf(a)
             /\ Aggregate!Drafts(a, p) = Drafts(a, p)
             /\ Aggregate!Applied(p, a) = Applied(p, a)
             /\ Aggregate!Actions = Actions
  <2>1. Aggregate!StrokeKey(a) = StrokeKey(a)
    BY DEF StrokeKey, Aggregate!StrokeKey
  <2>2. Aggregate!Decodes(a) = Decodes(a)
    BY DEF Decodes, ValidPayload, ValidPointCount, MAX_POINTS_PER_CHUNK,
       Aggregate!Decodes, Aggregate!ValidPayload, Aggregate!ValidPointCount,
       Aggregate!MAX_POINTS_PER_CHUNK
  <2>3. Aggregate!CanvasAdmits(a) = CanvasAdmits(a)
    BY DEF CanvasAdmits, CanvasFound, PointsInSpace, Aggregate!CanvasAdmits,
       Aggregate!CanvasFound, Aggregate!PointsInSpace
  <2>4. Aggregate!EventOf(a) = EventOf(a)
    BY DEF EventOf, EventTypeOf, Commands, Aggregate!EventOf,
       Aggregate!EventTypeOf, Aggregate!Commands
  <2>5. Aggregate!Drafts(a, p) = Drafts(a, p)
    <3> USE DEF StrokeFound, SameIdentity, LastChunkIndex,
            Aggregate!StrokeFound, Aggregate!SameIdentity, Aggregate!LastChunkIndex
    <3>1. Aggregate!BeginDrafts(a, p) = BeginDrafts(a, p)
      BY DEF BeginDrafts, Aggregate!BeginDrafts
    <3>2. Aggregate!AppendDrafts(a, p) = AppendDrafts(a, p)
      BY DEF AppendDrafts, HasNextChunkIndex, NextChunkIndex, PointsInSpace,
         Aggregate!AppendDrafts, Aggregate!HasNextChunkIndex,
         Aggregate!NextChunkIndex, Aggregate!PointsInSpace
    <3>3. Aggregate!Terminates(a, p, {"Active"}) = Terminates(a, p, {"Active"})
      BY DEF Terminates, ValidFinalIndex, Aggregate!Terminates, Aggregate!ValidFinalIndex
    <3>4. Aggregate!RemoveIn(a, p, "Completed") = RemoveIn(a, p, "Completed")
      BY DEF RemoveIn, Aggregate!RemoveIn
    <3>5. QED
      BY <3>1, <3>2, <3>3, <3>4 DEF Drafts, Aggregate!Drafts
  <2>6. Aggregate!Applied(p, a) = Applied(p, a)
    BY DEF Applied, BegunStroke, ChunkOf, Aggregate!Applied,
       Aggregate!BegunStroke, Aggregate!ChunkOf
  <2>7. Aggregate!Actions = Actions
    BY DEF Actions, Commands, Payloads, ChunkIndices, Aggregate!Actions,
       Aggregate!Commands, Aggregate!Payloads, Aggregate!ChunkIndices
  <2>8. QED
    BY <2>1, <2>2, <2>3, <2>4, <2>5, <2>6, <2>7
<1>3. IInv /\ [Next]_vars => [Aggregate!Next]_strokes
  <2> SUFFICES ASSUME IInv, [Next]_vars, strokes' # strokes
               PROVE  Aggregate!Next
    OBVIOUS
  <2>1. PICK t \in Tasks : Persist(t)
    BY OnlyPersistWrites
  <2>2. /\ action[t] \in Actions
        /\ Decodes(action[t]) /\ CanvasAdmits(action[t])
        /\ Drafts(action[t], strokes[Key(t)])
        /\ strokes' = [strokes EXCEPT ![Key(t)] =
                         Applied(strokes[Key(t)], EventOf(action[t]))]
    BY <2>1, PersistPerforms
  <2>3. Aggregate!Perform(action[t])
    BY <1>2, <2>2 DEF Aggregate!Perform, Key
  <2>4. QED
    BY <1>2, <2>2, <2>3 DEF Aggregate!Next
<1>4. QED
  BY <1>1, <1>3, Invariant, PTL DEF Spec, ImplementsAggregate, Aggregate!Spec
=============================================================================
