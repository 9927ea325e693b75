--------------------------- MODULE StrokeProjection ---------------------------
(***************************************************************************)
(* The Stroke aggregate of crates/orbitrelay-canvas: the payloads of its   *)
(* events, what decoding accepts, and the projector that folds persisted   *)
(* events into the current state of one Stroke.                            *)
(*                                                                         *)
(* A list of points is an element of PointLists; the code looks at its     *)
(* length, at whether it equals another list and at whether every point    *)
(* lies in the canvas space.  The drawing tool and the style are one value *)
(* of Styles: they are only ever compared, and always together.            *)
(***************************************************************************)
EXTENDS Naturals, Sequences

CONSTANTS
  Sessions, Actors, Canvases, Strokes, Layers, Styles,
  PointLists,   (* lists of canvas points a client can send               *)
  PointCount,   (* the number of points of each list                      *)
  MaxIndex,     (* the largest chunk index, u64::MAX in the code           *)
  NoStroke,     (* Option::None: no event of the Stroke is persisted       *)
  Corrupted     (* the events of the Stroke do not replay                  *)

Lifecycles == {"Active", "Completed", "Cancelled", "Removed"}

EventTypes == {"began", "points_appended", "completed", "cancelled", "removed"}

ChunkIndices == 0..MaxIndex

(* One record for the five payload structs.  "index" is chunk_index of a    *)
(* begin or append payload and final_chunk_index of an end or cancel one;   *)
(* the fields a struct does not have are not read.                          *)
Payloads == [canvas : Canvases, stroke : Strokes, layer : Layers,
             style : Styles, index : ChunkIndices, points : PointLists]

(* What the projector reads of a protocol Event.                            *)
Events == [type : EventTypes, session : Sessions, actor : Actors,
           payload : Payloads]

Chunks == [index : ChunkIndices, points : PointLists]

Projections == [session : Sessions, creator : Actors, canvas : Canvases,
                stroke : Strokes, layer : Layers, style : Styles,
                chunks : Seq(Chunks), lifecycle : Lifecycles]

(* The values load_stroke can give: a projection, nothing, or an error.     *)
StrokeStates == Projections \cup {NoStroke, Corrupted}

ASSUME ProjectionAssumption ==
  /\ MaxIndex \in Nat
  /\ PointCount \in [PointLists -> Nat]
  /\ NoStroke \notin Projections
  /\ Corrupted \notin Projections
  /\ NoStroke # Corrupted

---------------------------------------------------------------------------
(* Decoding of a payload: TryFrom<&Payload> and validate().                 *)

MAX_POINTS_PER_CHUNK == 256

ValidPointCount(points) == PointCount[points] \in 1..MAX_POINTS_PER_CHUNK

(* A payload of the named struct decodes; encoding checks the same.         *)
ValidPayload(struct, payload) ==
  /\ struct = "begin" => payload.index = 0 /\ ValidPointCount(payload.points)
  /\ struct = "append" => payload.index >= 1 /\ ValidPointCount(payload.points)

(* The payload struct carried by each event type.                           *)
PayloadStruct ==
  [type \in EventTypes |->
     CASE type = "began" -> "begin"
       [] type = "points_appended" -> "append"
       [] type = "completed" -> "end"
       [] type = "cancelled" -> "cancel"
       [] type = "removed" -> "remove"]

---------------------------------------------------------------------------
(* Accessors of StrokeProjection.                                           *)

LastChunkIndex(p) == p.chunks[Len(p.chunks)].index

(* next_chunk_index is None when the last index is the largest one.         *)
HasNextChunkIndex(p) == LastChunkIndex(p) < MaxIndex

NextChunkIndex(p) == LastChunkIndex(p) + 1

(* chunk(i) is Some: the chunk stored at position i also carries index i.   *)
HasChunk(p, i) == i + 1 \in DOMAIN p.chunks /\ p.chunks[i + 1].index = i

ChunkPoints(p, i) == p.chunks[i + 1].points

CanTransitionTo(from, to) ==
  <<from, to>> \in {<<"Active", "Completed">>, <<"Active", "Cancelled">>,
                    <<"Completed", "Removed">>}

---------------------------------------------------------------------------
(* StrokeProjector::apply.                                                  *)

SameIdentity(p, session, payload) ==
  /\ p.session = session
  /\ p.canvas = payload.canvas
  /\ p.stroke = payload.stroke

(* require_projection, validate_identity and require_lifecycle.             *)
InLifecycle(p, e, lifecycle) ==
  /\ p # NoStroke
  /\ SameIdentity(p, e.session, e.payload)
  /\ p.lifecycle = lifecycle

(* No check of apply rejects event e in the state p.                        *)
Applicable(p, e) ==
  /\ p # Corrupted
  /\ ValidPayload(PayloadStruct[e.type], e.payload)
  /\ \/ /\ e.type = "began"
        /\ p = NoStroke
     \/ /\ e.type = "points_appended"
        /\ InLifecycle(p, e, "Active")
        /\ HasNextChunkIndex(p)
        /\ e.payload.index = NextChunkIndex(p)
     \/ /\ e.type \in {"completed", "cancelled"}
        /\ InLifecycle(p, e, "Active")
        /\ e.payload.index = LastChunkIndex(p)
     \/ /\ e.type = "removed"
        /\ InLifecycle(p, e, "Completed")

ChunkOf(payload) == [index |-> payload.index, points |-> payload.points]

(* The projection a began event creates.                                    *)
BegunStroke(e) ==
  [session |-> e.session, creator |-> e.actor, canvas |-> e.payload.canvas,
   stroke |-> e.payload.stroke, layer |-> e.payload.layer,
   style |-> e.payload.style, chunks |-> <<ChunkOf(e.payload)>>,
   lifecycle |-> "Active"]

Applied(p, e) ==
  CASE e.type = "began" -> BegunStroke(e)
    [] e.type = "points_appended" ->
         [p EXCEPT !.chunks = Append(@, ChunkOf(e.payload))]
    [] e.type = "completed" -> [p EXCEPT !.lifecycle = "Completed"]
    [] e.type = "cancelled" -> [p EXCEPT !.lifecycle = "Cancelled"]
    [] e.type = "removed" -> [p EXCEPT !.lifecycle = "Removed"]

Apply(p, e) == IF Applicable(p, e) THEN Applied(p, e) ELSE Corrupted
=============================================================================
