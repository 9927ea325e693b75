---------------------------- MODULE CanvasCommands ----------------------------
(***************************************************************************)
(* CanvasCommandService of crates/orbitrelay-canvas-runtime: what each of  *)
(* the five Stroke commands answers, given the canvas catalog and the      *)
(* persisted state of the Stroke.  The canvas catalog is a port of the     *)
(* crate; its contents are the constant Catalog.                           *)
(***************************************************************************)
EXTENDS StrokeProjection

CONSTANT
  Catalog   (* canvases the catalog knows: session, layers and, as the set  *)
            (* of point lists inside it, the space of each                 *)

Commands == {"begin", "append", "end", "cancel", "remove"}

(* What the runtime and the handlers read of a protocol Action.             *)
Actions == [command : Commands, session : Sessions, actor : Actors,
            payload : Payloads]

CanvasDescriptors == [session : Sessions, layers : SUBSET Layers,
                      space : SUBSET PointLists]

ASSUME CatalogAssumption ==
  /\ DOMAIN Catalog \subseteq Canvases
  /\ \A c \in DOMAIN Catalog : Catalog[c] \in CanvasDescriptors

---------------------------------------------------------------------------
(* define_handler!: validate decodes the payload; the execution scope is    *)
(* the Stroke identifier in the namespace "canvas.stroke", whatever the     *)
(* session or the canvas.                                                   *)

Decodes(a) == ValidPayload(a.command, a.payload)

ExecutionScope(a) == a.payload.stroke

(* The arguments of CanvasStateReader::load_stroke.                         *)
StrokeKeys == [session : Sessions, canvas : Canvases, stroke : Strokes]

StrokeKey(a) == [session |-> a.session, canvas |-> a.payload.canvas,
                 stroke |-> a.payload.stroke]

---------------------------------------------------------------------------
(* CanvasCommandService: the part of every command before load_stroke.      *)

(* load_canvas finds the canvas, in the session of the action.              *)
CanvasFound(a) ==
  /\ a.payload.canvas \in DOMAIN Catalog
  /\ Catalog[a.payload.canvas].session = a.session

PointsInSpace(a) == a.payload.points \in Catalog[a.payload.canvas].space

(* begin checks the layer and the points before it loads the Stroke.        *)
CanvasAdmits(a) ==
  /\ CanvasFound(a)
  /\ a.command = "begin" =>
       /\ a.payload.layer \in Catalog[a.payload.canvas].layers
       /\ PointsInSpace(a)

---------------------------------------------------------------------------
(* The part after load_stroke answered p.  For each command: when it drafts *)
(* an event, and when it finds itself already done and answers Ok with no   *)
(* draft.  In every other case it answers an error and drafts nothing.      *)

(* load_required_stroke found the Stroke, of the action's own identity.     *)
StrokeFound(a, p) ==
  /\ p \notin {NoStroke, Corrupted}
  /\ SameIdentity(p, a.session, a.payload)

BeginDrafts(a, p) == p = NoStroke

BeginRepeats(a, p) ==
  /\ StrokeFound(a, p)
  /\ p.layer = a.payload.layer
  /\ p.style = a.payload.style
  /\ HasChunk(p, 0) /\ ChunkPoints(p, 0) = a.payload.points
  /\ p.creator = a.actor

(* The next contiguous chunk of an active Stroke, inside the canvas space.  *)
AppendDrafts(a, p) ==
  /\ StrokeFound(a, p)
  /\ a.payload.index > LastChunkIndex(p)
  /\ HasNextChunkIndex(p)
  /\ a.payload.index <= NextChunkIndex(p)
  /\ p.lifecycle = "Active"
  /\ PointsInSpace(a)

(* Mutated form: a stored index is taken for a retry whatever its points.   *)
AppendRepeatsByIndex(a, p) ==
  /\ StrokeFound(a, p)
  /\ a.payload.index <= LastChunkIndex(p)

(* Mutated form: a retry is only recognised while the Stroke is active.     *)
AppendRepeatsWhileActive(a, p) ==
  /\ StrokeFound(a, p)
  /\ p.lifecycle = "Active"
  /\ a.payload.index <= LastChunkIndex(p)
  /\ HasChunk(p, a.payload.index)
  /\ ChunkPoints(p, a.payload.index) = a.payload.points

(* Decided before the lifecycle and the space are looked at.                *)
AppendRepeats(a, p) ==
  /\ StrokeFound(a, p)
  /\ a.payload.index <= LastChunkIndex(p)
  /\ HasChunk(p, a.payload.index)
  /\ ChunkPoints(p, a.payload.index) = a.payload.points

(* The declared final index is that of the last chunk.                      *)
ValidFinalIndex(a, p) == a.payload.index = LastChunkIndex(p)

(* An end or cancel of a stroke in one of some lifecycles.                  *)
Terminates(a, p, lifecycles) ==
  /\ StrokeFound(a, p)
  /\ p.lifecycle \in lifecycles
  /\ ValidFinalIndex(a, p)

RemoveIn(a, p, lifecycle) == StrokeFound(a, p) /\ p.lifecycle = lifecycle

Drafts(a, p) ==
  \/ a.command = "begin" /\ BeginDrafts(a, p)
  \/ a.command = "append" /\ AppendDrafts(a, p)
  \/ a.command \in {"end", "cancel"} /\ Terminates(a, p, {"Active"})
  \/ a.command = "remove" /\ RemoveIn(a, p, "Completed")

AlreadyDone(a, p) ==
  \/ a.command = "begin" /\ BeginRepeats(a, p)
  \/ a.command = "append" /\ AppendRepeats(a, p)
  \/ a.command = "end" /\ Terminates(a, p, {"Completed", "Removed"})
  \/ a.command = "cancel" /\ Terminates(a, p, {"Cancelled"})
  \/ a.command = "remove" /\ RemoveIn(a, p, "Removed")

---------------------------------------------------------------------------
(* event_draft and the event the runtime makes of it: the payload of the    *)
(* action, with the action's session and actor.                             *)

EventTypeOf ==
  [command \in Commands |->
     CASE command = "begin" -> "began"
       [] command = "append" -> "points_appended"
       [] command = "end" -> "completed"
       [] command = "cancel" -> "cancelled"
       [] command = "remove" -> "removed"]

EventOf(a) == [type |-> EventTypeOf[a.command], session |-> a.session,
               actor |-> a.actor, payload |-> a.payload]

---------------------------------------------------------------------------
(* What a client may rely on once a command was answered Ok: the persisted  *)
(* Stroke shows its effect.                                                 *)
EffectOf(a, p) ==
  LET shown(index) == [index |-> index, points |-> a.payload.points]
  IN  /\ p \notin {NoStroke, Corrupted}
      /\ <<p.session, p.canvas, p.stroke>>
           = <<a.session, a.payload.canvas, a.payload.stroke>>
      /\ a.command = "begin" =>
           /\ <<p.layer, p.style, p.creator>>
                = <<a.payload.layer, a.payload.style, a.actor>>
           /\ p.chunks[1] = shown(0)
      /\ a.command = "append" =>
           \E i \in DOMAIN p.chunks : p.chunks[i] = shown(a.payload.index)
      /\ a.command = "end" =>
           /\ p.lifecycle \in {"Completed", "Removed"}
           /\ Len(p.chunks) = a.payload.index + 1
      /\ a.command = "cancel" =>
           /\ p.lifecycle = "Cancelled"
           /\ Len(p.chunks) = a.payload.index + 1
      /\ a.command = "remove" => p.lifecycle = "Removed"
=============================================================================
