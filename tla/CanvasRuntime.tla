----------------------------- MODULE CanvasRuntime -----------------------------
(***************************************************************************)
(* Runtime::execute of crates/orbitrelay-runtime running the canvas        *)
(* command handlers.  Each task is one call of execute; it can be          *)
(* suspended, and its future dropped, at every await.  The authorizer, the *)
(* execution coordinator, the canvas catalog, the state reader and the     *)
(* event pipeline are ports of the code: they answer or fail as they like, *)
(* except that the coordinator keeps equal scopes mutually exclusive and   *)
(* that the reader shows what the pipeline has persisted.                  *)
(***************************************************************************)
EXTENDS CanvasCommands

CONSTANTS
  Tasks,      (* concurrent calls of execute                               *)
  NoTask,     (* the owner of a free execution scope                       *)
  NoAction,   (* the action of a task that was never submitted             *)
  Requests,   (* the actions clients submit                                *)
  Churned     (* the action types unregistered and registered at run time  *)

ASSUME RuntimeAssumption ==
  /\ NoTask \notin Tasks
  /\ Requests \subseteq Actions
  /\ Churned \subseteq Commands

VARIABLES
  registered,   (* action types in the handler registry                    *)
  coordinated,  (* the context has an execution coordinator                *)
  pc,           (* the await each task is suspended in                     *)
  action,       (* the action each task executes                           *)
  lease,        (* the task that holds each execution scope                *)
  loaded,       (* what load_stroke answered to the task                   *)
  events,       (* the materialised events the task dispatches             *)
  outcome,      (* what execute returned                                   *)
  strokes       (* what the persisted events of each Stroke replay to      *)

taskVars == <<pc, action, loaded, events, outcome>>
vars == <<registered, coordinated, lease, strokes, taskVars>>

Awaits == {"validate", "authorize", "acquire", "load_canvas", "load_stroke",
           "decide", "dispatch", "dispatched"}

Errors == {"HandlerNotFound", "ValidationFailed", "AuthorizationFailed",
           "CoordinationUnavailable", "CoordinationFailed", "HandlerFailed",
           "PipelineFailed"}

Outcomes == {"None", "Ok", "Dropped"} \cup Errors

(* The awaits inside the scope of the lease.                                *)
Leased == {"load_canvas", "load_stroke", "decide", "dispatch", "dispatched"}

TypeOK ==
  /\ registered \in SUBSET Commands
  /\ coordinated \in BOOLEAN
  /\ pc \in [Tasks -> Awaits \cup {"idle", "done"}]
  /\ action \in [Tasks -> Actions \cup {NoAction}]
  /\ \A t \in Tasks : pc[t] # "idle" => action[t] \in Actions
  /\ lease \in [Strokes -> Tasks \cup {NoTask}]
  /\ loaded \in [Tasks -> StrokeStates]
  /\ events \in [Tasks -> Seq(Events)]
  /\ outcome \in [Tasks -> Outcomes]
  /\ strokes \in [StrokeKeys -> StrokeStates]

Init ==
  /\ registered = Commands
  /\ coordinated \in BOOLEAN
  /\ pc = [t \in Tasks |-> "idle"]
  /\ action = [t \in Tasks |-> NoAction]
  /\ lease = [s \in Strokes |-> NoTask]
  /\ loaded = [t \in Tasks |-> NoStroke]
  /\ events = [t \in Tasks |-> <<>>]
  /\ outcome = [t \in Tasks |-> "None"]
  /\ strokes = [k \in StrokeKeys |-> NoStroke]

---------------------------------------------------------------------------
(* Helpers.                                                                 *)

Key(t) == StrokeKey(action[t])

Goto(t, from, to) ==
  /\ pc[t] = from
  /\ pc' = [pc EXCEPT ![t] = to]

(* Mutated form: the lease outlives an execution that did not end Ok.       *)
FinishKeepingLease(t, result) ==
  /\ pc' = [pc EXCEPT ![t] = "done"]
  /\ outcome' = [outcome EXCEPT ![t] = result]
  /\ lease' = [s \in Strokes |->
                 IF lease[s] = t /\ result = "Ok" THEN NoTask ELSE lease[s]]
  /\ loaded' = [loaded EXCEPT ![t] = NoStroke]
  /\ events' = [events EXCEPT ![t] = <<>>]
  /\ UNCHANGED <<registered, coordinated, action, strokes>>

(* execute returns, or its future is dropped: its locals are dropped with   *)
(* it, the lease among them.                                                *)
Finish(t, result) ==
  /\ pc' = [pc EXCEPT ![t] = "done"]
  /\ outcome' = [outcome EXCEPT ![t] = result]
  /\ lease' = [s \in Strokes |-> IF lease[s] = t THEN NoTask ELSE lease[s]]
  /\ loaded' = [loaded EXCEPT ![t] = NoStroke]
  /\ events' = [events EXCEPT ![t] = <<>>]
  /\ UNCHANGED <<registered, coordinated, action, strokes>>

---------------------------------------------------------------------------
(* The handler registry.  Registering a type that is present fails and      *)
(* changes nothing.                                                         *)

Register(c) ==
  /\ c \notin registered
  /\ registered' = registered \cup {c}
  /\ UNCHANGED <<coordinated, lease, strokes, taskVars>>

Unregister(c) ==
  /\ c \in registered
  /\ registered' = registered \ {c}
  /\ UNCHANGED <<coordinated, lease, strokes, taskVars>>

---------------------------------------------------------------------------
(* Runtime::execute.                                                        *)

(* Mutated form: the task goes on with the action it had.                   *)
ExecuteUnrecorded(t, a) ==
  /\ pc[t] \in {"idle", "done"}
  /\ pc' = [pc EXCEPT ![t] = "validate"]
  /\ outcome' = [outcome EXCEPT ![t] = "None"]
  /\ UNCHANGED <<registered, coordinated, action, lease, loaded, events, strokes>>

(* A client calls execute; the handler is looked up once, at the start.     *)
Execute(t, a) ==
  /\ pc[t] \in {"idle", "done"}
  /\ action' = [action EXCEPT ![t] = a]
  /\ LET found == a.command \in registered
     IN  /\ pc' = [pc EXCEPT ![t] = IF found THEN "validate" ELSE "done"]
         /\ outcome' = [outcome EXCEPT
                          ![t] = IF found THEN "None" ELSE "HandlerNotFound"]
  /\ UNCHANGED <<registered, coordinated, lease, loaded, events, strokes>>

Validate(t) ==
  \/ /\ Goto(t, "validate", "authorize")
     /\ Decodes(action[t])
     /\ UNCHANGED <<registered, coordinated, action, lease, loaded, events,
                    outcome, strokes>>
  \/ /\ pc[t] = "validate"
     /\ ~Decodes(action[t])
     /\ Finish(t, "ValidationFailed")

(* The authorizer answers; on success the scope is computed and, without a  *)
(* coordinator in the context, the action is refused.                       *)
Authorize(t) ==
  \/ /\ Goto(t, "authorize", "acquire")
     /\ coordinated
     /\ UNCHANGED <<registered, coordinated, action, lease, loaded, events,
                    outcome, strokes>>
  \/ /\ pc[t] = "authorize"
     /\ ~coordinated
     /\ Finish(t, "CoordinationUnavailable")
  \/ /\ pc[t] = "authorize"
     /\ Finish(t, "AuthorizationFailed")

(* Mutated form: the lease is granted although the scope is held.           *)
AcquireHeld(t) ==
  \/ /\ Goto(t, "acquire", "load_canvas")
     /\ lease' = [lease EXCEPT ![ExecutionScope(action[t])] = t]
     /\ UNCHANGED <<registered, coordinated, action, loaded, events, outcome,
                    strokes>>
  \/ /\ pc[t] = "acquire"
     /\ Finish(t, "CoordinationFailed")

(* The coordinator grants a free scope, or fails.                           *)
Acquire(t) ==
  \/ /\ Goto(t, "acquire", "load_canvas")
     /\ lease[ExecutionScope(action[t])] = NoTask
     /\ lease' = [lease EXCEPT ![ExecutionScope(action[t])] = t]
     /\ UNCHANGED <<registered, coordinated, action, loaded, events, outcome,
                    strokes>>
  \/ /\ pc[t] = "acquire"
     /\ Finish(t, "CoordinationFailed")

(* handler.handle up to load_stroke: the catalog answers, or fails.         *)
LoadCanvas(t) ==
  \/ /\ Goto(t, "load_canvas", "load_stroke")
     /\ CanvasAdmits(action[t])
     /\ UNCHANGED <<registered, coordinated, action, lease, loaded, events,
                    outcome, strokes>>
  \/ /\ pc[t] = "load_canvas"
     /\ Finish(t, "HandlerFailed")

(* The state reader reads the persisted state, or fails; the task resumes   *)
(* with what was read some time later.                                      *)
LoadStroke(t) ==
  \/ /\ Goto(t, "load_stroke", "decide")
     /\ loaded' = [loaded EXCEPT ![t] = strokes[Key(t)]]
     /\ UNCHANGED <<registered, coordinated, action, lease, events, outcome,
                    strokes>>
  \/ /\ pc[t] = "load_stroke"
     /\ Finish(t, "HandlerFailed")

(* Mutated form: the lease is dropped when the handler has returned.        *)
DecideReleasing(t) ==
  LET a == action[t]
  IN  /\ Goto(t, "decide", "dispatch")
      /\ Drafts(a, loaded[t]) \/ AlreadyDone(a, loaded[t])
      /\ events' = [events EXCEPT
                      ![t] = IF Drafts(a, loaded[t]) THEN <<EventOf(a)>>
                                                     ELSE <<>>]
      /\ lease' = [lease EXCEPT ![ExecutionScope(a)] = NoTask]
      /\ UNCHANGED <<registered, coordinated, action, loaded, outcome, strokes>>

(* The rest of the command, and the events made of its drafts.              *)
DecideCommand(t) ==
  LET a == action[t]
  IN  \/ /\ Goto(t, "decide", "dispatch")
         /\ Drafts(a, loaded[t]) \/ AlreadyDone(a, loaded[t])
         /\ events' = [events EXCEPT
                         ![t] = IF Drafts(a, loaded[t]) THEN <<EventOf(a)>>
                                                        ELSE <<>>]
         /\ UNCHANGED <<registered, coordinated, action, lease, loaded,
                        outcome, strokes>>
      \/ /\ pc[t] = "decide"
         /\ ~Drafts(a, loaded[t])
         /\ ~AlreadyDone(a, loaded[t])
         /\ Finish(t, "HandlerFailed")

(* The pipeline persists the batch, an empty one too.                       *)
Persist(t) ==
  /\ Goto(t, "dispatch", "dispatched")
  /\ strokes' = IF events[t] = <<>> THEN strokes
                ELSE [strokes EXCEPT ![Key(t)] = Apply(@, events[t][1])]
  /\ UNCHANGED <<registered, coordinated, action, lease, loaded, events,
                 outcome>>

(* Mutated form: the error of the pipeline is ignored.                      *)
DispatchFailsOk(t) ==
  /\ pc[t] = "dispatch"
  /\ Finish(t, "Ok")

(* dispatch fails before the batch is persisted.                            *)
DispatchFails(t) ==
  /\ pc[t] = "dispatch"
  /\ Finish(t, "PipelineFailed")

(* dispatch returns, with an error even though the batch is persisted when  *)
(* a later stage of the pipeline fails.                                     *)
DispatchReturns(t) ==
  /\ pc[t] = "dispatched"
  /\ \E result \in {"Ok", "PipelineFailed"} : Finish(t, result)

(* The caller drops the future of execute while it is suspended.            *)
DropFuture(t) ==
  /\ pc[t] \in Awaits
  /\ Finish(t, "Dropped")

Step(t) ==
  \/ Validate(t) \/ Authorize(t) \/ LoadCanvas(t) \/ LoadStroke(t)
  \/ DecideCommand(t) \/ Persist(t) \/ DispatchFails(t) \/ DispatchReturns(t)

Next ==
  \/ \E c \in Churned : Register(c) \/ Unregister(c)
  \/ \E t \in Tasks : \/ \E a \in Requests : Execute(t, a)
                      \/ Step(t)
                      \/ Acquire(t)
                      \/ DropFuture(t)

Spec == Init /\ [][Next]_vars

(* The ports answer every call, so a task that can go on does.  Nothing is  *)
(* assumed of clients, of dropped futures or of the order in which the      *)
(* coordinator grants a scope.                                              *)
FairSpec == Spec /\ \A t \in Tasks : WF_vars(Step(t))

---------------------------------------------------------------------------
(* Properties.                                                              *)

(* The persisted events of every Stroke replay without error, into chunks   *)
(* numbered 0, 1, 2, ...: StrokeProjector::apply rejects no event that      *)
(* Runtime::execute let through, whatever tasks raced, failed or were       *)
(* dropped.                                                                 *)
HistoryReplays ==
  \A k \in StrokeKeys :
    /\ strokes[k] # Corrupted
    /\ strokes[k] # NoStroke =>
         \A i \in DOMAIN strokes[k].chunks : strokes[k].chunks[i].index = i - 1

(* What a handler read stays current until its events are persisted: no     *)
(* other task changes the Stroke between load_stroke and dispatch.          *)
SnapshotIsCurrent ==
  \A t \in Tasks : pc[t] \in {"decide", "dispatch"} => loaded[t] = strokes[Key(t)]

(* Once execute has answered Ok, the persisted Stroke shows the effect of   *)
(* the command, and keeps showing it: an acknowledged chunk, completion,    *)
(* cancellation or removal is never lost or replaced.                       *)
AcknowledgedEffectStays ==
  \A t \in Tasks :
    pc[t] = "done" /\ outcome[t] = "Ok" => EffectOf(action[t], strokes[Key(t)])

(* A retry of a command whose effect is already persisted, after a lost     *)
(* answer, a pipeline error or a dropped future, is answered Ok and drafts  *)
(* nothing, whatever happened to the Stroke since.                          *)
RetryDraftsNothing ==
  \A t \in Tasks :
    pc[t] = "decide" /\ EffectOf(action[t], strokes[Key(t)])
      => AlreadyDone(action[t], loaded[t]) /\ ~Drafts(action[t], loaded[t])

(* A persisted Stroke only ever grows by one chunk while it is Active, or   *)
(* moves along StrokeLifecycle::can_transition_to with everything else      *)
(* unchanged.                                                               *)
Grown(p, q) ==
  /\ p.lifecycle = "Active"
  /\ \E c \in {q.chunks[i] : i \in DOMAIN q.chunks} :
       q = [p EXCEPT !.chunks = Append(@, c)]

Moved(p, q) ==
  /\ CanTransitionTo(p.lifecycle, q.lifecycle)
  /\ q = [p EXCEPT !.lifecycle = q.lifecycle]

StrokesOnlyAdvance ==
  [][\A k \in StrokeKeys :
       strokes'[k] # strokes[k] =>
         /\ strokes'[k] \notin {NoStroke, Corrupted}
         /\ \/ strokes[k] = NoStroke
            \/ Grown(strokes[k], strokes'[k])
            \/ Moved(strokes[k], strokes'[k])]_vars

(* The whole command path implements commands that take effect one at a     *)
(* time.                                                                    *)
Aggregate == INSTANCE StrokeAggregate WITH strokes <- strokes

ImplementsAggregate == Aggregate!Spec

(* An execution lease is given back whatever way execute ends, so no scope  *)
(* is held for ever.                                                        *)
LeaseReturned ==
  \A s \in Strokes, t \in Tasks : lease[s] = t ~> lease[s] # t
=============================================================================
